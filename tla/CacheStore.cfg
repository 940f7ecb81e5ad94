SPECIFICATION Spec
CONSTANTS
  Keys = {k1, k2}
  Values = {v1, v2}
  Absent = Absent
  Clients = {c1, c2}
  ExternalWriters = FALSE
  Faults = {"before"}
INVARIANTS Coherent
PROPERTIES ImplementsKeyValue
