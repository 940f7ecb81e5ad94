SPECIFICATION MCSpec
CONSTANTS
  Stores = {s1, s2}
  Values = {zero, new}
  Zero = zero
  New = new
  Absent = Absent
  DoSteps = 2
  RollbackSteps = 2
  Capacity = 2
  Calls = 2
  Objects = {o1, o2}
  Chain = 2
  Tries = 2
  NoExecution = NoExecution
INVARIANTS ReplicationSound WorkflowSound
PROPERTIES ReplicateReturns StopReturns
