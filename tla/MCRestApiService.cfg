SPECIFICATION RestSpec
CONSTANTS
  s1 = s1
  s2 = s2
  s3 = s3
  s4 = s4
  x = x
  y = y
  z = z
  old = old
  new = new
  Absent = Absent
  NoName = NoName
  NStages = 2
  Services <- MCServices
  Names <- MCNames
  Contents <- MCContents
  StageOf <- MCStageOf
  Method <- MCMethod
  RequestName <- MCRequestName
  PayloadName <- MCPayloadName
  Payload <- MCPayload
  FaultyCalls = {"RUN"}
  Recoverables <- None
  DryRunServices <- None
INVARIANTS RollbackUndoes ApiRestored
