SPECIFICATION FairSpec
CONSTANTS
  Tasks = {t1, t2}
  ZeroTimeout = FALSE
INVARIANTS SendIsSafe ErrorsDelivered FailFastHolds RunAllWaits
PROPERTIES StopsInTime
