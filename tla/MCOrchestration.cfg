SPECIFICATION FairSpec
CONSTANTS
  a = a
  b = b
  c = c
  NStages = 3
  Services <- MCServices
  StageOf <- MCStageOf
  Recoverables <- MCRecoverables
  DryRunServices <- MCDryRunServices
INVARIANTS CallOrder ResponseSound
PROPERTIES ImplementsSaga CallEnds
