SPECIFICATION Spec
CONSTANTS
  Keys <- MCKeys
  MaxAge = 1
  Endpoints <- MCEndpoints
  MayFail <- MCMayFail
  Conditions <- MCConditions
  Pods = {1, 2}
  Files <- MCFiles
  Rooted = {1, 2}
  Contents = {1, 2}
  MaxTrouble = 1
  MaxEvents = 3
  Controllers = {1, 2, 3}
  Locks = {l1}
INVARIANTS PurgerSurvives
PROPERTIES AnswersOwnChecks ResultsMoveOn PodsFresh Reclaimed
CHECK_DEADLOCK FALSE
