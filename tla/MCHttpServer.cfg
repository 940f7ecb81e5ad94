SPECIFICATION MCSpec
CONSTANTS
  ShutdownTimeout = 2
  MaxRequests = 2
  MaxTime = 6
  Labels <- MCLabels
  Certificates <- MCCertificates
  AllowedNPAs <- MCAllowedNPAs
  Names = {"m", "n"}
  TeamHeaders <- MCTeamHeaders
  Required <- MCRequired
INVARIANTS ResultSound HandlerGuarded AnswerSound
PROPERTIES Stops
