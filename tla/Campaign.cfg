SPECIFICATION ProjectSpec
CONSTANTS
  Compilers = {"gcc", "clang"}
  Runs <- TwoGccOneClang
  Ports = {1, 2, 3}
  InitialPorts <- Neighbours
  NoPort = NoPort
  BuildOrder <- GccThenClang
  MaxSource = 2
  MaxFaults = 2
INVARIANTS NeverMeasuresAnotherRun ServersAreStopped MeasuredTogether
PROPERTIES CampaignEnds
CHECK_DEADLOCK FALSE
