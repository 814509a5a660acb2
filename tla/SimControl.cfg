\* Two controllers, any requests at any time
CONSTANTS
  Ctrl <- TwoControllers
  CosimEnabled = TRUE
SPECIFICATION FairSpec
INVARIANTS PauseStopsClock TerminateStopsClock NothingBeforeStart
PROPERTIES TerminateEndsSimulation StartResumes
CHECK_DEADLOCK FALSE
