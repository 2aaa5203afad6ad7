CONSTANTS
  Asks <- MCAsks
  MaxCommands = 3
  MaxBreaks = 0
SPECIFICATION ControlPlaneSpec
CHECK_DEADLOCK FALSE
INVARIANT OwnInitIsNotRefused
