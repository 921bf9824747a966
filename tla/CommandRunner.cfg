SPECIFICATION FairRunnerSpec
CONSTANTS
  Hosts = {"bridge", "node"}
  MaxLines = 2
INVARIANT WholeOutput
PROPERTY CallReturns
CHECK_DEADLOCK FALSE
