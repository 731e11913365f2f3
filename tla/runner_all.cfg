\* Every short command line.
CONSTANTS
  test_table <- Six
  Unknown = {"none"}
  MaxOptions = 2
  MaxNames = 2
SPECIFICATION RunnerSpec
INVARIANTS RunnerTypeOK RunsAsAsked ExitTellsFailure
