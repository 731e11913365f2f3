\* What the help says of named tests; every short command line.
CONSTANTS
  test_table <- Six
  Unknown = {"none"}
  MaxOptions = 2
  MaxNames = 2
SPECIFICATION RunnerSpec
INVARIANTS NamedTestsRun
