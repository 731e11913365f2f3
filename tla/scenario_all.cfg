\* Four tables; a lost and a repeated packet; a reset that races data.
CONSTANTS
  None = None
  Scenarios <- All
  Stopped <- StopOnly
  MaxLosses = 1
  MaxRepeats = 1
SPECIFICATION Spec
INVARIANTS TypeOK NothingRefused BreakLeavesOnlyUnsent BreakIsComplete
PROPERTY ImplementsTable
