\* Streams without response of both endpoints, fairness of the engines.
CONSTANTS
  None = None
  Scenarios <- Plain
  Stopped = {}
  MaxLosses = 1
  MaxRepeats = 0
SPECIFICATION FairSpec
PROPERTY LoopEnds
