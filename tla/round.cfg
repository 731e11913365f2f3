\* Connecting and closing with losses; a stateless packet, for which the clock jumps.
CONSTANTS
  None = None
  Packet <- Sizes
  Rate = 838860
  Latency = 10000
  DelayMax = 0
  Mask <- Masks
  WakeDelay <- Wakes
  TrialLimit = 5
  InactiveLimit = 2
  CloseLimit = 2
  MaxStateless = 1
SPECIFICATION Spec
INVARIANTS TypeOK NothingLate LinksOrdered PatternShared QuietMeansEmpty CrashNeedsLimit
PROPERTIES NoOversleep CloseLossless
