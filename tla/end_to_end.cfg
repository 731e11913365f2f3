\* Two queries of the stub, a stream and its follower, a datagram sent again.
CONSTANTS
  s4 = s4  s8 = s8  q1 = q1  q2 = q2
  None = None
  Connection = connection
  Stream = {s4, s8}
  Scenario <- DemoScenario
  Previous <- DemoPrevious
  PeerStream = {}
  Query = {q1, q2}
  Foreign = foreign
  ServerPort = {4433}
  StubPort = 4450
  ZeroIdQuery = {q2}
  LongQuery = {}
  RefusedQuery = {}
  Offset <- Offsets
  LineEnds <- Ends
  NoiseSize = {40}
  ErrorReply = {FALSE}
  Lossy = TRUE
  ReceiveBatch = 0
  Timing = {FALSE}
  MaxQueries = 2
  MaxFail = 0
  MaxNoise = 1
  MaxRepeats = 1
SPECIFICATION FairPathSpec
INVARIANTS OwnOrRepeated StarvesForCause
PROPERTIES CarriedIsRelayed KeepsSending
