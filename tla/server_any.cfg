\* Two clients, any network: reordering, duplication, aborts, closing, failures.
CONSTANTS
  c1 = c1  c2 = c2  s4 = s4  s8 = s8  q1 = q1  q2 = q2  q3 = q3
  None = None
  Conn = {c1, c2}
  Stream = {s4, s8}
  Query = {q1, q2}
  ZeroIdQuery = {}
  LongQuery = {}
  RefusedQuery = {}
  GetQuery = {q2}
  Content <- AnyContent
  Packets <- AnyPackets
  CommandMax = 9
  Network = "any"
  ErrorReply = {TRUE, FALSE}
  Lossy = TRUE
  MaxPackets = 3
  MaxFail = 1
SPECIFICATION Spec
INVARIANTS TypeOK CommandFits
PROPERTIES FinishedIsFinal ImplementsExchange
