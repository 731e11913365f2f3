\* A request whose first bytes contain a line feed.
CONSTANTS
  c1 = c1  c2 = c2  s4 = s4  s8 = s8  q1 = q1  q2 = q2  q3 = q3
  None = None
  Conn = {c1}
  Stream = {s4, s8}
  Query = {q1, q2, q3}
  ZeroIdQuery = {}
  LongQuery = {}
  RefusedQuery = {}
  GetQuery = {}
  Content <- ResetContent
  Packets <- ResetPackets
  CommandMax = 9
  Network = "ordered"
  ErrorReply = {FALSE}
  Lossy = FALSE
  MaxPackets = 5
  MaxFail = 0
SPECIFICATION Spec
INVARIANT ResetOnlyAfterFinOrTooLong
