\* Two queries, one failure, any event of the engine, one stream of the server.
CONSTANTS
  s1 = s1  s4 = s4  s8 = s8  s12 = s12  q1 = q1  q2 = q2
  None = None
  Stream = {s1, s4, s8}
  Scenario <- DemoScenarioShort
  Previous <- DemoPrevious
  PeerStream = {s1}
  Query = {q1, q2}
  Foreign = Foreign
  ServerPort = {4433, 4443}
  StubPort = 4450
  ReceiveBatch = 1
  Timing = {TRUE, FALSE}
  MaxQueries = 2
  MaxFail = 1
SPECIFICATION Spec
INVARIANTS TypeOK OpenStreamsCounted FirstQueryKept FollowersAfterFin
PROPERTY HiddenStaysOpen
