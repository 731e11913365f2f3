----------------------- MODULE TlsApiScenarioProofs ------------------------
(***************************************************************************)
(* Theorems about TlsApiScenario, for any tables of streams, losses and    *)
(* repetitions: the callbacks find no error, a stream is opened when the   *)
(* one it follows is over, and what is missing when the loop breaks has    *)
(* not been sent.                                                          *)
(***************************************************************************)
EXTENDS TlsApiScenario, TLAPS

-----------------------------------------------------------------------------
(***************************************************************************)
(* The table.                                                              *)
(***************************************************************************)

LEMMA TableFacts ==
  ASSUME Scenario \in Scenarios
  PROVE  /\ Stream = 1 .. Len(Scenario)
         /\ \A i \in Stream : /\ Scenario[i] \in Desc
                               /\ Opener(i) \in End
                               /\ <<"q", i>> \in Way /\ <<"r", i>> \in Way
         /\ \A i, j \in Stream : Scenario[i].stream_id = Scenario[j].stream_id => i = j
         /\ \A i \in Stream : \/ Scenario[i].previous_stream_id = 0
                               \/ \E j \in 1 .. i - 1 : Scenario[j].stream_id = Scenario[i].previous_stream_id
         /\ StopFirst => 1 \in Stream /\ Scenario[1].r_len # 0
<1>1. Scenario \in Seq(Desc) /\ Stream = 1 .. Len(Scenario)
  BY TableAssumption DEF Stream
<1>2. \A i \in Stream : Scenario[i] \in Desc
  BY <1>1
<1>3. \A i \in Stream : Opener(i) \in End /\ <<"q", i>> \in Way /\ <<"r", i>> \in Way
  BY DEF Opener, End, Way
<1>4. \A i, j \in Stream : Scenario[i].stream_id = Scenario[j].stream_id => i = j
  BY TableAssumption DEF Stream
<1>5. \A i \in Stream : \/ Scenario[i].previous_stream_id = 0
                        \/ \E j \in 1 .. i - 1 : Scenario[j].stream_id = Scenario[i].previous_stream_id
  BY TableAssumption DEF Stream
<1>6. ASSUME StopFirst PROVE 1 \in Stream /\ Scenario[1].r_len # 0
  <2>1. Scenario # <<>> /\ Scenario[1].r_len # 0
    BY <1>6, TableAssumption DEF StopFirst
  <2>2. Len(Scenario) # 0
    BY <1>1, <2>1
  <2> QED
    BY <1>1, <2>1, <2>2
<1> QED
  BY <1>1, <1>2, <1>3, <1>4, <1>5, <1>6

LEMMA WayFacts ==
  ASSUME Scenario \in Scenarios, NEW w \in Way
  PROVE  /\ w[2] \in Stream
         /\ w = <<"q", w[2]>> \/ w = <<"r", w[2]>>
         /\ Length(w) \in Nat /\ (w[1] = "q" => Length(w) # 0)
         /\ Sender(w) \in End
         /\ Sender(<<"r", w[2]>>) = Other(Sender(<<"q", w[2]>>))
         /\ Other(Sender(w)) \in End /\ Other(Other(Sender(w))) = Sender(w)
<1>1. w[2] \in Stream /\ (w = <<"q", w[2]>> \/ w = <<"r", w[2]>>)
  BY DEF Way
<1>2. Scenario[w[2]] \in Desc /\ Opener(w[2]) \in End
  BY <1>1, TableFacts
<1>3. Length(w) \in Nat /\ (w[1] = "q" => Length(w) # 0)
  BY <1>1, <1>2 DEF Length, Desc
<1>4. Sender(w) \in End /\ Sender(<<"r", w[2]>>) = Other(Sender(<<"q", w[2]>>))
  BY <1>1, <1>2 DEF Sender, Other, End
<1>5. Other(Sender(w)) \in End /\ Other(Other(Sender(w))) = Sender(w)
  BY <1>4 DEF Other, End
<1> QED
  BY <1>1, <1>3, <1>4, <1>5

LEMMA UnitFacts ==
  ASSUME NEW w \in Way, NEW n \in Nat
  PROVE  /\ Data(w, n) \in Unit /\ Data(w, n).way = w /\ Data(w, n).kind = "data" /\ Data(w, n).n = n
         /\ Reset(w) \in Unit /\ Reset(w).way = w /\ Reset(w).kind = "reset"
         /\ Stop(w) \in Unit /\ Stop(w).way = w /\ Stop(w).kind = "stop"
BY DEF Data, Reset, Stop, Unit

LEMMA AllDataFacts ==
  ASSUME NEW w \in Way
  PROVE  \A u \in AllData(w) : u \in Unit /\ u.way = w /\ u.kind = "data"
BY UnitFacts DEF AllData, Data, Unit

\* The table of a test does not change.
LEMMA SameTable ==
  ASSUME Scenario' = Scenario
  PROVE  /\ Stream' = Stream /\ Way' = Way /\ Unit' = Unit /\ Packet' = Packet
         /\ StopFirst' = StopFirst /\ Chained' = Chained
         /\ \A i : Opener(i)' = Opener(i)
         /\ \A w : Sender(w)' = Sender(w) /\ Length(w)' = Length(w) /\ AllData(w)' = AllData(w)
BY DEF Stream, Way, Unit, Packet, StopFirst, Chained, Opener, Sender, Length, AllData

-----------------------------------------------------------------------------
(***************************************************************************)
(* The inductive invariant.                                                *)
(***************************************************************************)

\* What endpoints have been given to send: the query of an opened stream, the
\* response to a query that has ended, and, in stop_sending_test, what stops it.
QueueInv ==
  \A e \in End : \A u \in queue[e] :
    /\ u.way[1] = "q" => u.kind = "data" /\ q_sent[u.way[2]]
    /\ u.way[1] = "r" => received[<<"q", u.way[2]>>] # "no"
    /\ u.kind # "data" => StopFirst

\* Nothing is transmitted that was not sent, nor acknowledged that was not received.
TransportInv ==
  \A e \in End :
    /\ sent[e] \subseteq queue[e]
    /\ got[e] \subseteq sent[Other(e)]
    /\ acked[e] \subseteq got[Other(e)]
    /\ \A k \in DOMAIN link[e] : link[e][k].unit \in sent[e] \cup {None} /\ link[e][k].acks \subseteq got[e]

\* The table of streams: the response ends after the query, all data before FIN.
ReceiptInv ==
  /\ \A w \in Way : /\ received[w] = "reset" => w[1] = "r" /\ StopFirst
                    /\ Length(w) # 0 => (received[w] = "fin" <=> recv_nb[w] = Length(w))
  /\ \A i \in Stream :
       /\ received[<<"r", i>>] # "no" \/ recv_nb[<<"r", i>>] # 0 => received[<<"q", i>>] # "no"
       /\ received[<<"q", i>>] # "no" => q_sent[i]
       /\ received[<<"q", i>>] # "no" /\ Scenario[i].r_len = 0 => received[<<"r", i>>] # "no"

\* Streams are opened by the end of the one before them, and by nothing else.
OpenedInv ==
  /\ \A i \in Stream : Scenario[i].previous_stream_id = 0 => q_sent[i]
  /\ \A i, j \in Stream :
       Scenario[i].previous_stream_id = Scenario[j].stream_id => (q_sent[i] <=> Over(j))

TableInv == QueueInv /\ TransportInv /\ ReceiptInv /\ OpenedInv /\ NothingRefused

\* What a stream is waited for has been given to the engine.
GivenInv ==
  \A i \in Stream :
    /\ q_sent[i] => AllData(<<"q", i>>) \subseteq queue[Opener(i)]
    /\ received[<<"q", i>>] # "no" =>
         \/ AllData(<<"r", i>>) \subseteq queue[Other(Opener(i))]
         \/ Reset(<<"r", i>>) \in queue[Other(Opener(i))]

\* Outside of the callbacks nothing received is left to be delivered.
Settled(w) ==
  recv_nb[w] < Length(w) /\ received[w] # "reset" =>
    Data(w, recv_nb[w] + 1) \notin got[Other(Sender(w))] /\ Reset(w) \notin got[Other(Sender(w))]
SettledInv == \A w \in Way : (pc = "callback" /\ Sender(w) = Other(at)) \/ Settled(w)

BreakInv == broke => pc = "end" /\ Breaks

ChainInv ==
  Chained =>
    /\ \A i \in Stream : q_sent[i] => \A k \in 1 .. i - 1 : Over(k)
    /\ test_finished => \A i \in Stream : Over(i)

-----------------------------------------------------------------------------
(***************************************************************************)
(* What a call of the callback does when it finds no error.                *)
(***************************************************************************)

\* What the engine hands to it: data in order, or the reset of a response.
Delivers(w, n, event) ==
  /\ pc = "callback" /\ Sender(w) = Other(at)
  /\ received[w] = "no" /\ recv_nb[w] < Length(w)
  /\ IF w[1] = "q" THEN q_sent[w[2]] ELSE received[<<"q", w[2]>>] # "no"
  /\ \/ n = recv_nb[w] + 1 /\ event = (IF n = Length(w) THEN "fin" ELSE "no")
     \/ n = 0 /\ event = "reset" /\ w[1] = "r" /\ StopFirst

Follow(w) == Followers(Scenario[w[2]].stream_id)

NoEnd == UNCHANGED <<received, q_sent, queue, test_finished>>

QueryEnds(w) ==
  /\ received' = [received EXCEPT ![w] = "fin"]
  /\ queue' = [queue EXCEPT ![at] = @ \cup AllData(<<"r", w[2]>>)]
  /\ UNCHANGED <<q_sent, test_finished>>

StreamIsOver(w, event) ==
  /\ received' = [v \in Way |-> IF v = w THEN event
                               ELSE IF w[1] = "q" /\ v = <<"r", w[2]>> THEN "fin" ELSE received[v]]
  /\ q_sent' = [j \in Stream |-> q_sent[j] \/ j \in Follow(w)]
  /\ queue' = WithQueries(queue, Follow(w))
  /\ test_finished' = (Follow(w) = {})

Effect(w, event) ==
  /\ UNCHANGED <<Scenario, pc, at, broke, stop_asked, error_detected, sent, acked, got, ackdue,
                 stop_seen, link, losses, repeats>>
  /\ recv_nb' = [recv_nb EXCEPT ![w] = IF event = "reset" THEN @ ELSE @ + 1]
  /\ \/ event = "no" /\ NoEnd
     \/ event = "fin" /\ w[1] = "q" /\ Scenario[w[2]].r_len # 0 /\ QueryEnds(w)
     \/ event # "no" /\ (w[1] = "r" \/ Scenario[w[2]].r_len = 0) /\ StreamIsOver(w, event)

LEMMA EngineDelivers ==
  ASSUME TypeOK, TableInv, NEW w \in Way, DataEvent(w) \/ ResetEvent(w)
  PROVE  \E n \in Nat, event \in {"no", "fin", "reset"} : Delivers(w, n, event) /\ Event(w, n, event)
<1> DEFINE n == IF DataEvent(w) THEN recv_nb[w] + 1 ELSE 0
           event == IF ~DataEvent(w) THEN "reset" ELSE IF n = Length(w) THEN "fin" ELSE "no"
           u == IF DataEvent(w) THEN Data(w, n) ELSE Reset(w)
<1>1. recv_nb[w] \in Nat /\ at \in End /\ Scenario \in Scenarios
  BY DEF TypeOK
<1>2. n \in Nat /\ event \in {"no", "fin", "reset"}
  BY <1>1
<1>3. /\ pc = "callback" /\ Sender(w) = Other(at) /\ received[w] # "reset"
      /\ recv_nb[w] < Length(w) /\ u \in got[at] /\ Event(w, n, event)
  BY DEF DataEvent, ResetEvent, Delivered, ResetArrived, Open
<1>4. received[w] = "no"
  <2>1. received[w] \in {"no", "fin", "reset"}
    BY DEF TypeOK
  <2>2. Length(w) \in Nat
    BY <1>1, WayFacts
  <2>3. Length(w) # 0 /\ recv_nb[w] # Length(w)
    BY <1>1, <1>3, <2>2
  <2> QED
    BY <1>3, <2>1, <2>3 DEF TableInv, ReceiptInv
<1>5. u.way = w /\ (u.kind = IF DataEvent(w) THEN "data" ELSE "reset")
  BY <1>2, UnitFacts
<1>6. u \in queue[Other(at)] /\ Other(at) \in End
  BY <1>1, <1>3 DEF TableInv, TransportInv, Other, End
<1>7. /\ u.way[1] = "q" => u.kind = "data" /\ q_sent[u.way[2]]
      /\ u.way[1] = "r" => received[<<"q", u.way[2]>>] # "no"
      /\ u.kind # "data" => StopFirst
  BY <1>6 DEF TableInv, QueueInv
<1>8. w[1] \in {"q", "r"}
  BY DEF Way
<1>9. Delivers(w, n, event)
  <2>1. IF w[1] = "q" THEN q_sent[w[2]] ELSE received[<<"q", w[2]>>] # "no"
    BY <1>5, <1>7, <1>8
  <2>2. ~DataEvent(w) => w[1] = "r" /\ StopFirst
    BY <1>5, <1>7, <1>8
  <2> QED
    BY <1>3, <1>4, <2>1, <2>2 DEF Delivers
<1> QED
  BY <1>2, <1>3, <1>9

\* A stream whose query has not been sent has nothing that could refuse it.
LEMMA QueuedAll ==
  ASSUME Scenario \in Scenarios, QueueInv, NEW s, \A j \in Followers(s) : ~q_sent[j]
  PROVE  Queued(s, queue) = Followers(s)
<1>1. ASSUME NEW j \in Followers(s) PROVE ~Refused(queue[Opener(j)], <<"q", j>>)
  <2>1. j \in Stream
    BY DEF Followers
  <2>2. Opener(j) \in End /\ <<"q", j>> \in Way
    BY <2>1, TableFacts
  <2>3. \A u \in queue[Opener(j)] : u.way = <<"q", j>> => FALSE
    BY <1>1, <2>2 DEF QueueInv
  <2> QED
    BY <2>2, <2>3, AllDataFacts, UnitFacts DEF Refused
<1> QED
  BY <1>1 DEF Queued

LEMMA ResponseAccepted ==
  ASSUME Scenario \in Scenarios, QueueInv, NEW i \in Stream, NEW e \in End, received[<<"q", i>>] = "no"
  PROVE  ~Refused(queue[e], <<"r", i>>)
<1>1. <<"r", i>> \in Way
  BY TableFacts
<1>2. \A u \in queue[e] : u.way = <<"r", i>> => FALSE
  BY DEF QueueInv
<1> QED
  BY <1>1, <1>2, AllDataFacts, UnitFacts DEF Refused

\* Nobody follows a stream that is not over.
LEMMA NotYetFollowed ==
  ASSUME Scenario \in Scenarios, OpenedInv, NEW w \in Way, received[w] = "no"
  PROVE  \A j \in Follow(w) : ~q_sent[j]
<1>1. w[2] \in Stream /\ (w = <<"q", w[2]>> \/ w = <<"r", w[2]>>)
  BY WayFacts
<1>2. ~Over(w[2])
  BY <1>1 DEF Over
<1> QED
  BY <1>1, <1>2 DEF OpenedInv, Follow, Followers

LEMMA CallbackEffect ==
  ASSUME TypeOK, TableInv, NEW w \in Way, NEW n \in Nat, NEW event \in {"no", "fin", "reset"},
         Delivers(w, n, event), Event(w, n, event)
  PROVE  Effect(w, event)
<1> DEFINE i == w[2]
           errors == error_detected[at] \cup ReceiveErrors(w, n, event)
           responds == event # "no" /\ w[1] = "q" /\ ~EndsHere(w, event) /\ errors = {}
           follows == StreamFinished(w, event) /\ errors = {}
           opened == IF follows THEN Queued(Scenario[i].stream_id, queue) ELSE {}
           over == event # "no" /\ (w[1] = "r" \/ Scenario[i].r_len = 0)
<1>1. /\ Scenario \in Scenarios /\ at \in End /\ recv_nb[w] \in Nat
      /\ received \in [Way -> {"no", "fin", "reset"}] /\ q_sent \in [Stream -> BOOLEAN]
      /\ recv_nb \in [Way -> Nat] /\ error_detected \in [End -> SUBSET Fail]
      /\ queue \in [End -> SUBSET Unit]
  BY DEF TypeOK
<1>2. /\ i \in Stream /\ w[1] \in {"q", "r"} /\ <<"r", i>> \in Way
      /\ (w[1] = "q" => w = <<"q", i>>) /\ (w[1] = "r" => w = <<"r", i>>)
  BY <1>1, WayFacts, TableFacts DEF Way
<1>3. errors = {}
  <2>1. error_detected[at] = {}
    BY <1>1 DEF TableInv, NothingRefused
  <2>2. Length(w) \in Nat
    BY <1>1, WayFacts
  <2>3. ReceiveErrors(w, n, event) = {}
    BY <1>1, <2>2 DEF ReceiveErrors, Delivers
  <2> QED
    BY <2>1, <2>3
<1>4. EndsHere(w, event) <=> w[1] = "q" /\ Scenario[i].r_len = 0
  BY <1>2 DEF EndsHere, Delivers
<1>5. follows <=> over
  BY <1>2, <1>3, <1>4 DEF StreamFinished
<1>6. opened = IF over THEN Follow(w) ELSE {}
  <2>1. \A j \in Follow(w) : ~q_sent[j]
    BY <1>1, NotYetFollowed DEF TableInv, Delivers
  <2> QED
    BY <1>1, <1>5, <2>1, QueuedAll DEF TableInv, Follow
<1>7. responds <=> event # "no" /\ w[1] = "q" /\ Scenario[i].r_len # 0
  BY <1>3, <1>4
<1>8. responds => ~Refused(queue[at], <<"r", i>>)
  <2>1. w[1] = "q" => received[<<"q", i>>] = "no"
    BY <1>2 DEF Delivers
  <2> QED
    BY <1>1, <1>2, <1>7, <2>1, ResponseAccepted DEF TableInv
<1>9. /\ UNCHANGED <<Scenario, pc, at, broke, stop_asked, sent, acked, got, ackdue, stop_seen, link,
                     losses, repeats>>
      /\ recv_nb' = [recv_nb EXCEPT ![w] = Counts(w, n)]
      /\ received' = [v \in Way |-> IF event # "no" /\ v = <<"r", i>> /\ EndsHere(w, event) THEN "fin"
                                   ELSE IF event # "no" /\ v = w THEN event
                                   ELSE received[v]]
      /\ q_sent' = [j \in Stream |-> q_sent[j] \/ j \in opened]
      /\ test_finished' = IF follows THEN Finished(opened) ELSE test_finished
      /\ error_detected' =
           [error_detected EXCEPT ![at] = errors
              \cup (IF responds /\ Refused(queue[at], <<"r", i>>) THEN {"cannot_send_response"} ELSE {})
              \cup (IF follows /\ opened # Followers(Scenario[i].stream_id)
                      THEN {"cannot_send_query"} ELSE {})]
      /\ queue' = IF responds /\ ~Refused(queue[at], <<"r", i>>)
                    THEN [queue EXCEPT ![at] = @ \cup AllData(<<"r", i>>)]
                    ELSE WithQueries(queue, opened)
  BY DEF Event
<1>10. error_detected' = error_detected
  <2>1. opened # Followers(Scenario[i].stream_id) => ~follows
    BY <1>5, <1>6 DEF Follow
  <2>2. error_detected' = [error_detected EXCEPT ![at] = {}]
    BY <1>3, <1>8, <1>9, <2>1
  <2>3. error_detected[at] = {}
    BY <1>1 DEF TableInv, NothingRefused
  <2> QED
    BY <1>1, <2>2, <2>3
<1>11. recv_nb' = [recv_nb EXCEPT ![w] = IF event = "reset" THEN @ ELSE @ + 1]
  <2>1. n = 0 <=> event = "reset"
    BY <1>1 DEF Delivers
  <2> QED
    BY <1>9, <2>1 DEF Counts
<1> HIDE DEF errors, responds, follows, opened
<1>12. CASE event = "no"
  <2>1. ~over /\ ~follows /\ opened = {} /\ ~responds
    BY <1>5, <1>6, <1>7, <1>12
  <2>2. received' = received /\ q_sent' = q_sent /\ test_finished' = test_finished
    BY <1>1, <1>9, <1>12, <2>1
  <2>3. queue' = WithQueries(queue, {})
    BY <1>9, <2>1
  <2>4. queue' = queue
    BY <1>1, <2>3 DEF WithQueries
  <2> QED
    BY <1>9, <1>10, <1>11, <1>12, <2>2, <2>4 DEF Effect, NoEnd
<1>13. CASE event # "no" /\ w[1] = "q" /\ Scenario[i].r_len # 0
  <2>1. ~over /\ ~follows /\ opened = {} /\ responds /\ ~EndsHere(w, event)
    BY <1>4, <1>5, <1>6, <1>7, <1>13
  <2>2. event = "fin"
    BY <1>13 DEF Delivers
  <2>3. received' = [received EXCEPT ![w] = "fin"]
    BY <1>1, <1>9, <2>1, <2>2
  <2>4. q_sent' = q_sent /\ test_finished' = test_finished
    BY <1>1, <1>9, <2>1
  <2>5. queue' = [queue EXCEPT ![at] = @ \cup AllData(<<"r", i>>)]
    BY <1>8, <1>9, <2>1
  <2> QED
    BY <1>9, <1>10, <1>11, <1>13, <2>2, <2>3, <2>4, <2>5 DEF Effect, QueryEnds
<1>14. CASE over
  <2>1. follows /\ opened = Follow(w) /\ ~responds
    BY <1>2, <1>5, <1>6, <1>7, <1>14
  <2>2. received' = [v \in Way |-> IF v = w THEN event
                                 ELSE IF w[1] = "q" /\ v = <<"r", i>> THEN "fin" ELSE received[v]]
    <3>1. EndsHere(w, event) <=> w[1] = "q"
      BY <1>2, <1>4, <1>14
    <3>2. w[1] = "q" => w # <<"r", i>>
      BY <1>2
    <3> QED
      BY <1>9, <1>14, <3>1, <3>2
  <2>3. q_sent' = [j \in Stream |-> q_sent[j] \/ j \in Follow(w)]
    BY <1>9, <2>1
  <2>4. queue' = WithQueries(queue, Follow(w)) /\ test_finished' = (Follow(w) = {})
    BY <1>9, <2>1 DEF Finished
  <2> QED
    BY <1>9, <1>10, <1>11, <1>14, <2>2, <2>3, <2>4 DEF Effect, StreamIsOver
<1> QED
  BY <1>2, <1>12, <1>13, <1>14

-----------------------------------------------------------------------------
(***************************************************************************)
(* The steps.                                                              *)
(***************************************************************************)

\* A step of the loops alone.
Control ==
  /\ UNCHANGED <<at, stop_asked, test, engine, link, losses, repeats>>
  /\ pc' \in {"round", "callback", "check", "end"} /\ broke' \in BOOLEAN
  /\ pc' = "callback" => pc = "callback"
  /\ pc = "callback" /\ pc' # "callback" => \A w \in Way : ~Delivered(w) /\ ~ResetArrived(w)
  /\ broke' => (pc' = "end" /\ Breaks) \/ (broke /\ (pc = "end" => pc' = "end"))

Submits(e, unit) ==
  /\ unit \in Unit \cup {None} /\ unit \in queue[e] \cup {None}
  /\ repeats' \in Nat
  /\ Submit(e, unit)

Deliver(w, event) == (\E n \in Nat : Delivers(w, n, event)) /\ Effect(w, event)

LEMMA PrepareSubmits ==
  ASSUME TypeOK, TableInv, NEW e \in End, Prepare(e)
  PROVE  \E unit : Submits(e, unit)
<1>1. repeats \in Nat /\ queue[e] \subseteq Unit /\ sent[e] \subseteq queue[e]
  BY DEF TypeOK, TableInv, TransportInv
<1>2. Unsent(e) \subseteq queue[e] /\ Flight(e) \subseteq queue[e]
  BY <1>1 DEF Unsent, Flight
<1>3. CASE PrepareNew(e)
  BY <1>1, <1>2, <1>3 DEF PrepareNew, Submits
<1>4. CASE PrepareLost(e)
  BY <1>1, <1>2, <1>4 DEF PrepareLost, Submits
<1>5. CASE PrepareAgain(e)
  <2>1. PICK unit \in Flight(e) : Submit(e, unit)
    BY <1>5 DEF PrepareAgain
  <2>2. repeats' \in Nat
    BY <1>1, <1>5 DEF PrepareAgain
  <2> QED
    BY <1>1, <1>2, <2>1, <2>2 DEF Submits
<1>6. CASE PrepareAck(e)
  BY <1>1, <1>6 DEF PrepareAck, Submits
<1> QED
  BY <1>3, <1>4, <1>5, <1>6 DEF Prepare

LEMMA StepCases ==
  ASSUME TypeOK, TableInv, [Next]_vars
  PROVE  \/ \E e \in End : \E unit : Submits(e, unit)
         \/ \E e \in End : Incoming(e)
         \/ \E w \in Way, event \in {"no", "fin", "reset"} : Deliver(w, event)
         \/ \E w \in Way : StopEvent(w)
         \/ StopSending
         \/ Control
<1>1. ASSUME NEW w \in Way, DataEvent(w) \/ ResetEvent(w)
      PROVE  \E event \in {"no", "fin", "reset"} : Deliver(w, event)
  <2>1. PICK n \in Nat, event \in {"no", "fin", "reset"} : Delivers(w, n, event) /\ Event(w, n, event)
    BY <1>1, EngineDelivers
  <2>2. Effect(w, event)
    BY <2>1, CallbackEffect
  <2> QED
    BY <2>1, <2>2 DEF Deliver
<1>2. ASSUME CallbacksDone \/ Check \/ LoopAgain \/ Idle \/ Limit \/ UNCHANGED vars PROVE Control
  <2>1. pc \in {"round", "callback", "check", "end"} /\ broke \in BOOLEAN
    BY DEF TypeOK
  <2>2. Breaks \in BOOLEAN
    BY DEF Breaks, BacklogEmpty, TypeOK
  <2>3. CASE CallbacksDone
    BY <2>1, <2>3 DEF CallbacksDone, Control
  <2>4. CASE Check
    BY <2>1, <2>2, <2>4 DEF Check, Control
  <2>5. CASE LoopAgain
    BY <2>1, <2>5 DEF LoopAgain, Control
  <2>6. CASE Idle \/ Limit
    BY <2>1, <2>6 DEF Idle, Limit, Control
  <2>7. CASE UNCHANGED vars
    BY <2>1, <2>7 DEF vars, Control
  <2> QED
    BY <1>2, <2>3, <2>4, <2>5, <2>6, <2>7
<1> QED
  BY <1>1, <1>2, PrepareSubmits DEF Next, Callback, Loop, Ended

LEMMA ControlStep ==
  ASSUME TypeOK, TableInv, Control
  PROVE  TypeOK' /\ TableInv'
<1>1. /\ UNCHANGED <<at, stop_asked, losses, repeats, link, Scenario, q_sent, received, recv_nb>>
      /\ UNCHANGED <<test_finished, error_detected, queue, sent, acked, got, ackdue, stop_seen>>
      /\ pc' \in {"round", "callback", "check", "end"} /\ broke' \in BOOLEAN
  BY DEF Control, test, engine
<1>2. TypeOK'
  BY <1>1, SameTable DEF TypeOK
<1>3. QueueInv' /\ TransportInv'
  BY <1>1, SameTable DEF TableInv, QueueInv, TransportInv
<1>4. ReceiptInv'
  BY <1>1, SameTable DEF TableInv, ReceiptInv
<1>5. OpenedInv' /\ NothingRefused'
  BY <1>1, SameTable DEF TableInv, OpenedInv, NothingRefused, Over
<1> QED
  BY <1>2, <1>3, <1>4, <1>5 DEF TableInv

LEMMA SubmitStep ==
  ASSUME TypeOK, TableInv, NEW e \in End, NEW unit, Submits(e, unit)
  PROVE  TypeOK' /\ TableInv'
<1>1. /\ UNCHANGED <<at, broke, stop_asked, Scenario, q_sent, received, recv_nb, test_finished>>
      /\ UNCHANGED <<error_detected, queue, acked, got, stop_seen>>
      /\ pc' = "check" /\ repeats' \in Nat
      /\ unit \in Unit \cup {None} /\ unit \in queue[e] \cup {None}
      /\ ackdue' = [ackdue EXCEPT ![e] = FALSE]
      /\ sent' = [sent EXCEPT ![e] = @ \cup ({unit} \ {None})]
      /\ \/ link' = [link EXCEPT ![e] = Append(@, [unit |-> unit, acks |-> got[e]])] /\ losses' = losses
         \/ link' = link /\ losses' = losses + 1
  BY DEF Submits, Submit, test
<1>2. /\ sent \in [End -> SUBSET Unit] /\ got \in [End -> SUBSET Unit]
      /\ link \in [End -> Seq(Packet)] /\ losses \in Nat /\ ackdue \in [End -> BOOLEAN]
  BY DEF TypeOK
<1>3. [unit |-> unit, acks |-> got[e]] \in Packet
  BY <1>1, <1>2 DEF Packet
<1>4. link' \in [End -> Seq(Packet)]
  <2> DEFINE p == [unit |-> unit, acks |-> got[e]]
  <2>1. p \in Packet /\ link[e] \in Seq(Packet)
    BY <1>2, <1>3
  <2>2. link' = [link EXCEPT ![e] = Append(link[e], p)] \/ link' = link
    BY <1>1
  <2> HIDE DEF p
  <2>3. Append(link[e], p) \in Seq(Packet)
    BY <2>1
  <2> QED
    BY <1>2, <2>2, <2>3
<1>5. TypeOK'
  <2>1. sent' \in [End -> SUBSET Unit] /\ losses' \in Nat /\ ackdue' \in [End -> BOOLEAN]
    BY <1>1, <1>2
  <2> QED
    BY <1>1, <1>4, <2>1, SameTable DEF TypeOK
<1>6. QueueInv'
  <2>1. UNCHANGED <<Scenario, queue, q_sent, received>>
    BY <1>1
  <2>2. StopFirst' = StopFirst
    BY <2>1, SameTable
  <2> QED
    BY <2>1, <2>2 DEF TableInv, QueueInv
<1>7. TransportInv'
  <2> SUFFICES ASSUME NEW f \in End
               PROVE  /\ sent'[f] \subseteq queue[f] /\ got[f] \subseteq sent'[Other(f)]
                      /\ acked[f] \subseteq got[Other(f)]
                      /\ \A k \in DOMAIN link'[f] :
                           link'[f][k].unit \in sent'[f] \cup {None} /\ link'[f][k].acks \subseteq got[f]
    BY <1>1 DEF TransportInv, Other
  <2>1. Other(f) \in End
    BY DEF Other, End
  <2>2. /\ sent[f] \subseteq queue[f] /\ got[f] \subseteq sent[Other(f)]
        /\ acked[f] \subseteq got[Other(f)]
        /\ \A k \in DOMAIN link[f] :
              link[f][k].unit \in sent[f] \cup {None} /\ link[f][k].acks \subseteq got[f]
    BY DEF TableInv, TransportInv
  <2>3. \A g \in End : sent[g] \subseteq sent'[g]
    BY <1>1, <1>2
  <2>4. sent'[f] \subseteq queue[f] /\ got[f] \subseteq sent'[Other(f)]
    BY <1>1, <1>2, <2>1, <2>2, <2>3
  <2>5. \A k \in DOMAIN link'[f] :
          link'[f][k].unit \in sent'[f] \cup {None} /\ link'[f][k].acks \subseteq got[f]
    <3>1. CASE link'[f] = link[f]
      BY <2>2, <2>3, <3>1
    <3>2. CASE f = e /\ link'[f] = Append(link[f], [unit |-> unit, acks |-> got[f]])
      <4>1. link[f] \in Seq(Packet)
        BY <1>2
      <4>2. unit \in sent'[f] \cup {None}
        BY <1>1, <1>2, <3>2
      <4> QED
        BY <1>3, <2>2, <2>3, <3>2, <4>1, <4>2
    <3> QED
      BY <1>1, <1>2, <3>1, <3>2
  <2> QED
    BY <2>2, <2>4, <2>5
<1>8. ReceiptInv'
  BY <1>1, SameTable DEF TableInv, ReceiptInv
<1>9. OpenedInv' /\ NothingRefused'
  BY <1>1, SameTable DEF TableInv, OpenedInv, NothingRefused, Over
<1> QED
  BY <1>5, <1>6, <1>7, <1>8, <1>9 DEF TableInv

LEMMA IncomingStep ==
  ASSUME TypeOK, TableInv, NEW e \in End, Incoming(e)
  PROVE  TypeOK' /\ TableInv'
<1> DEFINE p == Head(link[Other(e)])
<1>1. /\ UNCHANGED <<broke, stop_asked, Scenario, q_sent, received, recv_nb, test_finished>>
      /\ UNCHANGED <<error_detected, queue, sent, stop_seen, losses, repeats>>
      /\ pc' = "callback" /\ at' = e
      /\ link[Other(e)] # <<>>
      /\ link' = [link EXCEPT ![Other(e)] = Tail(@)]
      /\ got' = [got EXCEPT ![e] = @ \cup ({p.unit} \ {None})]
      /\ acked' = [acked EXCEPT ![e] = @ \cup p.acks]
      /\ ackdue' = [ackdue EXCEPT ![e] = @ \/ p.unit # None]
  BY DEF Incoming, test
<1>2. /\ sent \in [End -> SUBSET Unit] /\ got \in [End -> SUBSET Unit] /\ acked \in [End -> SUBSET Unit]
      /\ link \in [End -> Seq(Packet)] /\ ackdue \in [End -> BOOLEAN]
      /\ Other(e) \in End /\ Other(Other(e)) = e
  BY DEF TypeOK, Other, End
<1>3. p \in Packet /\ Tail(link[Other(e)]) \in Seq(Packet)
  <2>1. link[Other(e)] \in Seq(Packet) /\ link[Other(e)] # <<>>
    BY <1>1, <1>2
  <2> QED
    BY <2>1
<1>4. p.unit \in sent[Other(e)] \cup {None} /\ p.acks \subseteq got[Other(e)]
  <2>1. link[Other(e)] \in Seq(Packet) /\ link[Other(e)] # <<>>
    BY <1>1, <1>2
  <2>2. 1 \in DOMAIN link[Other(e)] /\ p = link[Other(e)][1]
    BY <2>1
  <2> QED
    BY <1>2, <2>2 DEF TableInv, TransportInv
<1>5. p.unit \in Unit \cup {None} /\ p.acks \subseteq Unit
  BY <1>3 DEF Packet
<1> HIDE DEF p
<1>6. TypeOK'
  <2>1. got' \in [End -> SUBSET Unit] /\ acked' \in [End -> SUBSET Unit] /\ ackdue' \in [End -> BOOLEAN]
    BY <1>1, <1>2, <1>5
  <2>2. link' \in [End -> Seq(Packet)]
    BY <1>1, <1>2, <1>3
  <2> QED
    BY <1>1, <2>1, <2>2, SameTable DEF TypeOK
<1>7. QueueInv'
  <2>1. UNCHANGED <<Scenario, queue, q_sent, received>>
    BY <1>1
  <2>2. StopFirst' = StopFirst
    BY <2>1, SameTable
  <2> QED
    BY <2>1, <2>2 DEF TableInv, QueueInv
<1>8. TransportInv'
  <2> SUFFICES ASSUME NEW f \in End
               PROVE  /\ sent[f] \subseteq queue[f] /\ got'[f] \subseteq sent[Other(f)]
                      /\ acked'[f] \subseteq got'[Other(f)]
                      /\ \A k \in DOMAIN link'[f] :
                           link'[f][k].unit \in sent[f] \cup {None} /\ link'[f][k].acks \subseteq got'[f]
    BY <1>1 DEF TransportInv, Other
  <2>1. Other(f) \in End /\ (f = e \/ (f = Other(e) /\ e = Other(f)))
    BY DEF Other, End
  <2>2. \A g \in End : /\ sent[g] \subseteq queue[g] /\ got[g] \subseteq sent[Other(g)]
                       /\ acked[g] \subseteq got[Other(g)]
                       /\ \A k \in DOMAIN link[g] :
                            link[g][k].unit \in sent[g] \cup {None} /\ link[g][k].acks \subseteq got[g]
    BY DEF TableInv, TransportInv
  <2>3. \A g \in End : got[g] \subseteq got'[g]
    BY <1>1, <1>2
  <2>4. got'[f] \subseteq sent[Other(f)]
    BY <1>1, <1>2, <1>4, <2>1, <2>2
  <2>5. acked'[f] \subseteq got'[Other(f)]
    <3>1. acked'[f] \subseteq acked[f] \cup (IF f = e THEN p.acks ELSE {})
      BY <1>1, <1>2
    <3> QED
      BY <1>4, <2>1, <2>2, <2>3, <3>1
  <2>6. \A k \in DOMAIN link'[f] :
          link'[f][k].unit \in sent[f] \cup {None} /\ link'[f][k].acks \subseteq got'[f]
    <3>1. CASE link'[f] = link[f]
      BY <2>2, <2>3, <3>1
    <3>2. CASE link'[f] = Tail(link[f]) /\ link[f] # <<>>
      <4>1. link[f] \in Seq(Packet)
        BY <1>2
      <4>2. \A k \in DOMAIN link'[f] : k + 1 \in DOMAIN link[f] /\ link'[f][k] = link[f][k + 1]
        BY <3>2, <4>1
      <4> QED
        BY <2>2, <2>3, <4>2
    <3> QED
      BY <1>1, <1>2, <2>1, <3>1, <3>2
  <2> QED
    BY <2>2, <2>4, <2>5, <2>6
<1>9. ReceiptInv'
  BY <1>1, SameTable DEF TableInv, ReceiptInv
<1>10. OpenedInv' /\ NothingRefused'
  BY <1>1, SameTable DEF TableInv, OpenedInv, NothingRefused, Over
<1> QED
  BY <1>6, <1>7, <1>8, <1>9, <1>10 DEF TableInv

\* What is added to queues without a change of the table.
LEMMA QueueStep ==
  ASSUME TypeOK, TableInv,
         UNCHANGED <<test, sent, acked, got, ackdue, link, losses, repeats, at>>,
         pc' \in {"round", "callback"}, broke' \in BOOLEAN, stop_asked' \in BOOLEAN,
         stop_seen' \in SUBSET Way,
         NEW e \in End, NEW S, queue' = [queue EXCEPT ![e] = S],
         NEW u \in Unit, u.kind # "data", StopFirst, u.way[1] = "r", received[<<"q", u.way[2]>>] # "no",
         S \subseteq queue[e] \cup {u}, sent[e] \subseteq S
  PROVE  TypeOK' /\ TableInv'
<1>1. /\ UNCHANGED <<Scenario, q_sent, received, recv_nb, test_finished, error_detected>>
      /\ queue \in [End -> SUBSET Unit]
  BY DEF test, TypeOK
<1>2. TypeOK'
  <2>1. queue' \in [End -> SUBSET Unit]
    BY <1>1
  <2> QED
    BY <1>1, <2>1, SameTable DEF TypeOK
<1>3. QueueInv'
  <2>1. StopFirst' = StopFirst
    BY <1>1, SameTable
  <2> SUFFICES ASSUME NEW f \in End, NEW v \in queue'[f]
               PROVE  /\ v.way[1] = "q" => v.kind = "data" /\ q_sent[v.way[2]]
                      /\ v.way[1] = "r" => received[<<"q", v.way[2]>>] # "no"
                      /\ v.kind # "data" => StopFirst
    BY <1>1, <2>1 DEF QueueInv
  <2>2. v \in queue[f] \/ v = u
    BY <1>1
  <2>3. CASE v \in queue[f]
    BY <2>3 DEF TableInv, QueueInv
  <2>4. CASE v = u
    BY <2>4
  <2> QED
    BY <2>2, <2>3, <2>4
<1>4. TransportInv'
  <2>1. \A f \in End : sent[f] \subseteq queue'[f]
    BY <1>1 DEF TableInv, TransportInv
  <2> QED
    BY <2>1 DEF TableInv, TransportInv, Other
<1>5. ReceiptInv'
  BY <1>1, SameTable DEF TableInv, ReceiptInv
<1>6. OpenedInv' /\ NothingRefused'
  BY <1>1, SameTable DEF TableInv, OpenedInv, NothingRefused, Over
<1> QED
  BY <1>2, <1>3, <1>4, <1>5, <1>6 DEF TableInv

LEMMA StopStep ==
  ASSUME TypeOK, TableInv, NEW w \in Way, StopEvent(w)
  PROVE  TypeOK' /\ TableInv'
<1> DEFINE S == AfterResetStream(queue[at], at, w)
<1>1. /\ UNCHANGED <<pc, at, broke, stop_asked, test, sent, acked, got, ackdue, link, losses, repeats>>
      /\ stop_seen' = stop_seen \cup {w}
      /\ queue' = [queue EXCEPT ![at] = S]
      /\ pc = "callback" /\ Stop(w) \in got[at]
  BY DEF StopEvent, StopArrived
<1>2. at \in End /\ stop_seen \in SUBSET Way /\ broke \in BOOLEAN /\ stop_asked \in BOOLEAN
  BY DEF TypeOK
<1>3. Stop(w) \in queue[Other(at)] /\ Other(at) \in End
  BY <1>1, <1>2 DEF TableInv, TransportInv, Other, End
<1>4. w[1] = "r" /\ received[<<"q", w[2]>>] # "no" /\ StopFirst
  <2>1. Stop(w).way = w /\ Stop(w).kind = "stop"
    BY UnitFacts
  <2>2. w[1] \in {"q", "r"}
    BY DEF Way
  <2> QED
    BY <1>3, <2>1, <2>2 DEF TableInv, QueueInv
<1>5. S \subseteq queue[at] \cup {Reset(w)} /\ sent[at] \subseteq S
  <2>1. sent[at] \subseteq queue[at]
    BY <1>2 DEF TableInv, TransportInv
  <2> QED
    BY <2>1 DEF AfterResetStream
<1>6. /\ Reset(w) \in Unit /\ Reset(w).kind # "data"
      /\ Reset(w).way[1] = "r" /\ received[<<"q", Reset(w).way[2]>>] # "no"
  BY <1>4, UnitFacts
<1> HIDE DEF S
<1>7. pc' \in {"round", "callback"} /\ broke' \in BOOLEAN /\ stop_asked' \in BOOLEAN /\ stop_seen' \in SUBSET Way
  BY <1>1, <1>2
<1> QED
  BY <1>1, <1>2, <1>4, <1>5, <1>6, <1>7, QueueStep

LEMMA StopSendingStep ==
  ASSUME TypeOK, TableInv, StopSending
  PROVE  TypeOK' /\ TableInv'
<1> DEFINE S == queue[Opener(1)] \cup {Stop(<<"r", 1>>)}
<1>1. /\ UNCHANGED <<at, test, sent, acked, got, ackdue, stop_seen, link, losses, repeats>>
      /\ queue' = [queue EXCEPT ![Opener(1)] = S]
      /\ pc' = "round" /\ broke' = FALSE /\ stop_asked' = TRUE
      /\ StopFirst /\ recv_nb[<<"r", 1>>] # 0
  BY DEF StopSending
<1>2. Scenario \in Scenarios /\ stop_seen \in SUBSET Way
  BY DEF TypeOK
<1>3. 1 \in Stream /\ Opener(1) \in End /\ <<"r", 1>> \in Way
  BY <1>1, <1>2, TableFacts
<1>4. /\ Stop(<<"r", 1>>) \in Unit /\ Stop(<<"r", 1>>).kind # "data"
      /\ Stop(<<"r", 1>>).way = <<"r", 1>>
  BY <1>3, UnitFacts
<1>5. Stop(<<"r", 1>>).way[1] = "r" /\ received[<<"q", Stop(<<"r", 1>>).way[2]>>] # "no"
  <2>1. received[<<"q", 1>>] # "no"
    BY <1>1, <1>3 DEF TableInv, ReceiptInv
  <2> QED
    BY <1>4, <2>1
<1>6. S \subseteq queue[Opener(1)] \cup {Stop(<<"r", 1>>)} /\ sent[Opener(1)] \subseteq S
  BY <1>3 DEF TableInv, TransportInv
<1> HIDE DEF S
<1>7. pc' \in {"round", "callback"} /\ broke' \in BOOLEAN /\ stop_asked' \in BOOLEAN /\ stop_seen' \in SUBSET Way
  BY <1>1, <1>2
<1> QED
  BY <1>1, <1>3, <1>4, <1>5, <1>6, <1>7, QueueStep

\* The table after a callback.
IsOver(w, event) == event # "no" /\ (w[1] = "r" \/ Scenario[w[2]].r_len = 0)

LEMMA DeliverTable ==
  ASSUME TypeOK, TableInv, NEW w \in Way, NEW event \in {"no", "fin", "reset"}, Deliver(w, event)
  PROVE  /\ received' \in [Way -> {"no", "fin", "reset"}]
         /\ \A v \in Way : received'[v] =
              IF v = w THEN event
              ELSE IF IsOver(w, event) /\ w[1] = "q" /\ v = <<"r", w[2]>> THEN "fin" ELSE received[v]
         /\ recv_nb' \in [Way -> Nat]
         /\ \A v \in Way : recv_nb'[v] = IF v = w /\ event # "reset" THEN recv_nb[w] + 1 ELSE recv_nb[v]
         /\ q_sent' \in [Stream -> BOOLEAN]
         /\ \A j \in Stream : q_sent'[j] <=> q_sent[j] \/ (IsOver(w, event) /\ j \in Follow(w))
         /\ \A j \in Stream : Over(j)' <=> Over(j) \/ (IsOver(w, event) /\ j = w[2])
<1>1. /\ Scenario \in Scenarios /\ recv_nb \in [Way -> Nat]
      /\ received \in [Way -> {"no", "fin", "reset"}] /\ q_sent \in [Stream -> BOOLEAN]
  BY DEF TypeOK
<1>2. /\ w[2] \in Stream /\ w[1] \in {"q", "r"} /\ <<"r", w[2]>> \in Way
      /\ (w[1] = "q" => w = <<"q", w[2]>>) /\ (w[1] = "r" => w = <<"r", w[2]>>)
  BY <1>1, WayFacts, TableFacts DEF Way
<1>3. received[w] = "no" /\ (w[1] = "r" => received[<<"q", w[2]>>] # "no")
  <2>1. PICK n \in Nat : Delivers(w, n, event)
    BY DEF Deliver
  <2> QED
    BY <1>2, <2>1 DEF Delivers
<1>4. /\ Scenario' = Scenario
      /\ recv_nb' = [recv_nb EXCEPT ![w] = IF event = "reset" THEN @ ELSE @ + 1]
  BY DEF Deliver, Effect
<1>5. recv_nb' \in [Way -> Nat]
  BY <1>1, <1>4
<1>6. \A v \in Way : recv_nb'[v] = IF v = w /\ event # "reset" THEN recv_nb[w] + 1 ELSE recv_nb[v]
  BY <1>1, <1>4
<1>7. \/ event = "no" /\ NoEnd
      \/ event = "fin" /\ w[1] = "q" /\ Scenario[w[2]].r_len # 0 /\ QueryEnds(w)
      \/ IsOver(w, event) /\ StreamIsOver(w, event)
  BY DEF Deliver, Effect, IsOver
<1>8. /\ received' \in [Way -> {"no", "fin", "reset"}]
      /\ \A v \in Way : received'[v] =
              IF v = w THEN event
              ELSE IF IsOver(w, event) /\ w[1] = "q" /\ v = <<"r", w[2]>> THEN "fin" ELSE received[v]
  <2>1. CASE event = "no" /\ NoEnd
    BY <1>1, <1>3, <2>1 DEF NoEnd, IsOver
  <2>2. CASE event = "fin" /\ w[1] = "q" /\ Scenario[w[2]].r_len # 0 /\ QueryEnds(w)
    <3>1. ~IsOver(w, event) /\ received' = [received EXCEPT ![w] = event]
      BY <2>2 DEF QueryEnds, IsOver
    <3> QED
      BY <1>1, <3>1
  <2>3. CASE IsOver(w, event) /\ StreamIsOver(w, event)
    <3>1. received' = [v \in Way |-> IF v = w THEN event
                                   ELSE IF w[1] = "q" /\ v = <<"r", w[2]>> THEN "fin" ELSE received[v]]
      BY <2>3 DEF StreamIsOver
    <3> QED
      BY <1>1, <2>3, <3>1
  <2> QED
    BY <1>7, <2>1, <2>2, <2>3
<1>10. /\ q_sent' \in [Stream -> BOOLEAN]
       /\ \A j \in Stream : q_sent'[j] <=> q_sent[j] \/ (IsOver(w, event) /\ j \in Follow(w))
  <2>1. CASE ~IsOver(w, event) /\ q_sent' = q_sent
    BY <1>1, <2>1
  <2>2. CASE IsOver(w, event) /\ StreamIsOver(w, event)
    <3>1. q_sent' = [j \in Stream |-> q_sent[j] \/ j \in Follow(w)]
      BY <2>2 DEF StreamIsOver
    <3>2. q_sent' \in [Stream -> BOOLEAN]
      BY <1>1, <3>1, Zenon
    <3> QED
      BY <2>2, <3>1, <3>2
  <2> QED
    BY <1>7, <2>1, <2>2 DEF NoEnd, QueryEnds, IsOver
<1>9. ASSUME NEW j \in Stream PROVE Over(j)' <=> Over(j) \/ (IsOver(w, event) /\ j = w[2])
  <2>1. <<"q", j>> \in Way /\ <<"r", j>> \in Way
    BY <1>1, TableFacts
  <2>2. Over(j)' <=> received'[<<"q", j>>] # "no" /\ received'[<<"r", j>>] # "no"
    BY DEF Over
  <2>3. Over(j) <=> received[<<"q", j>>] # "no" /\ received[<<"r", j>>] # "no"
    BY DEF Over
  <2>4. CASE j # w[2]
    <3>1. /\ <<"q", j>> # w /\ <<"r", j>> # w
          /\ <<"q", j>> # <<"r", w[2]>> /\ <<"r", j>> # <<"r", w[2]>>
      BY <2>4
    <3>2. received'[<<"q", j>>] = received[<<"q", j>>] /\ received'[<<"r", j>>] = received[<<"r", j>>]
      BY <1>8, <2>1, <3>1
    <3> QED
      BY <2>2, <2>3, <2>4, <3>2
  <2>5. CASE j = w[2] /\ w[1] = "r"
    <3>1. w = <<"r", j>> /\ w # <<"q", j>>
      BY <1>2, <2>5
    <3>2. received'[<<"q", j>>] = received[<<"q", j>>] /\ received'[<<"r", j>>] = event
      BY <1>8, <2>1, <2>5, <3>1
    <3> QED
      BY <1>3, <2>2, <2>3, <2>5, <3>1, <3>2 DEF IsOver
  <2>6. CASE j = w[2] /\ w[1] = "q"
    <3>1. w = <<"q", j>> /\ w # <<"r", j>>
      BY <1>2, <2>6
    <3>2. /\ received'[<<"q", j>>] = event
          /\ received'[<<"r", j>>] = IF IsOver(w, event) THEN "fin" ELSE received[<<"r", j>>]
      BY <1>8, <2>1, <2>6, <3>1
    <3>3. received[<<"q", j>>] = "no" /\ received[<<"r", j>>] = "no"
      BY <1>3, <3>1 DEF TableInv, ReceiptInv
    <3> QED
      BY <2>2, <2>3, <2>6, <3>2, <3>3 DEF IsOver
  <2> QED
    BY <1>2, <2>4, <2>5, <2>6
<1> QED
  BY <1>5, <1>6, <1>8, <1>9, <1>10

\* The queues after it.
LEMMA DeliverQueue ==
  ASSUME TypeOK, TableInv, NEW w \in Way, NEW event \in {"no", "fin", "reset"}, Deliver(w, event)
  PROVE  /\ queue' \in [End -> SUBSET Unit]
         /\ \A e \in End : queue[e] \subseteq queue'[e]
         /\ \A e \in End : \A u \in queue'[e] :
              \/ u \in queue[e]
              \/ /\ u.kind = "data"
                 /\ \/ event = "fin" /\ w[1] = "q" /\ u.way = <<"r", w[2]>>
                    \/ IsOver(w, event) /\ \E j \in Follow(w) : u.way = <<"q", j>>
         /\ event # "no" /\ w[1] = "q" /\ Scenario[w[2]].r_len # 0 => AllData(<<"r", w[2]>>) \subseteq queue'[at]
         /\ IsOver(w, event) => \A j \in Follow(w) : AllData(<<"q", j>>) \subseteq queue'[Opener(j)]
<1>1. Scenario \in Scenarios /\ queue \in [End -> SUBSET Unit] /\ at \in End
  BY DEF TypeOK
<1>2. w[2] \in Stream /\ w[1] \in {"q", "r"} /\ <<"r", w[2]>> \in Way
  BY <1>1, WayFacts, TableFacts DEF Way
<1>3. \A u \in AllData(<<"r", w[2]>>) : u \in Unit /\ u.way = <<"r", w[2]>> /\ u.kind = "data"
  BY <1>2, AllDataFacts
<1>4. \A j \in Follow(w) : /\ Opener(j) \in End
                          /\ \A u \in AllData(<<"q", j>>) :
                               u \in Unit /\ u.way = <<"q", j>> /\ u.kind = "data"
  <2> TAKE j \in Follow(w)
  <2>1. j \in Stream
    BY DEF Follow, Followers
  <2>2. <<"q", j>> \in Way /\ Opener(j) \in End
    BY <1>1, <2>1, TableFacts
  <2> QED
    BY <2>2, AllDataFacts
<1>5. CASE event = "no" /\ NoEnd
  BY <1>1, <1>5 DEF NoEnd, IsOver
<1>6. CASE event = "fin" /\ w[1] = "q" /\ Scenario[w[2]].r_len # 0 /\ QueryEnds(w)
  <2>1. queue' = [queue EXCEPT ![at] = queue[at] \cup AllData(<<"r", w[2]>>)] /\ ~IsOver(w, event)
    BY <1>6 DEF QueryEnds, IsOver
  <2>2. queue' \in [End -> SUBSET Unit]
    BY <1>1, <1>3, <2>1
  <2>3. \A e \in End : queue'[e] = IF e = at THEN queue[at] \cup AllData(<<"r", w[2]>>) ELSE queue[e]
    BY <1>1, <2>1
  <2> QED
    BY <1>1, <1>3, <1>6, <2>1, <2>2, <2>3
<1>7. CASE IsOver(w, event) /\ StreamIsOver(w, event)
  <2> DEFINE New(e) == UNION {AllData(<<"q", i>>) : i \in {j \in Follow(w) : Opener(j) = e}}
  <2>1. queue' = [e \in End |-> queue[e] \cup New(e)]
    BY <1>7 DEF StreamIsOver, WithQueries
  <2>2. \A e \in End : \A u \in New(e) : u \in Unit /\ u.kind = "data" /\ \E j \in Follow(w) : u.way = <<"q", j>>
    BY <1>4
  <2>3. \A j \in Follow(w) : AllData(<<"q", j>>) \subseteq New(Opener(j))
    OBVIOUS
  <2> HIDE DEF New
  <2>4. queue' \in [End -> SUBSET Unit]
    BY <1>1, <2>1, <2>2
  <2>5. \A j \in Follow(w) : AllData(<<"q", j>>) \subseteq queue'[Opener(j)]
    BY <1>4, <2>1, <2>3
  <2>6. ~(event # "no" /\ w[1] = "q" /\ Scenario[w[2]].r_len # 0)
    BY <1>7 DEF IsOver
  <2>7. \A e \in End : queue'[e] = queue[e] \cup New(e)
    BY <2>1
  <2> QED
    BY <1>7, <2>2, <2>4, <2>5, <2>6, <2>7
<1>8. \/ event = "no" /\ NoEnd
      \/ event = "fin" /\ w[1] = "q" /\ Scenario[w[2]].r_len # 0 /\ QueryEnds(w)
      \/ IsOver(w, event) /\ StreamIsOver(w, event)
  BY DEF Deliver, Effect, IsOver
<1> QED
  BY <1>5, <1>6, <1>7, <1>8

LEMMA DeliverStep ==
  ASSUME TypeOK, TableInv, NEW w \in Way, NEW event \in {"no", "fin", "reset"}, Deliver(w, event)
  PROVE  TypeOK' /\ TableInv'
<1> DEFINE i == w[2]
<1>1. /\ UNCHANGED <<Scenario, pc, at, broke, stop_asked, error_detected, sent, acked, got, ackdue>>
      /\ UNCHANGED <<stop_seen, link, losses, repeats>>
  BY DEF Deliver, Effect
<1>2. /\ Scenario \in Scenarios /\ recv_nb \in [Way -> Nat] /\ q_sent \in [Stream -> BOOLEAN]
      /\ \A v \in Way : recv_nb[v] <= Length(v)
      /\ queue \in [End -> SUBSET Unit]
  BY DEF TypeOK
<1>3. PICK n \in Nat : Delivers(w, n, event)
  BY DEF Deliver
<1>4. /\ i \in Stream /\ w[1] \in {"q", "r"} /\ <<"q", i>> \in Way /\ <<"r", i>> \in Way
      /\ (w[1] = "q" => w = <<"q", i>>) /\ (w[1] = "r" => w = <<"r", i>>)
      /\ Length(w) \in Nat
  BY <1>2, WayFacts, TableFacts DEF Way
<1>5. /\ received[w] = "no" /\ recv_nb[w] < Length(w)
      /\ IF w[1] = "q" THEN q_sent[i] ELSE received[<<"q", i>>] # "no"
      /\ event = "no" => recv_nb[w] + 1 # Length(w)
      /\ event = "fin" => recv_nb[w] + 1 = Length(w)
      /\ event = "reset" => w[1] = "r" /\ StopFirst
  BY <1>3 DEF Delivers
<1>6. /\ received' \in [Way -> {"no", "fin", "reset"}]
      /\ \A v \in Way : received'[v] =
           IF v = w THEN event
           ELSE IF IsOver(w, event) /\ w[1] = "q" /\ v = <<"r", i>> THEN "fin" ELSE received[v]
      /\ recv_nb' \in [Way -> Nat]
      /\ \A v \in Way : recv_nb'[v] = IF v = w /\ event # "reset" THEN recv_nb[w] + 1 ELSE recv_nb[v]
      /\ q_sent' \in [Stream -> BOOLEAN]
      /\ \A j \in Stream : q_sent'[j] <=> q_sent[j] \/ (IsOver(w, event) /\ j \in Follow(w))
      /\ \A j \in Stream : Over(j)' <=> Over(j) \/ (IsOver(w, event) /\ j = i)
  BY DeliverTable
<1>7. \A v \in Way : received[v] # "no" => received'[v] # "no"
  BY <1>5, <1>6
<1>8. /\ Stream' = Stream /\ Way' = Way /\ Unit' = Unit /\ Packet' = Packet /\ StopFirst' = StopFirst
      /\ \A v : Length(v)' = Length(v)
  BY <1>1, SameTable
<1>9. TypeOK'
  <2>1. \A v \in Way : recv_nb'[v] <= Length(v)
    BY <1>2, <1>4, <1>5, <1>6
  <2>2. queue' \in [End -> SUBSET Unit]
    BY DeliverQueue
  <2>3. test_finished' \in BOOLEAN
    BY DEF Deliver, Effect, NoEnd, QueryEnds, StreamIsOver, TypeOK
  <2> QED
    BY <1>1, <1>6, <1>8, <2>1, <2>2, <2>3 DEF TypeOK
<1>10. QueueInv'
  <2> SUFFICES ASSUME NEW e \in End, NEW u \in queue'[e]
               PROVE  /\ u.way[1] = "q" => u.kind = "data" /\ q_sent'[u.way[2]]
                      /\ u.way[1] = "r" => received'[<<"q", u.way[2]>>] # "no"
                      /\ u.kind # "data" => StopFirst
    BY <1>8 DEF QueueInv
  <2>1. CASE u \in queue[e]
    <3>1. u.way \in Way
      BY <1>2, <2>1 DEF Unit
    <3>2. u.way[2] \in Stream /\ <<"q", u.way[2]>> \in Way
      BY <1>2, <3>1, WayFacts, TableFacts
    <3>3. /\ u.way[1] = "q" => u.kind = "data" /\ q_sent[u.way[2]]
          /\ u.way[1] = "r" => received[<<"q", u.way[2]>>] # "no"
          /\ u.kind # "data" => StopFirst
      BY <2>1 DEF TableInv, QueueInv
    <3> QED
      BY <1>6, <1>7, <3>2, <3>3
  <2>2. CASE u.kind = "data" /\ event = "fin" /\ w[1] = "q" /\ u.way = <<"r", i>>
    BY <1>4, <1>6, <2>2
  <2>3. ASSUME u.kind = "data", IsOver(w, event), NEW j \in Follow(w), u.way = <<"q", j>>
        PROVE  q_sent'[u.way[2]] /\ u.way[1] = "q"
    <3>1. j \in Stream
      BY DEF Follow, Followers
    <3> QED
      BY <1>6, <2>3, <3>1
  <2> QED
    BY <2>1, <2>2, <2>3, DeliverQueue
<1>11. TransportInv'
  <2>1. \A e \in End : sent[e] \subseteq queue'[e]
    BY DeliverQueue DEF TableInv, TransportInv
  <2> QED
    BY <1>1, <2>1 DEF TableInv, TransportInv, Other
<1>12. ReceiptInv'
  <2>1. ASSUME NEW v \in Way
        PROVE  /\ received'[v] = "reset" => v[1] = "r" /\ StopFirst
               /\ Length(v) # 0 => (received'[v] = "fin" <=> recv_nb'[v] = Length(v))
    <3>1. /\ received[v] = "reset" => v[1] = "r" /\ StopFirst
          /\ Length(v) # 0 => (received[v] = "fin" <=> recv_nb[v] = Length(v))
      BY DEF TableInv, ReceiptInv
    <3>2. CASE v = w
      BY <1>2, <1>4, <1>5, <1>6, <3>2
    <3>3. CASE v # w /\ IsOver(w, event) /\ w[1] = "q" /\ v = <<"r", i>>
      <4>1. Length(v) = 0
        BY <3>3 DEF IsOver, Length
      <4> QED
        BY <1>6, <3>3, <4>1
    <3>4. CASE v # w /\ ~(IsOver(w, event) /\ w[1] = "q" /\ v = <<"r", i>>)
      BY <1>6, <3>1, <3>4
    <3> QED
      BY <3>2, <3>3, <3>4
  <2>2. ASSUME NEW k \in Stream
        PROVE  /\ received'[<<"r", k>>] # "no" \/ recv_nb'[<<"r", k>>] # 0 => received'[<<"q", k>>] # "no"
               /\ received'[<<"q", k>>] # "no" => q_sent'[k]
               /\ received'[<<"q", k>>] # "no" /\ Scenario[k].r_len = 0 => received'[<<"r", k>>] # "no"
    <3>1. <<"q", k>> \in Way /\ <<"r", k>> \in Way
      BY <1>2, TableFacts
    <3>2. /\ received[<<"r", k>>] # "no" \/ recv_nb[<<"r", k>>] # 0 => received[<<"q", k>>] # "no"
          /\ received[<<"q", k>>] # "no" => q_sent[k]
          /\ received[<<"q", k>>] # "no" /\ Scenario[k].r_len = 0 => received[<<"r", k>>] # "no"
      BY DEF TableInv, ReceiptInv
    <3>3. CASE k # i
      <4>1. /\ <<"q", k>> # w /\ <<"r", k>> # w
            /\ <<"q", k>> # <<"r", i>> /\ <<"r", k>> # <<"r", i>>
        BY <3>3
      <4> QED
        BY <1>6, <3>1, <3>2, <4>1
    <3>4. CASE k = i /\ w[1] = "r"
      <4>1. w = <<"r", k>> /\ <<"q", k>> # w
        BY <1>4, <3>4
      <4> QED
        BY <1>5, <1>6, <1>7, <3>1, <3>2, <3>4, <4>1
    <3>5. CASE k = i /\ w[1] = "q"
      <4>1. w = <<"q", k>> /\ <<"r", k>> # w
        BY <1>4, <3>5
      <4>2. /\ received'[<<"q", k>>] = event /\ recv_nb'[<<"r", k>>] = recv_nb[<<"r", k>>]
            /\ received'[<<"r", k>>] = IF IsOver(w, event) THEN "fin" ELSE received[<<"r", k>>]
        BY <1>6, <3>1, <3>5, <4>1
      <4>3. received[<<"r", k>>] = "no" /\ recv_nb[<<"r", k>>] = 0
        BY <1>5, <3>2, <4>1
      <4>4. q_sent'[k]
        BY <1>5, <1>6, <3>5
      <4> QED
        BY <3>5, <4>2, <4>3, <4>4 DEF IsOver
    <3> QED
      BY <1>4, <3>3, <3>4, <3>5
  <2> QED
    BY <1>1, <1>8, <2>1, <2>2 DEF ReceiptInv
<1>13. OpenedInv'
  <2>1. \A k \in Stream : Scenario[k].previous_stream_id = 0 => q_sent'[k]
    BY <1>6 DEF TableInv, OpenedInv
  <2>2. ASSUME NEW k \in Stream, NEW j \in Stream, Scenario[k].previous_stream_id = Scenario[j].stream_id
        PROVE  q_sent'[k] <=> Over(j)'
    <3>1. q_sent[k] <=> Over(j)
      BY <2>2 DEF TableInv, OpenedInv
    <3>2. k \in Follow(w) <=> j = i
      BY <1>2, <1>4, <2>2, TableFacts DEF Follow, Followers
    <3> QED
      BY <1>6, <3>1, <3>2
  <2> QED
    BY <1>1, <1>8, <2>1, <2>2 DEF OpenedInv
<1>14. NothingRefused'
  BY <1>1 DEF TableInv, NothingRefused
<1> QED
  BY <1>9, <1>10, <1>11, <1>12, <1>13, <1>14 DEF TableInv

-----------------------------------------------------------------------------
(***************************************************************************)
(* The first theorems.                                                     *)
(***************************************************************************)

\* At the start the streams that follow none are opened.
LEMMA FirstStreams ==
  ASSUME Init
  PROVE  /\ Scenario \in Scenarios /\ at \in End
         /\ \A i \in Stream : q_sent[i] <=> Scenario[i].previous_stream_id = 0
         /\ queue \in [End -> SUBSET Unit]
         /\ \A e \in End : \A u \in queue[e] :
              u.kind = "data" /\ \E i \in Stream : q_sent[i] /\ u.way = <<"q", i>>
         /\ \A i \in Stream : q_sent[i] => AllData(<<"q", i>>) \subseteq queue[Opener(i)]
<1> DEFINE New(e) == UNION {AllData(<<"q", i>>) : i \in {j \in Followers(0) : Opener(j) = e}}
<1>1. Scenario \in Scenarios /\ at \in End
  BY DEF Init, End
<1>2. Queued(0, NoQueue) = Followers(0)
  <2>1. \A j \in Followers(0) : ~Refused(NoQueue[Opener(j)], <<"q", j>>)
    BY <1>1, TableFacts DEF Refused, NoQueue, Followers
  <2> QED
    BY <2>1 DEF Queued
<1>3. q_sent = [i \in Stream |-> i \in Followers(0)] /\ queue = WithQueries(NoQueue, Followers(0))
  BY <1>2 DEF Init
<1>4. \A i \in Stream : q_sent[i] <=> Scenario[i].previous_stream_id = 0
  BY <1>3 DEF Followers
<1>5. queue = [e \in End |-> NoQueue[e] \cup New(e)]
  BY <1>3 DEF WithQueries
<1>6. \A e \in End : queue[e] = New(e)
  BY <1>5 DEF NoQueue
<1>7. \A j \in Followers(0) : /\ Opener(j) \in End /\ j \in Stream
                             /\ \A u \in AllData(<<"q", j>>) :
                                  u \in Unit /\ u.way = <<"q", j>> /\ u.kind = "data"
  <2> TAKE j \in Followers(0)
  <2>1. j \in Stream
    BY DEF Followers
  <2>2. <<"q", j>> \in Way /\ Opener(j) \in End
    BY <1>1, <2>1, TableFacts
  <2> QED
    BY <2>1, <2>2, AllDataFacts
<1>8. \A e \in End : \A u \in New(e) :
        u \in Unit /\ u.kind = "data" /\ \E j \in Followers(0) : u.way = <<"q", j>>
  BY <1>7
<1>9. \A j \in Followers(0) : AllData(<<"q", j>>) \subseteq New(Opener(j))
  OBVIOUS
<1>10. \A i \in Stream : q_sent[i] <=> i \in Followers(0)
  BY <1>3
<1> HIDE DEF New
<1>11. queue \in [End -> SUBSET Unit]
  BY <1>5, <1>6, <1>8
<1>12. \A i \in Stream : q_sent[i] => AllData(<<"q", i>>) \subseteq queue[Opener(i)]
  BY <1>6, <1>7, <1>9, <1>10
<1>13. \A e \in End : \A u \in queue[e] :
         u.kind = "data" /\ \E i \in Stream : q_sent[i] /\ u.way = <<"q", i>>
  BY <1>6, <1>7, <1>8, <1>10
<1> QED
  BY <1>1, <1>4, <1>11, <1>12, <1>13

LEMMA TableInit == Init => TypeOK /\ TableInv
<1> SUFFICES ASSUME Init PROVE TypeOK /\ TableInv
  OBVIOUS
<1>1. /\ pc = "round" /\ at = "client" /\ broke = FALSE /\ stop_asked = FALSE
      /\ received = [w \in Way |-> "no"] /\ recv_nb = [w \in Way |-> 0]
      /\ test_finished \in BOOLEAN /\ q_sent \in [Stream -> BOOLEAN]
      /\ error_detected = [e \in End |-> {}]
      /\ sent = [e \in End |-> {}] /\ acked = [e \in End |-> {}] /\ got = [e \in End |-> {}]
      /\ ackdue = [e \in End |-> FALSE] /\ stop_seen = {}
      /\ link = [e \in End |-> <<>>] /\ losses = 0 /\ repeats = 0
  BY DEF Init, NoQueue
<1>2. Scenario \in Scenarios /\ at \in End /\ queue \in [End -> SUBSET Unit]
  BY FirstStreams
<1>3. \A w \in Way : Length(w) \in Nat
  BY <1>2, WayFacts
<1>4. TypeOK
  <2>1. received \in [Way -> {"no", "fin", "reset"}]
    BY <1>1
  <2>2. recv_nb \in [Way -> Nat] /\ \A w \in Way : recv_nb[w] <= Length(w)
    BY <1>1, <1>3
  <2>3. /\ error_detected \in [End -> SUBSET Fail] /\ sent \in [End -> SUBSET Unit]
        /\ acked \in [End -> SUBSET Unit] /\ got \in [End -> SUBSET Unit]
    BY <1>1
  <2>4. ackdue \in [End -> BOOLEAN] /\ link \in [End -> Seq(Packet)]
    BY <1>1
  <2>5. stop_seen \in SUBSET Way /\ losses \in Nat /\ repeats \in Nat
    BY <1>1
  <2>6. /\ pc \in {"round", "callback", "check", "end"} /\ broke \in BOOLEAN /\ stop_asked \in BOOLEAN
        /\ q_sent \in [Stream -> BOOLEAN] /\ test_finished \in BOOLEAN
    BY <1>1
  <2> QED
    BY <1>2, <2>1, <2>2, <2>3, <2>4, <2>5, <2>6 DEF TypeOK
<1>5. QueueInv
  <2> SUFFICES ASSUME NEW e \in End, NEW u \in queue[e]
               PROVE  /\ u.way[1] = "q" => u.kind = "data" /\ q_sent[u.way[2]]
                      /\ u.way[1] = "r" => received[<<"q", u.way[2]>>] # "no"
                      /\ u.kind # "data" => StopFirst
    BY DEF QueueInv
  <2>1. PICK i \in Stream : u.kind = "data" /\ q_sent[i] /\ u.way = <<"q", i>>
    BY FirstStreams
  <2> QED
    BY <2>1
<1>6. TransportInv
  BY <1>1 DEF TransportInv, Other, End
<1>7. ReceiptInv
  <2>1. \A i \in Stream : <<"q", i>> \in Way /\ <<"r", i>> \in Way
    BY <1>2, TableFacts
  <2> QED
    BY <1>1, <2>1 DEF ReceiptInv
<1>8. OpenedInv
  <2>1. \A i \in Stream : q_sent[i] <=> Scenario[i].previous_stream_id = 0
    BY FirstStreams
  <2>2. \A j \in Stream : ~Over(j) /\ Scenario[j].stream_id # 0
    BY <1>1, <1>2, TableFacts DEF Over, Desc
  <2> QED
    BY <2>1, <2>2 DEF OpenedInv
<1>9. NothingRefused
  BY <1>1 DEF NothingRefused
<1> QED
  BY <1>4, <1>5, <1>6, <1>7, <1>8, <1>9 DEF TableInv

LEMMA TableStep == (TypeOK /\ TableInv) /\ [Next]_vars => (TypeOK /\ TableInv)'
BY StepCases, SubmitStep, IncomingStep, DeliverStep, StopStep, StopSendingStep, ControlStep

LEMMA TableInvariant == Spec => [](TypeOK /\ TableInv)
BY TableInit, TableStep, PTL DEF Spec

\* The variables keep their types: what is received of a stream is no more than
\* the table says, and only packets of the table are under way.
THEOREM ScenarioTypeCorrect == Spec => []TypeOK
BY TableInvariant, PTL

\* No callback at either endpoint finds an error, whatever is lost, repeated,
\* reset or stopped on the way.
THEOREM NothingIsRefused == Spec => []NothingRefused
<1>1. TableInv => NothingRefused
  BY DEF TableInv
<1> QED
  BY <1>1, TableInvariant, PTL

-----------------------------------------------------------------------------
(***************************************************************************)
(* Refinement of StreamTable: the call of a callback that sees a stream    *)
(* end, at either endpoint, is the end of that stream; every other step    *)
(* stutters.                                                               *)
(***************************************************************************)
OpenedStreams == {i \in Stream : q_sent[i]}
OverStreams == {i \in Stream : Over(i)}

LEMMA TableStarts ==
  ASSUME Init
  PROVE  Table!Init
<1>1. Scenario \in Scenarios /\ \A i \in Stream : q_sent[i] <=> i \in Followers(0)
  BY FirstStreams DEF Followers
<1>2. OpenedStreams = Table!Followers(0)
  BY <1>1 DEF OpenedStreams, Followers, Stream, Table!Followers
<1>3. OverStreams = {}
  <2>1. \A i \in Stream : <<"q", i>> \in Way
    BY <1>1, TableFacts
  <2> QED
    BY <2>1 DEF Init, OverStreams, Over
<1>4. test_finished = (Table!Followers(0) = {})
  <2>1. \A i \in Stream : q_sent[i] <=> i \in Queued(0, NoQueue)
    BY DEF Init
  <2>2. Queued(0, NoQueue) = Table!Followers(0)
    BY <1>1, <2>1 DEF Queued, Followers, Stream, Table!Followers
  <2> QED
    BY <2>2 DEF Init
<1> QED
  BY <1>1, <1>2, <1>3, <1>4 DEF Table!Init, OpenedStreams, OverStreams

LEMMA CallbackEndsStream ==
  ASSUME TypeOK, TableInv, NEW w \in Way, NEW event \in {"no", "fin", "reset"}, Deliver(w, event)
  PROVE  IF IsOver(w, event) THEN Table!StreamEnds(w[2])
         ELSE UNCHANGED <<Scenario, OpenedStreams, OverStreams, test_finished>>
<1>1. /\ Scenario \in Scenarios /\ Scenario' = Scenario /\ Stream' = Stream
      /\ w[2] \in Stream /\ (w = <<"q", w[2]>> \/ w = <<"r", w[2]>>)
  BY WayFacts, SameTable DEF TypeOK, Deliver, Effect
<1>2. \A j \in Stream : /\ q_sent'[j] <=> q_sent[j] \/ (IsOver(w, event) /\ j \in Follow(w))
                        /\ Over(j)' <=> Over(j) \/ (IsOver(w, event) /\ j = w[2])
  BY DeliverTable
<1>3. IF IsOver(w, event) THEN test_finished' = (Follow(w) = {}) ELSE test_finished' = test_finished
  BY DEF Deliver, Effect, IsOver, NoEnd, QueryEnds, StreamIsOver
<1>4. CASE ~IsOver(w, event)
  BY <1>1, <1>2, <1>3, <1>4 DEF OpenedStreams, OverStreams
<1>5. CASE IsOver(w, event)
  <2>1. /\ Follow(w) = Table!Followers(Scenario[w[2]].stream_id)
        /\ Follow(w) \subseteq Stream
    BY DEF Follow, Followers, Stream, Table!Followers
  <2>2. /\ OpenedStreams' = OpenedStreams \cup Follow(w)
        /\ OverStreams' = OverStreams \cup {w[2]}
    BY <1>1, <1>2, <1>5, <2>1 DEF OpenedStreams, OverStreams
  <2>3. w[2] \in OpenedStreams \ OverStreams
    <3>1. PICK n \in Nat : Delivers(w, n, event)
      BY DEF Deliver
    <3>2. received[w] = "no" /\ IF w[1] = "q" THEN q_sent[w[2]] ELSE received[<<"q", w[2]>>] # "no"
      BY <3>1 DEF Delivers
    <3>3. q_sent[w[2]]
      BY <1>1, <3>2 DEF TableInv, ReceiptInv
    <3> QED
      BY <1>1, <3>2, <3>3 DEF OpenedStreams, OverStreams, Over
  <2> QED
    BY <1>1, <1>3, <1>5, <2>1, <2>2, <2>3 DEF Table!StreamEnds, OpenedStreams, OverStreams
<1> QED
  BY <1>4, <1>5

LEMMA TableNext ==
  ASSUME TypeOK, TableInv, [Next]_vars
  PROVE  [Table!Next]_<<Scenario, OpenedStreams, OverStreams, test_finished>>
<1>1. ASSUME NEW w \in Way, NEW event \in {"no", "fin", "reset"}, Deliver(w, event)
      PROVE  Table!Next \/ UNCHANGED <<Scenario, OpenedStreams, OverStreams, test_finished>>
  <2>1. Table!StreamEnds(w[2]) => Table!Next
    BY DEF Table!Next, Table!StreamEnds
  <2> QED
    BY <1>1, <2>1, CallbackEndsStream
<1>2. ASSUME UNCHANGED <<Scenario, q_sent, received, test_finished>>
      PROVE  UNCHANGED <<Scenario, OpenedStreams, OverStreams, test_finished>>
  BY <1>2, SameTable DEF OpenedStreams, OverStreams, Over
<1>3. \/ \E w \in Way, event \in {"no", "fin", "reset"} : Deliver(w, event)
      \/ UNCHANGED <<Scenario, q_sent, received, test_finished>>
  BY StepCases DEF Submits, Submit, Incoming, StopEvent, StopSending, Control, test
<1> QED
  BY <1>1, <1>2, <1>3

\* Every behaviour of the two callbacks is one of StreamTable: a stream ends
\* once, its end opens exactly the streams that follow it, in the same step, and
\* test_finished says whether there were any, whatever is lost, repeated or
\* stopped on the way.
THEOREM CallbacksImplementTable == Spec => ImplementsTable
<1>1. Init => Table!Init
  BY TableStarts
<1>2. TypeOK /\ TableInv /\ [Next]_vars =>
        [Table!Next]_<<Scenario, OpenedStreams, OverStreams, test_finished>>
  BY TableNext
<1>3. Table!Spec <=> Table!Init /\ [][Table!Next]_<<Scenario, OpenedStreams, OverStreams, test_finished>>
  BY DEF Table!Spec, OpenedStreams, OverStreams
<1> QED
  BY <1>1, <1>2, <1>3, TableInvariant, PTL DEF Spec, ImplementsTable

-----------------------------------------------------------------------------
(***************************************************************************)
(* What is missing when the loop breaks.                                   *)
(***************************************************************************)

LateInv == GivenInv /\ SettledInv /\ BreakInv /\ ChainInv

LEMMA LateInit == Init => LateInv
<1> SUFFICES ASSUME Init PROVE LateInv
  OBVIOUS
<1>1. /\ broke = FALSE /\ pc = "round" /\ received = [w \in Way |-> "no"]
      /\ got = [e \in End |-> {}]
      /\ \A i \in Stream : test_finished => ~q_sent[i]
  BY DEF Init, NoQueue
<1>2. /\ Scenario \in Scenarios
      /\ \A i \in Stream : q_sent[i] <=> Scenario[i].previous_stream_id = 0
      /\ \A i \in Stream : q_sent[i] => AllData(<<"q", i>>) \subseteq queue[Opener(i)]
  BY FirstStreams
<1>3. \A i \in Stream : <<"q", i>> \in Way
  BY <1>2, TableFacts
<1>4. GivenInv
  BY <1>1, <1>2, <1>3 DEF GivenInv
<1>5. SettledInv
  <2>1. \A w \in Way : Other(Sender(w)) \in End
    BY <1>2, WayFacts
  <2> QED
    BY <1>1, <2>1 DEF SettledInv, Settled
<1>6. BreakInv
  BY <1>1 DEF BreakInv
<1>7. ChainInv
  <2> SUFFICES ASSUME Chained
               PROVE  /\ \A i \in Stream : q_sent[i] => \A k \in 1 .. i - 1 : Over(k)
                      /\ test_finished => \A i \in Stream : Over(i)
    BY DEF ChainInv
  <2>1. ASSUME NEW i \in Stream, q_sent[i] PROVE i = 1
    <3>1. SUFFICES ASSUME i # 1 PROVE FALSE
      OBVIOUS
    <3>2. Stream = 1 .. Len(Scenario) /\ Len(Scenario) \in Nat
      BY <1>2, TableFacts, TableAssumption
    <3>3. i - 1 \in Stream
      BY <3>1, <3>2
    <3>4. Scenario[i - 1].stream_id # 0
      BY <1>2, <3>3, TableFacts DEF Desc
    <3> QED
      BY <1>2, <2>1, <3>1, <3>4 DEF Chained
  <2>2. ASSUME test_finished, NEW i \in Stream PROVE FALSE
    <3>1. Stream = 1 .. Len(Scenario) /\ Len(Scenario) \in Nat
      BY <1>2, TableFacts, TableAssumption
    <3>2. 1 \in Stream
      BY <2>2, <3>1
    <3>3. Scenario[1].previous_stream_id = 0
      BY <1>2, <3>2, TableFacts
    <3> QED
      BY <1>1, <1>2, <2>2, <3>2, <3>3
  <2> QED
    BY <2>1, <2>2
<1> QED
  BY <1>4, <1>5, <1>6, <1>7 DEF LateInv

\* A step that leaves the table of streams alone, and loses nothing of the queues.
LEMMA SameTest ==
  ASSUME LateInv, UNCHANGED test, \A e \in End : queue[e] \subseteq queue'[e], Scenario \in Scenarios
  PROVE  GivenInv' /\ ChainInv'
<1>1. UNCHANGED <<Scenario, q_sent, received, recv_nb, test_finished>>
  BY DEF test
<1>2. GivenInv'
  <2>1. \A i \in Stream : Opener(i) \in End /\ Other(Opener(i)) \in End
    BY TableFacts DEF Other, End
  <2>2. \A i \in Stream : Opener(i)' = Opener(i) /\ Other(Opener(i))' = Other(Opener(i))
    BY <1>1, SameTable DEF Other
  <2>3. \A w : AllData(w)' = AllData(w) /\ Reset(w)' = Reset(w)
    BY <1>1, SameTable DEF Reset
  <2>4. Stream' = Stream
    BY <1>1, SameTable
  <2> SUFFICES ASSUME NEW i \in Stream
               PROVE  /\ q_sent[i] => AllData(<<"q", i>>) \subseteq queue'[Opener(i)]
                      /\ received[<<"q", i>>] # "no" =>
                           \/ AllData(<<"r", i>>) \subseteq queue'[Other(Opener(i))]
                           \/ Reset(<<"r", i>>) \in queue'[Other(Opener(i))]
    BY <1>1, <2>2, <2>3, <2>4 DEF GivenInv
  <2>5. /\ q_sent[i] => AllData(<<"q", i>>) \subseteq queue[Opener(i)]
        /\ received[<<"q", i>>] # "no" =>
             \/ AllData(<<"r", i>>) \subseteq queue[Other(Opener(i))]
             \/ Reset(<<"r", i>>) \in queue[Other(Opener(i))]
    BY DEF LateInv, GivenInv
  <2> QED
    BY <2>1, <2>5
<1>3. ChainInv'
  BY <1>1, SameTable DEF LateInv, ChainInv, Over
<1> QED
  BY <1>2, <1>3

\* Nothing is settled anew when what is received and what has arrived are the same.
LEMMA SameSettled ==
  ASSUME Scenario' = Scenario, NEW w \in Way, received'[w] = received[w], recv_nb'[w] = recv_nb[w],
         got'[Other(Sender(w))] = got[Other(Sender(w))], Settled(w)
  PROVE  Settled(w)'
<1>1. Sender(w)' = Sender(w) /\ Length(w)' = Length(w)
  BY SameTable
<1> QED
  BY <1>1 DEF Settled, Other, Data, Reset

LEMMA ControlLate ==
  ASSUME TypeOK, LateInv, Control
  PROVE  LateInv'
<1>1. /\ UNCHANGED <<at, test, queue, sent, acked, got>>
      /\ pc' = "callback" => pc = "callback"
      /\ pc = "callback" /\ pc' # "callback" => \A w \in Way : ~Delivered(w) /\ ~ResetArrived(w)
      /\ broke' => (pc' = "end" /\ Breaks) \/ (broke /\ (pc = "end" => pc' = "end"))
  BY DEF Control, engine
<1>2. /\ UNCHANGED <<Scenario, received, recv_nb, test_finished>>
      /\ Scenario \in Scenarios /\ at \in End /\ recv_nb \in [Way -> Nat]
  BY <1>1 DEF test, TypeOK
<1>3. GivenInv' /\ ChainInv'
  BY <1>1, <1>2, SameTest
<1>4. SettledInv'
  <2>1. Way' = Way /\ \A w : Sender(w)' = Sender(w)
    BY <1>2, SameTable
  <2> SUFFICES ASSUME NEW w \in Way PROVE (pc' = "callback" /\ Sender(w) = Other(at)) \/ Settled(w)'
    BY <1>1, <2>1 DEF SettledInv, Other
  <2>2. (pc = "callback" /\ Sender(w) = Other(at)) \/ Settled(w)
    BY DEF LateInv, SettledInv
  <2>3. CASE Settled(w)
    BY <1>1, <1>2, <2>3, SameSettled
  <2>4. CASE pc = "callback" /\ Sender(w) = Other(at) /\ pc' # "callback"
    <3>1. Other(Sender(w)) = at
      BY <1>2, <2>4 DEF Other, End
    <3>2. ~Delivered(w) /\ ~ResetArrived(w)
      BY <1>1, <2>4
    <3>3. Settled(w)
      BY <2>4, <3>1, <3>2 DEF Settled, Delivered, ResetArrived, Open
    <3> QED
      BY <1>1, <1>2, <3>3, SameSettled
  <2> QED
    BY <2>2, <2>3, <2>4
<1>5. BreakInv'
  <2>1. Breaks' = Breaks
    BY <1>1, <1>2 DEF Breaks, BacklogEmpty, Flight, Reset
  <2> QED
    BY <1>1, <2>1 DEF LateInv, BreakInv
<1> QED
  BY <1>3, <1>4, <1>5 DEF LateInv

LEMMA SubmitLate ==
  ASSUME TypeOK, LateInv, NEW e \in End, NEW unit, Submits(e, unit)
  PROVE  LateInv'
<1>1. UNCHANGED <<at, broke, test, queue, got>> /\ pc = "round"
  BY DEF Submits, Submit
<1>2. UNCHANGED <<Scenario, received, recv_nb>> /\ Scenario \in Scenarios
  BY <1>1 DEF test, TypeOK
<1>3. GivenInv' /\ ChainInv'
  BY <1>1, <1>2, SameTest
<1>4. SettledInv'
  <2>1. \A w \in Way : Settled(w)
    BY <1>1 DEF LateInv, SettledInv
  <2>2. \A w \in Way : Settled(w)'
    BY <1>1, <1>2, <2>1, SameSettled
  <2>3. Way' = Way
    BY <1>2, SameTable
  <2> QED
    BY <2>2, <2>3 DEF SettledInv
<1>5. BreakInv'
  BY <1>1 DEF LateInv, BreakInv
<1> QED
  BY <1>3, <1>4, <1>5 DEF LateInv

LEMMA IncomingLate ==
  ASSUME TypeOK, LateInv, NEW e \in End, Incoming(e)
  PROVE  LateInv'
<1>1. /\ UNCHANGED <<broke, test, queue>> /\ pc = "round" /\ pc' = "callback" /\ at' = e
      /\ \E S : got' = [got EXCEPT ![e] = S]
  BY DEF Incoming
<1>2. UNCHANGED <<Scenario, received, recv_nb>> /\ Scenario \in Scenarios /\ got \in [End -> SUBSET Unit]
  BY <1>1 DEF test, TypeOK
<1>3. GivenInv' /\ ChainInv'
  BY <1>1, <1>2, SameTest
<1>4. SettledInv'
  <2>1. Way' = Way /\ \A w : Sender(w)' = Sender(w)
    BY <1>2, SameTable
  <2> SUFFICES ASSUME NEW w \in Way, Sender(w) # Other(e) PROVE Settled(w)'
    BY <1>1, <2>1 DEF SettledInv, Other
  <2>2. Settled(w)
    BY <1>1 DEF LateInv, SettledInv
  <2>3. Other(Sender(w)) \in End /\ Other(Sender(w)) # e
    BY <1>2, WayFacts
  <2>4. got'[Other(Sender(w))] = got[Other(Sender(w))]
    BY <1>1, <1>2, <2>3
  <2> QED
    BY <1>2, <2>2, <2>4, SameSettled
<1>5. BreakInv'
  BY <1>1 DEF LateInv, BreakInv
<1> QED
  BY <1>3, <1>4, <1>5 DEF LateInv

LEMMA StopSendingLate ==
  ASSUME TypeOK, LateInv, StopSending
  PROVE  LateInv'
<1>1. /\ UNCHANGED <<test, got>> /\ pc = "end" /\ broke' = FALSE
      /\ queue' = [queue EXCEPT ![Opener(1)] = @ \cup {Stop(<<"r", 1>>)}]
  BY DEF StopSending
<1>2. /\ UNCHANGED <<Scenario, received, recv_nb>> /\ Scenario \in Scenarios
      /\ queue \in [End -> SUBSET Unit]
  BY <1>1 DEF test, TypeOK
<1>3. GivenInv' /\ ChainInv'
  <2>1. \A e \in End : queue[e] \subseteq queue'[e]
    BY <1>1, <1>2
  <2> QED
    BY <1>1, <1>2, <2>1, SameTest
<1>4. SettledInv'
  <2>1. \A w \in Way : Settled(w)
    BY <1>1 DEF LateInv, SettledInv
  <2>2. \A w \in Way : Settled(w)'
    BY <1>1, <1>2, <2>1, SameSettled
  <2>3. Way' = Way
    BY <1>2, SameTable
  <2> QED
    BY <2>2, <2>3 DEF SettledInv
<1>5. BreakInv'
  BY <1>1 DEF BreakInv
<1> QED
  BY <1>3, <1>4, <1>5 DEF LateInv

\* A reset takes the place of a response that had not been sent.
LEMMA StopLate ==
  ASSUME TypeOK, TableInv, LateInv, NEW w \in Way, StopEvent(w)
  PROVE  LateInv'
<1> DEFINE S == AfterResetStream(queue[at], at, w)
<1>1. /\ UNCHANGED <<pc, at, broke, test, got>> /\ pc = "callback"
      /\ queue' = [queue EXCEPT ![at] = S]
      /\ Sender(w) = at /\ Stop(w) \in got[at]
  BY DEF StopEvent, StopArrived
<1>2. /\ UNCHANGED <<Scenario, q_sent, received, recv_nb, test_finished>> /\ Scenario \in Scenarios
      /\ at \in End /\ queue \in [End -> SUBSET Unit]
  BY <1>1 DEF test, TypeOK
<1>3. w[1] = "r"
  <2>1. Stop(w) \in queue[Other(at)] /\ Other(at) \in End
    BY <1>1, <1>2 DEF TableInv, TransportInv, Other, End
  <2>2. Stop(w).way = w /\ Stop(w).kind = "stop"
    BY UnitFacts
  <2>3. w[1] \in {"q", "r"}
    BY DEF Way
  <2> QED
    BY <2>1, <2>2, <2>3 DEF TableInv, QueueInv
<1>4. \/ S = queue[at]
      \/ Reset(w) \in S /\ \A u \in queue[at] : u.way # w \/ u.kind # "data" => u \in S
  BY DEF AfterResetStream
<1> HIDE DEF S
<1>5. GivenInv'
  <2>1. /\ Stream' = Stream /\ \A i \in Stream : Opener(i)' = Opener(i) /\ Other(Opener(i))' = Other(Opener(i))
        /\ \A v : AllData(v)' = AllData(v) /\ Reset(v)' = Reset(v)
    BY <1>2, SameTable DEF Reset, Other
  <2> SUFFICES ASSUME NEW i \in Stream
               PROVE  /\ q_sent[i] => AllData(<<"q", i>>) \subseteq queue'[Opener(i)]
                      /\ received[<<"q", i>>] # "no" =>
                           \/ AllData(<<"r", i>>) \subseteq queue'[Other(Opener(i))]
                           \/ Reset(<<"r", i>>) \in queue'[Other(Opener(i))]
    BY <1>2, <2>1 DEF GivenInv
  <2>2. /\ q_sent[i] => AllData(<<"q", i>>) \subseteq queue[Opener(i)]
        /\ received[<<"q", i>>] # "no" =>
             \/ AllData(<<"r", i>>) \subseteq queue[Other(Opener(i))]
             \/ Reset(<<"r", i>>) \in queue[Other(Opener(i))]
    BY DEF LateInv, GivenInv
  <2>3. /\ <<"q", i>> \in Way /\ <<"r", i>> \in Way
        /\ Opener(i) \in End /\ Other(Opener(i)) \in End
    BY <1>2, TableFacts DEF Other, End
  <2>4. \A e \in End : queue'[e] = IF e = at THEN S ELSE queue[e]
    BY <1>1, <1>2
  <2>5. \A e \in End : \A u \in queue[e] : u.way # w \/ u.kind # "data" => u \in queue'[e]
    BY <1>4, <2>4
  <2>6. \A u \in AllData(<<"q", i>>) : u.way # w
    BY <1>3, <2>3, AllDataFacts
  <2>7. Reset(<<"r", i>>) \in queue[Other(Opener(i))] => Reset(<<"r", i>>) \in queue'[Other(Opener(i))]
    BY <2>3, <2>5, UnitFacts
  <2>8. CASE w # <<"r", i>>
    <3>1. \A u \in AllData(<<"r", i>>) : u.way # w
      BY <2>3, <2>8, AllDataFacts
    <3> QED
      BY <2>2, <2>3, <2>5, <2>6, <2>7, <3>1
  <2>9. CASE w = <<"r", i>>
    <3>1. at = Other(Opener(i))
      BY <1>1, <2>9 DEF Sender
    <3>2. queue'[at] = queue[at] \/ Reset(<<"r", i>>) \in queue'[at]
      BY <1>2, <1>4, <2>4, <2>9
    <3> QED
      BY <2>2, <2>3, <2>5, <2>6, <3>1, <3>2
  <2> QED
    BY <2>8, <2>9
<1>6. ChainInv'
  BY <1>2, SameTable DEF LateInv, ChainInv, Over
<1>7. SettledInv'
  <2>1. Way' = Way /\ \A v : Sender(v)' = Sender(v)
    BY <1>2, SameTable
  <2>2. \A v \in Way : Settled(v) => Settled(v)'
    BY <1>1, <1>2, SameSettled
  <2> QED
    BY <1>1, <2>1, <2>2 DEF LateInv, SettledInv, Other
<1>8. BreakInv'
  BY <1>1 DEF LateInv, BreakInv
<1> QED
  BY <1>5, <1>6, <1>7, <1>8 DEF LateInv

LEMMA DeliverLate ==
  ASSUME TypeOK, TableInv, LateInv, NEW w \in Way, NEW event \in {"no", "fin", "reset"}, Deliver(w, event)
  PROVE  LateInv'
<1> DEFINE i == w[2]
<1>1. UNCHANGED <<Scenario, pc, at, broke, got>>
  BY DEF Deliver, Effect
<1>2. /\ Scenario \in Scenarios /\ at \in End
      /\ Stream = 1 .. Len(Scenario) /\ Len(Scenario) \in Nat
  BY TableFacts, TableAssumption DEF TypeOK
<1>3. PICK n \in Nat : Delivers(w, n, event)
  BY DEF Deliver
<1>4. /\ i \in Stream /\ w[1] \in {"q", "r"}
      /\ (w[1] = "q" => w = <<"q", i>>) /\ (w[1] = "r" => w = <<"r", i>>)
  BY <1>2, WayFacts DEF Way
<1>5. /\ pc = "callback" /\ Sender(w) = Other(at)
      /\ q_sent[i]
  BY <1>3, <1>4 DEF Delivers, TableInv, ReceiptInv
<1>6. /\ \A v \in Way : received'[v] =
           IF v = w THEN event
           ELSE IF IsOver(w, event) /\ w[1] = "q" /\ v = <<"r", i>> THEN "fin" ELSE received[v]
      /\ \A v \in Way : recv_nb'[v] = IF v = w /\ event # "reset" THEN recv_nb[w] + 1 ELSE recv_nb[v]
      /\ \A j \in Stream : q_sent'[j] <=> q_sent[j] \/ (IsOver(w, event) /\ j \in Follow(w))
      /\ \A j \in Stream : Over(j)' <=> Over(j) \/ (IsOver(w, event) /\ j = i)
  BY DeliverTable
<1>7. /\ \A e \in End : queue[e] \subseteq queue'[e]
      /\ event # "no" /\ w[1] = "q" /\ Scenario[i].r_len # 0 => AllData(<<"r", i>>) \subseteq queue'[at]
      /\ IsOver(w, event) => \A j \in Follow(w) : AllData(<<"q", j>>) \subseteq queue'[Opener(j)]
  BY DeliverQueue
<1>8. /\ Stream' = Stream /\ Way' = Way /\ Chained' = Chained
      /\ \A j : Opener(j)' = Opener(j) /\ Other(Opener(j))' = Other(Opener(j))
      /\ \A v : Sender(v)' = Sender(v) /\ AllData(v)' = AllData(v) /\ Reset(v)' = Reset(v)
  BY <1>1, SameTable DEF Reset, Other
<1>9. GivenInv'
  <2> SUFFICES ASSUME NEW j \in Stream
               PROVE  /\ q_sent'[j] => AllData(<<"q", j>>) \subseteq queue'[Opener(j)]
                      /\ received'[<<"q", j>>] # "no" =>
                           \/ AllData(<<"r", j>>) \subseteq queue'[Other(Opener(j))]
                           \/ Reset(<<"r", j>>) \in queue'[Other(Opener(j))]
    BY <1>8 DEF GivenInv
  <2>1. /\ q_sent[j] => AllData(<<"q", j>>) \subseteq queue[Opener(j)]
        /\ received[<<"q", j>>] # "no" =>
             \/ AllData(<<"r", j>>) \subseteq queue[Other(Opener(j))]
             \/ Reset(<<"r", j>>) \in queue[Other(Opener(j))]
    BY DEF LateInv, GivenInv
  <2>2. /\ <<"q", j>> \in Way /\ Opener(j) \in End /\ Other(Opener(j)) \in End
    BY <1>2, TableFacts DEF Other, End
  <2>3. q_sent'[j] => AllData(<<"q", j>>) \subseteq queue'[Opener(j)]
    BY <1>6, <1>7, <2>1, <2>2
  <2>4. CASE received'[<<"q", j>>] = received[<<"q", j>>]
    BY <1>7, <2>1, <2>2, <2>3, <2>4
  <2>5. CASE w = <<"q", j>> /\ event # "no"
    <3>1. i = j /\ w[1] = "q"
      BY <2>5
    <3>2. at = Other(Opener(j))
      BY <1>2, <1>5, <2>2, <2>5 DEF Sender, Other, End
    <3>3. Scenario[j].r_len = 0 => AllData(<<"r", j>>) = {}
      BY DEF AllData, Length
    <3> QED
      BY <1>7, <2>3, <2>5, <3>1, <3>2, <3>3
  <2>6. received'[<<"q", j>>] # "no" => received'[<<"q", j>>] = received[<<"q", j>>] \/ (w = <<"q", j>> /\ event # "no")
    BY <1>6, <2>2
  <2> QED
    BY <2>3, <2>4, <2>5, <2>6
<1>10. SettledInv'
  <2> SUFFICES ASSUME NEW v \in Way, Sender(v) # Other(at) PROVE Settled(v)'
    BY <1>1, <1>5, <1>8 DEF SettledInv, Other
  <2>1. Settled(v) /\ v # w
    BY <1>5 DEF LateInv, SettledInv
  <2>2. recv_nb'[v] = recv_nb[v]
    BY <1>6, <2>1
  <2>3. CASE received'[v] = received[v]
    BY <1>1, <2>1, <2>2, <2>3, SameSettled
  <2>4. CASE IsOver(w, event) /\ w[1] = "q" /\ v = <<"r", i>>
    <3>1. Length(v) = 0
      BY <2>4 DEF IsOver, Length
    <3>2. Length(v)' = 0 /\ recv_nb'[v] \in Nat
      BY <1>1, <2>2, <3>1, SameTable DEF TypeOK
    <3> QED
      BY <3>2 DEF Settled
  <2> QED
    BY <1>6, <2>1, <2>3, <2>4
<1>11. BreakInv'
  BY <1>1, <1>5 DEF LateInv, BreakInv
<1>12. ChainInv'
  <2> SUFFICES ASSUME Chained
               PROVE  /\ \A j \in Stream : q_sent'[j] => \A k \in 1 .. j - 1 : Over(k)'
                      /\ test_finished' => \A j \in Stream : Over(j)'
    BY <1>8 DEF ChainInv
  <2>1. /\ \A j \in Stream : q_sent[j] => \A k \in 1 .. j - 1 : Over(k)
        /\ test_finished => \A j \in Stream : Over(j)
    BY DEF LateInv, ChainInv
  <2>2. IsOver(w, event) => \A k \in 1 .. i : Over(k)'
    BY <1>2, <1>4, <1>5, <1>6, <2>1
  <2>3. ASSUME NEW j \in Follow(w) PROVE j \in Stream /\ j - 1 = i
    <3>1. j \in Stream /\ Scenario[j].previous_stream_id = Scenario[i].stream_id
      BY DEF Follow, Followers
    <3>2. Scenario[i].stream_id # 0
      BY <1>2, <1>4, TableFacts DEF Desc
    <3>3. j # 1
      BY <1>2, <3>1, <3>2, TableFacts
    <3>4. j - 1 \in Stream /\ Scenario[j - 1].stream_id = Scenario[i].stream_id
      BY <1>2, <3>1, <3>3 DEF Chained
    <3> QED
      BY <1>2, <1>4, <3>1, <3>4, TableFacts
  <2>4. ASSUME NEW j \in Stream, q_sent'[j], NEW k \in 1 .. j - 1 PROVE Over(k)'
    <3>1. k \in Stream
      BY <1>2
    <3>2. CASE q_sent[j]
      BY <1>6, <2>1, <2>4, <3>1, <3>2
    <3>3. CASE IsOver(w, event) /\ j \in Follow(w)
      <4>1. j - 1 = i
        BY <2>3, <3>3
      <4> QED
        BY <2>2, <3>3, <4>1
    <3> QED
      BY <1>6, <2>4, <3>2, <3>3
  <2>5. ASSUME test_finished', NEW j \in Stream PROVE Over(j)'
    <3>1. CASE test_finished
      BY <1>6, <2>1, <3>1
    <3>2. CASE IsOver(w, event) /\ Follow(w) = {}
      <4>1. i + 1 \notin Stream
        <5>1. SUFFICES ASSUME i + 1 \in Stream PROVE FALSE
          OBVIOUS
        <5>2. i + 1 # 1 /\ (i + 1) - 1 = i
          BY <1>2, <1>4
        <5>3. Scenario[i + 1].previous_stream_id = Scenario[i].stream_id
          BY <5>1, <5>2 DEF Chained
        <5> QED
          BY <3>2, <5>1, <5>3 DEF Follow, Followers
      <4>2. j \in 1 .. i
        BY <1>2, <1>4, <4>1
      <4> QED
        BY <2>2, <3>2, <4>2
    <3>3. test_finished' = test_finished \/ (IsOver(w, event) /\ test_finished' = (Follow(w) = {}))
      BY DEF Deliver, Effect, NoEnd, QueryEnds, StreamIsOver, IsOver
    <3> QED
      BY <2>5, <3>1, <3>2, <3>3
  <2> QED
    BY <2>4, <2>5
<1> QED
  BY <1>9, <1>10, <1>11, <1>12 DEF LateInv

LEMMA LateStep == (TypeOK /\ TableInv /\ LateInv) /\ [Next]_vars => LateInv'
BY StepCases, ControlLate, SubmitLate, IncomingLate, DeliverLate, StopLate, StopSendingLate

LEMMA LateInvariant == Spec => [](TypeOK /\ TableInv /\ LateInv)
BY TableInit, TableStep, LateInit, LateStep, PTL DEF Spec

\* When the loop has broken: what has been sent has been received, and handed to the callback.
LEMMA MissingIsUnsent ==
  ASSUME TypeOK, TableInv, LateInv, broke, NEW w \in Way, Length(w) # 0, received[w] = "no",
         AllData(w) \subseteq queue[Sender(w)] \/ Reset(w) \in queue[Sender(w)]
  PROVE  \E u \in Unsent(Sender(w)) : u.way = w
<1> DEFINE e == Sender(w)
<1>1. /\ Scenario \in Scenarios /\ recv_nb[w] \in Nat /\ recv_nb[w] <= Length(w)
  BY DEF TypeOK
<1>2. e \in End /\ Other(e) \in End /\ Other(Other(e)) = e /\ Length(w) \in Nat
  BY <1>1, WayFacts
<1>3. Flight(e) = {}
  BY <1>2 DEF LateInv, BreakInv, Breaks, BacklogEmpty, End
<1>4. acked[e] \subseteq got[Other(e)]
  BY <1>2 DEF TableInv, TransportInv
<1>5. recv_nb[w] < Length(w)
  BY <1>1, <1>2 DEF TableInv, ReceiptInv
<1>6. Data(w, recv_nb[w] + 1) \notin got[Other(e)] /\ Reset(w) \notin got[Other(e)]
  BY <1>5 DEF LateInv, BreakInv, SettledInv, Settled
<1>7. CASE Reset(w) \in queue[e]
  <2>1. Reset(w).kind # "data" /\ Reset(w).way = w
    BY UnitFacts
  <2>2. Reset(w) \notin sent[e]
    BY <1>3, <1>4, <1>6, <2>1 DEF Flight
  <2> QED
    BY <1>7, <2>1, <2>2 DEF Unsent
<1>8. CASE Reset(w) \notin queue[e]
  <2> DEFINE u == Data(w, recv_nb[w] + 1)
  <2>1. u.way = w
    BY <1>1, UnitFacts
  <2>2. u \in AllData(w)
    BY <1>1, <1>2, <1>5 DEF AllData
  <2>3. u \notin sent[e]
    BY <1>3, <1>4, <1>6, <1>8, <2>1 DEF Flight
  <2> QED
    BY <1>8, <2>1, <2>2, <2>3 DEF Unsent
<1> QED
  BY <1>7, <1>8

\* When the loop breaks, a stream that is not over waits for data that the
\* engine has not sent at all, or to be opened by such a stream.
THEOREM BreakLeavesUnsent == Spec => []BreakLeavesOnlyUnsent
<1>1. ASSUME TypeOK, TableInv, LateInv PROVE BreakLeavesOnlyUnsent
  <2> SUFFICES ASSUME broke, NEW i \in Stream, ~Over(i)
               PROVE  \/ q_sent[i] /\ \E w \in {<<"q", i>>, <<"r", i>>} :
                                        \E u \in Unsent(Sender(w)) : u.way = w
                      \/ /\ ~q_sent[i]
                         /\ \E j \in Stream :
                              Scenario[j].stream_id = Scenario[i].previous_stream_id /\ ~Over(j)
    BY DEF BreakLeavesOnlyUnsent
  <2>1. Scenario \in Scenarios
    BY <1>1 DEF TypeOK
  <2>2. <<"q", i>> \in Way /\ <<"r", i>> \in Way
    BY <2>1, TableFacts
  <2>3. Sender(<<"q", i>>) = Opener(i) /\ Sender(<<"r", i>>) = Other(Opener(i))
    BY DEF Sender
  <2>4. CASE ~q_sent[i]
    <3>1. Scenario[i].previous_stream_id # 0
      BY <1>1, <2>4 DEF TableInv, OpenedInv
    <3>2. PICK j \in 1 .. i - 1 : Scenario[j].stream_id = Scenario[i].previous_stream_id
      BY <2>1, <3>1, TableFacts
    <3>3. j \in Stream
      BY <2>1, TableFacts, TableAssumption
    <3>4. ~Over(j)
      BY <1>1, <2>4, <3>2, <3>3 DEF TableInv, OpenedInv
    <3> QED
      BY <2>4, <3>2, <3>3, <3>4
  <2>5. CASE q_sent[i] /\ received[<<"q", i>>] = "no"
    <3>1. AllData(<<"q", i>>) \subseteq queue[Opener(i)]
      BY <1>1, <2>5 DEF LateInv, GivenInv
    <3>2. Length(<<"q", i>>) # 0
      BY <2>1, <2>2, WayFacts
    <3> QED
      BY <1>1, <2>2, <2>3, <2>5, <3>1, <3>2, MissingIsUnsent
  <2>6. CASE q_sent[i] /\ received[<<"q", i>>] # "no"
    <3>1. received[<<"r", i>>] = "no"
      BY <2>6 DEF Over
    <3>2. \/ AllData(<<"r", i>>) \subseteq queue[Other(Opener(i))]
          \/ Reset(<<"r", i>>) \in queue[Other(Opener(i))]
      BY <1>1, <2>6 DEF LateInv, GivenInv
    <3>3. Length(<<"r", i>>) # 0
      BY <1>1, <2>6, <3>1 DEF TableInv, ReceiptInv, Length
    <3> QED
      BY <1>1, <2>2, <2>3, <2>6, <3>1, <3>2, <3>3, MissingIsUnsent
  <2> QED
    BY <2>4, <2>5, <2>6
<1> QED
  BY <1>1, LateInvariant, PTL

\* If each stream but the first follows the one before it, and none is stopped,
\* the loop breaks only when what the test verifies holds.
THEOREM BreaksComplete == Spec => []BreakIsComplete
<1>1. ASSUME TypeOK, TableInv, LateInv PROVE BreakIsComplete
  <2> SUFFICES ASSUME broke, Chained, ~StopFirst, NEW i \in Stream,
                      NEW w \in {<<"q", i>>, <<"r", i>>}
               PROVE  recv_nb[w] = Length(w) /\ received[w] # "no"
    BY DEF BreakIsComplete, Complete
  <2>1. Scenario \in Scenarios /\ recv_nb \in [Way -> Nat] /\ \A v \in Way : recv_nb[v] <= Length(v)
    BY <1>1 DEF TypeOK
  <2>2. w \in Way
    BY <2>1, TableFacts
  <2>3. Over(i)
    BY <1>1 DEF LateInv, BreakInv, Breaks, ChainInv
  <2>4. received[w] = "fin"
    <3>1. received[w] # "no"
      BY <2>3 DEF Over
    <3>2. received[w] # "reset"
      BY <1>1, <2>2 DEF TableInv, ReceiptInv
    <3>3. received[w] \in {"no", "fin", "reset"}
      BY <1>1, <2>2 DEF TypeOK
    <3> QED
      BY <3>1, <3>2, <3>3
  <2>5. Length(w) # 0 => recv_nb[w] = Length(w)
    BY <1>1, <2>2, <2>4 DEF TableInv, ReceiptInv
  <2>6. Length(w) = 0 => recv_nb[w] = Length(w)
    BY <2>1, <2>2
  <2> QED
    BY <2>4, <2>5, <2>6
<1> QED
  BY <1>1, LateInvariant, PTL
=============================================================================
