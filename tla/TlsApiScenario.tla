--------------------------- MODULE TlsApiScenario ---------------------------
(***************************************************************************)
(* The scenarios of tls_api_test.c: a table of streams, each a query of    *)
(* q_len and a response of r_len, on a connection between two endpoints in *)
(* one process.  test_api_callback, called by either endpoint, checks what *)
(* arrives, answers queries and queues the streams that follow; it decides *)
(* with test_finished when tls_api_data_sending_loop may end.              *)
(*                                                                         *)
(* The engine (picoquic) is external.  It sends one piece of a stream per  *)
(* packet, acknowledges, repeats what is lost, delivers in order, and has  *)
(* a backlog as long as something it has sent is not acknowledged.  The    *)
(* links keep the order of packets (SimLink) and may lose them.            *)
(***************************************************************************)
EXTENDS Naturals, Sequences, FiniteSets

CONSTANTS
  Scenarios,      \* the tables: stream_id, previous_stream_id, q_len, r_len of each stream
  Stopped,        \* those whose first response is stopped, as stop_sending_test does
  MaxLosses,      \* bound: packets lost
  MaxRepeats,     \* bound: packets repeated although nothing was lost
  None

Desc == [stream_id : Nat \ {0}, previous_stream_id : Nat, q_len : Nat \ {0}, r_len : Nat]

ASSUME TableAssumption ==
  /\ Scenarios \subseteq Seq(Desc)
  /\ \A table \in Scenarios : \A i, j \in DOMAIN table : table[i].stream_id = table[j].stream_id => i = j
  /\ \A table \in Scenarios : \A i \in DOMAIN table :
       \/ table[i].previous_stream_id = 0
       \/ \E j \in 1 .. i - 1 : table[j].stream_id = table[i].previous_stream_id
  /\ Stopped \subseteq Scenarios
  /\ \A table \in Stopped : table # <<>> /\ table[1].r_len # 0

ASSUME LossAssumption == MaxLosses \in Nat /\ MaxRepeats \in Nat

VARIABLES
  Scenario,       \* the table of this test
  pc,             \* where tls_api_data_sending_loop is
  at,             \* the endpoint whose picoquic_incoming_packet runs
  broke,          \* the loop ended because the test is finished
  stop_asked,     \* picoquic_stop_sending has been called
  q_sent,         \* test_stream[i].q_sent
  received,       \* test_stream[i].q_received, r_received: "no" event, "fin" or "reset"
  recv_nb,        \* test_stream[i].q_recv_nb, r_recv_nb
  test_finished,
  error_detected, \* of each endpoint's callback context
  queue,          \* engine: what each endpoint has been given to send
  sent,           \* engine: what it has sent
  acked,          \* engine: what has been acknowledged to it
  got,            \* engine: what it has received
  ackdue,         \* engine: it owes an acknowledgement
  stop_seen,      \* engine: ways whose STOP_SENDING was handed to the callback
  link,           \* the packets each endpoint has submitted, in order
  losses, repeats

engine == <<queue, sent, acked, got, ackdue, stop_seen>>
test == <<Scenario, q_sent, received, recv_nb, test_finished, error_detected>>
vars == <<pc, at, broke, stop_asked, test, engine, link, losses, repeats>>

Stream == DOMAIN Scenario

\* stop_sending_test.
StopFirst == Scenario \in Stopped

End == {"client", "server"}
Other(e) == IF e = "client" THEN "server" ELSE "client"

\* is_client_stream: the client opens the streams with even ids.
Opener(i) == IF Scenario[i].stream_id % 2 = 0 THEN "client" ELSE "server"

\* The two directions of a stream: who sends, how much.
Way == {"q", "r"} \X Stream
Sender(w) == IF w[1] = "q" THEN Opener(w[2]) ELSE Other(Opener(w[2]))
Length(w) == IF w[1] = "q" THEN Scenario[w[2]].q_len ELSE Scenario[w[2]].r_len

\* What a packet may carry of a stream: one piece of data, the last one with
\* FIN; RESET_STREAM; STOP_SENDING.
Data(w, n) == [way |-> w, kind |-> "data", n |-> n]
Reset(w) == [way |-> w, kind |-> "reset", n |-> 0]
Stop(w) == [way |-> w, kind |-> "stop", n |-> 0]
Unit == [way : Way, kind : {"data", "reset", "stop"}, n : Nat]
Packet == [unit : Unit \cup {None}, acks : SUBSET Unit]

Fail == {"larger_than_sent", "fin_received_twice", "cannot_send_response", "cannot_send_query",
         "data_does_not_match"}

TypeOK ==
  /\ Scenario \in Scenarios
  /\ pc \in {"round", "callback", "check", "end"}
  /\ at \in End
  /\ broke \in BOOLEAN /\ stop_asked \in BOOLEAN
  /\ q_sent \in [Stream -> BOOLEAN]
  /\ received \in [Way -> {"no", "fin", "reset"}]
  /\ recv_nb \in [Way -> Nat] /\ \A w \in Way : recv_nb[w] <= Length(w)
  /\ test_finished \in BOOLEAN
  /\ error_detected \in [End -> SUBSET Fail]
  /\ queue \in [End -> SUBSET Unit] /\ sent \in [End -> SUBSET Unit]
  /\ acked \in [End -> SUBSET Unit] /\ got \in [End -> SUBSET Unit]
  /\ ackdue \in [End -> BOOLEAN]
  /\ stop_seen \in SUBSET Way
  /\ link \in [End -> Seq(Packet)]
  /\ losses \in Nat /\ repeats \in Nat

-----------------------------------------------------------------------------
(***************************************************************************)
(* The engine, as far as the test uses it.                                 *)
(***************************************************************************)

AllData(w) == {Data(w, n) : n \in 1 .. Length(w)}

\* picoquic_add_to_stream fails after FIN and after a reset.
Refused(q, w) == AllData(w) \cap q # {} \/ Reset(w) \in q

Unsent(e) == queue[e] \ sent[e]

\* picoquic_is_cnx_backlog_empty looks at what may have to be repeated, not at
\* what has not been sent yet.
Flight(e) == {u \in sent[e] \ acked[e] : u.kind = "data" => Reset(u.way) \notin queue[e]}
BacklogEmpty(e) == Flight(e) = {}

\* picoquic_reset_stream: no effect after FIN; data not sent is forgotten.
AfterResetStream(q, e, w) ==
  IF Data(w, Length(w)) \in sent[e] THEN q
  ELSE {u \in q : u.way = w /\ u.kind = "data" => u \in sent[e]} \cup {Reset(w)}

\* Neither it nor its acknowledgement is on its way.
Lost(e, u) ==
  /\ \A k \in DOMAIN link[e] : link[e][k].unit # u
  /\ \A k \in DOMAIN link[Other(e)] : u \notin link[Other(e)][k].acks
  /\ ~ackdue[Other(e)]

-----------------------------------------------------------------------------
(***************************************************************************)
(* test_api_queue_initial_queries and test_api_init_send_recv_scenario.    *)
(***************************************************************************)

\* The streams that follow stream id s, up to the first whose query is refused.
FollowersUpTo(s) == {i \in Stream : Scenario[i].previous_stream_id <= s}  \* faulty: opens again
Followers(s) == {i \in Stream : Scenario[i].previous_stream_id = s}
Queued(s, q) ==
  {i \in Followers(s) : \A j \in Followers(s) : j <= i => ~Refused(q[Opener(j)], <<"q", j>>)}

WithQueries(q, opened) ==
  [e \in End |-> q[e] \cup UNION {AllData(<<"q", i>>) : i \in {j \in opened : Opener(j) = e}}]

\* more_stream == 0.
FinishedNever(opened) == FALSE                            \* faulty: the else branch alone
Finished(opened) == opened = {}

NoQueue == [e \in End |-> {}]

Init ==
  /\ Scenario \in Scenarios
  /\ pc = "round"
  /\ at = "client"
  /\ broke = FALSE
  /\ stop_asked = FALSE
  /\ q_sent = [i \in Stream |-> i \in Queued(0, NoQueue)]
  /\ received = [w \in Way |-> "no"]
  /\ recv_nb = [w \in Way |-> 0]
  /\ test_finished = (Queued(0, NoQueue) = {})
  /\ error_detected = [e \in End |-> {}]
  /\ queue = WithQueries(NoQueue, Queued(0, NoQueue))
  /\ sent = NoQueue
  /\ acked = NoQueue
  /\ got = NoQueue
  /\ ackdue = [e \in End |-> FALSE]
  /\ stop_seen = {}
  /\ link = [e \in End |-> <<>>]
  /\ losses = 0
  /\ repeats = 0

-----------------------------------------------------------------------------
(***************************************************************************)
(* tls_api_one_sim_round: an endpoint sends, or a packet arrives, or       *)
(* neither.  An engine may have reasons not to send what it has.           *)
(***************************************************************************)

Submit(e, unit) ==
  /\ pc = "round"
  /\ pc' = "check"
  /\ ackdue' = [ackdue EXCEPT ![e] = FALSE]
  /\ sent' = [sent EXCEPT ![e] = @ \cup ({unit} \ {None})]
  /\ \/ /\ link' = [link EXCEPT ![e] = Append(@, [unit |-> unit, acks |-> got[e]])]
        /\ UNCHANGED losses
     \/ /\ losses < MaxLosses
        /\ losses' = losses + 1
        /\ UNCHANGED link
  /\ UNCHANGED <<at, broke, stop_asked, test, queue, acked, got, stop_seen>>

\* The pieces of a way are sent in order.
PrepareNew(e) ==
  \E u \in Unsent(e) :
    /\ u.kind = "data" /\ u.n > 1 => Data(u.way, u.n - 1) \in sent[e]
    /\ Submit(e, u)
    /\ UNCHANGED repeats

PrepareLost(e) ==
  \E u \in Flight(e) : Lost(e, u) /\ Submit(e, u) /\ UNCHANGED repeats

PrepareAgain(e) ==
  /\ repeats < MaxRepeats
  /\ repeats' = repeats + 1
  /\ \E u \in Flight(e) : ~Lost(e, u) /\ Submit(e, u)

PrepareAck(e) == ackdue[e] /\ Submit(e, None) /\ UNCHANGED repeats

Incoming(e) ==
  /\ pc = "round"
  /\ link[Other(e)] # <<>>
  /\ link' = [link EXCEPT ![Other(e)] = Tail(@)]
  /\ LET p == Head(link[Other(e)]) IN
       /\ got' = [got EXCEPT ![e] = @ \cup ({p.unit} \ {None})]
       /\ acked' = [acked EXCEPT ![e] = @ \cup p.acks]
       /\ ackdue' = [ackdue EXCEPT ![e] = @ \/ p.unit # None]
  /\ at' = e
  /\ pc' = "callback"
  /\ UNCHANGED <<broke, stop_asked, test, queue, sent, stop_seen, losses, repeats>>

Idle ==
  /\ pc = "round"
  /\ pc' = "check"
  /\ UNCHANGED <<at, broke, stop_asked, test, engine, link, losses, repeats>>

-----------------------------------------------------------------------------
(***************************************************************************)
(* test_api_callback at the endpoint that has got a packet.                *)
(***************************************************************************)

\* The errors of test_api_receive_stream_data, for a piece n, or 0 for no data.
ReceiveErrors(w, n, event) ==
  (IF n # 0 /\ recv_nb[w] + 1 > Length(w) THEN {"larger_than_sent"} ELSE {})
    \cup (IF n # 0 /\ n # recv_nb[w] + 1 THEN {"data_does_not_match"} ELSE {})
    \cup (IF event # "no" /\ received[w] # "no" THEN {"fin_received_twice"} ELSE {})

CountsTwice(w, n) == IF n = 0 THEN recv_nb[w] ELSE recv_nb[w] + 2  \* faulty: after memcpy, too
Counts(w, n) == IF n = 0 THEN recv_nb[w] ELSE recv_nb[w] + 1

\* The query is complete and there is nothing to respond.
EndsHereAlways(w, event) == w[1] = "q"                     \* faulty: although there is a response
EndsHere(w, event) == w[1] = "q" /\ (Scenario[w[2]].r_len = 0 \/ event = "reset")

\* stream_finished: the response has ended, or the query that has none.
StreamFinishedAny(w, event) == event # "no"               \* faulty: any end
StreamFinished(w, event) == event # "no" /\ (w[1] = "r" \/ EndsHere(w, event))

\* Data, data with FIN, or a reset: received, then a response or the followers.
Event(w, n, event) ==
  LET i == w[2]
      response == <<"r", i>>
      errors == error_detected[at] \cup ReceiveErrors(w, n, event)
      responds == event # "no" /\ w[1] = "q" /\ ~EndsHere(w, event) /\ errors = {}
      follows == StreamFinished(w, event) /\ errors = {}
      opened == IF follows THEN Queued(Scenario[i].stream_id, queue) ELSE {}
  IN /\ recv_nb' = [recv_nb EXCEPT ![w] = Counts(w, n)]
     /\ received' = [v \in Way |-> IF event # "no" /\ v = response /\ EndsHere(w, event) THEN "fin"
                                   ELSE IF event # "no" /\ v = w THEN event
                                   ELSE received[v]]
     /\ q_sent' = [j \in Stream |-> q_sent[j] \/ j \in opened]
     /\ test_finished' = IF follows THEN Finished(opened) ELSE test_finished
     /\ error_detected' =
          [error_detected EXCEPT ![at] = errors
             \cup (IF responds /\ Refused(queue[at], response) THEN {"cannot_send_response"} ELSE {})
             \cup (IF follows /\ opened # Followers(Scenario[i].stream_id)
                     THEN {"cannot_send_query"} ELSE {})]
     /\ queue' = IF responds /\ ~Refused(queue[at], response)
                   THEN [queue EXCEPT ![at] = @ \cup AllData(response)]
                   ELSE WithQueries(queue, opened)
     /\ UNCHANGED <<Scenario, pc, at, broke, stop_asked, sent, acked, got, ackdue, stop_seen, link,
                    losses, repeats>>

\* The ways that end at the endpoint and have not been reset.
Open(w) == pc = "callback" /\ Sender(w) = Other(at) /\ received[w] # "reset"

Delivered(w) ==
  /\ Open(w)
  /\ recv_nb[w] < Length(w)
  /\ Data(w, recv_nb[w] + 1) \in got[at]

DataEvent(w) ==
  Delivered(w) /\ LET n == recv_nb[w] + 1 IN Event(w, n, IF n = Length(w) THEN "fin" ELSE "no")

ResetArrived(w) == Open(w) /\ recv_nb[w] < Length(w) /\ Reset(w) \in got[at]
ResetEvent(w) == ResetArrived(w) /\ Event(w, 0, "reset")

\* "Respond with a reset, no matter what".
StopArrived(w) ==
  /\ pc = "callback"
  /\ Sender(w) = at
  /\ Stop(w) \in got[at]
  /\ w \notin stop_seen
StopEvent(w) ==
  /\ StopArrived(w)
  /\ stop_seen' = stop_seen \cup {w}
  /\ queue' = [queue EXCEPT ![at] = AfterResetStream(@, at, w)]
  /\ UNCHANGED <<pc, at, broke, stop_asked, test, sent, acked, got, ackdue, link, losses, repeats>>

CallbacksDone ==
  /\ pc = "callback"
  /\ \A w \in Way : ~Delivered(w) /\ ~ResetArrived(w) /\ ~StopArrived(w)
  /\ pc' = "check"
  /\ UNCHANGED <<at, broke, stop_asked, test, engine, link, losses, repeats>>

-----------------------------------------------------------------------------
(***************************************************************************)
(* tls_api_data_sending_loop and the tests around it.                      *)
(***************************************************************************)

BreaksClient == test_finished /\ BacklogEmpty("client")   \* faulty: looks at one endpoint
Breaks == test_finished /\ BacklogEmpty("client") /\ BacklogEmpty("server")

Check ==
  /\ pc = "check"
  /\ broke' = Breaks
  /\ pc' = IF Breaks THEN "end" ELSE "round"
  /\ UNCHANGED <<at, stop_asked, test, engine, link, losses, repeats>>

\* nb_trials or nb_inactive has reached its limit.
Limit ==
  /\ pc = "round"
  /\ pc' = "end"
  /\ UNCHANGED <<at, broke, stop_asked, test, engine, link, losses, repeats>>

\* stop_sending_test: loops of 16 rounds "until some bytes are received on the
\* first stream", then picoquic_stop_sending and another loop.  Its bound of 64
\* such loops is taken to be enough: a stop that overtakes the query would reset
\* the response before it is queued, and the server's callback would fail.
LoopAgain ==
  /\ pc = "end"
  /\ StopFirst /\ ~stop_asked
  /\ recv_nb[<<"r", 1>>] = 0
  /\ pc' = "round"
  /\ broke' = FALSE
  /\ UNCHANGED <<at, stop_asked, test, engine, link, losses, repeats>>

StopSending ==
  /\ pc = "end"
  /\ StopFirst /\ ~stop_asked
  /\ recv_nb[<<"r", 1>>] # 0
  /\ stop_asked' = TRUE
  /\ queue' = [queue EXCEPT ![Opener(1)] = @ \cup {Stop(<<"r", 1>>)}]
  /\ pc' = "round"
  /\ broke' = FALSE
  /\ UNCHANGED <<at, test, sent, acked, got, ackdue, stop_seen, link, losses, repeats>>

Ended ==
  /\ pc = "end"
  /\ StopFirst => stop_asked
  /\ UNCHANGED vars

Callback == CallbacksDone \/ \E w \in Way : DataEvent(w) \/ ResetEvent(w) \/ StopEvent(w)
Prepare(e) == PrepareNew(e) \/ PrepareLost(e) \/ PrepareAgain(e) \/ PrepareAck(e)
Loop == Check \/ LoopAgain \/ StopSending

Next ==
  \/ \E e \in End : Prepare(e) \/ Incoming(e)
  \/ Callback \/ Loop \/ Idle \/ Limit \/ Ended

Spec == Init /\ [][Next]_vars

(***************************************************************************)
(* Fairness: the loop goes on; the engine does not put off for ever what   *)
(* it has to send, to repeat or to acknowledge, and packets arrive.        *)
(***************************************************************************)
Fairness ==
  /\ WF_vars(Callback) /\ WF_vars(Loop) /\ WF_vars(Idle)
  /\ \A e \in End : SF_vars(PrepareNew(e)) /\ SF_vars(PrepareLost(e)) /\ SF_vars(PrepareAck(e))
                      /\ SF_vars(Incoming(e))

FairSpec == Spec /\ Fairness

-----------------------------------------------------------------------------
(***************************************************************************)
(* Properties.                                                             *)
(***************************************************************************)

\* What tls_api_one_scenario_test verifies of each stream after the loop.
Complete(i) ==
  \A w \in {<<"q", i>>, <<"r", i>>} : recv_nb[w] = Length(w) /\ received[w] # "no"

\* Ended, be it by a reset.
Over(i) == \A w \in {<<"q", i>>, <<"r", i>>} : received[w] # "no"

\* The callbacks of the two endpoints, which share the table of streams, find
\* no error in what an engine that keeps its promises delivers: no second FIN,
\* no refused response or query.
NothingRefused == \A e \in End : error_detected[e] = {}

\* A stream that follows another is opened in the step in which that one is
\* over, at whichever endpoint its end is seen, and by nothing else: the two
\* callbacks together implement StreamTable.
Table == INSTANCE StreamTable WITH opened <- {i \in Stream : q_sent[i]},
                                   over <- {i \in Stream : Over(i)},
                                   finished <- test_finished
ImplementsTable == Table!Spec

\* test_finished is set by the end of any stream without followers, and is no
\* proof that the others are over ("TODO: check whether the test is actually
\* finished").  When the loop breaks, nothing is lost or on its way: a stream
\* that is not over waits for data that the engine has not sent at all, or to
\* be opened by such a stream.
BreakLeavesOnlyUnsent ==
  broke => \A i \in Stream :
    \/ Over(i)
    \/ q_sent[i] /\ \E w \in {<<"q", i>>, <<"r", i>>} : \E u \in Unsent(Sender(w)) : u.way = w
    \/ ~q_sent[i] /\ \E j \in Stream : Scenario[j].stream_id = Scenario[i].previous_stream_id /\ ~Over(j)

\* If each stream but the first follows the one before it, and none is stopped,
\* the loop breaks only when what the test verifies holds.
Chained == \A i \in Stream \ {1} : Scenario[i].previous_stream_id = Scenario[i - 1].stream_id
BreakIsComplete == broke /\ Chained /\ ~StopFirst => \A i \in Stream : Complete(i)

\* Losses and repetitions notwithstanding, the loop ends without its limits.
LoopEnds == <>[](pc = "end")
=============================================================================
