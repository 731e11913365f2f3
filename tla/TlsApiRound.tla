----------------------------- MODULE TlsApiRound -----------------------------
(***************************************************************************)
(* The simulated network of tls_api_test.c: two endpoints in one process,  *)
(* one clock, two links (SimLink) with one pattern of losses, and          *)
(* tls_api_one_sim_round, which lets an endpoint send or takes the packet  *)
(* that arrives next.  tls_api_test_with_loss drives it to connect         *)
(* (tls_api_connection_loop) and to close (tls_api_attempt_to_close).      *)
(*                                                                         *)
(* The engine (picoquic) is external: called, it may send or not, move on  *)
(* in the life of its connection, fail, and ask to be woken at some time.  *)
(***************************************************************************)
EXTENDS Integers, Sequences, FiniteSets

CONSTANTS
  Packet,         \* sizes of packets in bytes
  Rate,           \* picosec_per_byte of both links
  Latency,        \* microsec_latency of both links
  DelayMax,       \* queue_delay_max of both links
  Mask,           \* loss patterns, <<>> for none
  WakeDelay,      \* from a call of an endpoint to its next_wake_time
  TrialLimit,     \* 1024 in the code: rounds of tls_api_connection_loop
  InactiveLimit,  \* 512 in the code: rounds in a row without a packet
  CloseLimit,     \* 256 in the code: rounds of tls_api_attempt_to_close
  MaxStateless,   \* bound: stateless packets of the server
  None

End == {"client", "server"}
State == {"handshake", "ready", "closing", "disconnected"}

ASSUME RoundAssumption ==
  /\ Packet \subseteq Nat
  /\ Rate \in Nat /\ Latency \in Nat /\ DelayMax \in Nat
  /\ Mask \subseteq Seq(BOOLEAN)
  /\ WakeDelay \subseteq Nat
  /\ TrialLimit \in Nat /\ InactiveLimit \in Nat /\ CloseLimit \in Nat
  /\ MaxStateless \in Nat
  /\ None \notin State

VARIABLES
  pc,             \* the loop is about to "connect" or to "close", or is at its "end"; "crash"
  half,           \* of tls_api_one_sim_round: "send" or "arrive"
  ret,
  simulated_time,
  nb_trials, nb_inactive, nb_rounds,
  c_to_s_link, s_to_c_link,
  loss_mask,      \* the word the links point to
  attached,       \* the links whose pointer to it is not NULL
  pattern,        \* history: loss_mask at the start
  cnx_state,      \* of cnx_client and cnx_server; None while cnx_server is NULL
  next_wake_time,
  stateless,      \* engine: stateless packets queued at the server
  made            \* those made so far

links == <<c_to_s_link, s_to_c_link, loss_mask, attached>>
engine == <<cnx_state, next_wake_time, stateless, made>>
counts == <<nb_trials, nb_inactive, nb_rounds>>
vars == <<pc, half, ret, simulated_time, counts, links, pattern, engine>>

LinkName == {"c_to_s", "s_to_c"}

\* What a link finds at its pointer.
Word(l) == IF l \in attached THEN loss_mask ELSE <<>>

c_to_s == INSTANCE SimLink WITH
  link <- c_to_s_link, loss_mask <- Word("c_to_s"), Length <- [p \in Packet |-> p],
  Time <- Nat, Rate <- {Rate}, Latency <- {Latency}, DelayMax <- {DelayMax}, MaxSubmits <- 0
s_to_c == INSTANCE SimLink WITH
  link <- s_to_c_link, loss_mask <- Word("s_to_c"), Length <- [p \in Packet |-> p],
  Time <- Nat, Rate <- {Rate}, Latency <- {Latency}, DelayMax <- {DelayMax}, MaxSubmits <- 0

TypeOK ==
  /\ pc \in {"connect", "close", "end", "crash"}
  /\ half \in {"send", "arrive"}
  /\ ret \in {0, -1}
  /\ simulated_time \in Nat
  /\ nb_trials \in 0 .. TrialLimit
  /\ nb_inactive \in 0 .. InactiveLimit
  /\ nb_rounds \in 0 .. CloseLimit
  /\ c_to_s!TypeOK /\ s_to_c!TypeOK
  /\ loss_mask \in Seq(BOOLEAN) /\ attached \subseteq LinkName
  /\ pattern \in Mask
  /\ cnx_state \in [End -> State \cup {None}] /\ cnx_state["client"] # None
  /\ next_wake_time \in [End -> Nat]
  /\ stateless \in 0 .. MaxStateless /\ made \in 0 .. MaxStateless

-----------------------------------------------------------------------------
(***************************************************************************)
(* The engine.                                                             *)
(***************************************************************************)

\* The states a call may lead to.  A packet may make the server's connection.
After(s) ==
  CASE s = None -> {None, "handshake"}
    [] s = "handshake" -> {"handshake", "ready", "disconnected"}
    [] s = "ready" -> {"ready", "closing", "disconnected"}
    [] s = "closing" -> {"closing", "disconnected"}
    [] OTHER -> {"disconnected"}

\* The endpoints called at time t go on and say when they want to be woken.
Called(es, t) ==
  /\ cnx_state' \in {f \in [End -> State \cup {None}] :
       \A e \in End : IF e \in es THEN f[e] \in After(cnx_state[e]) ELSE f[e] = cnx_state[e]}
  /\ \E d \in [End -> WakeDelay] :
       next_wake_time' = [e \in End |-> IF e \in es THEN t + d[e] ELSE next_wake_time[e]]

-----------------------------------------------------------------------------
(***************************************************************************)
(* tls_api_init_ctx, and the start of the connection loop.                 *)
(***************************************************************************)

Init ==
  /\ pc = "connect"
  /\ half = "send"
  /\ ret = 0
  /\ simulated_time = 0
  /\ nb_trials = 0 /\ nb_inactive = 0 /\ nb_rounds = 0
  /\ c_to_s_link = c_to_s!NewLink(Rate, Latency, DelayMax, 0)
  /\ s_to_c_link = s_to_c!NewLink(Rate, Latency, DelayMax, 0)
  /\ pattern \in Mask
  /\ loss_mask = pattern /\ attached = LinkName
  /\ cnx_state = [e \in End |-> IF e = "client" THEN "handshake" ELSE None]
  /\ next_wake_time = [e \in End |-> 0]
  /\ stateless = 0 /\ made = 0

-----------------------------------------------------------------------------
(***************************************************************************)
(* tls_api_one_sim_round, first half: the server's stateless packets, then *)
(* the client, then the server.                                            *)
(***************************************************************************)

Connected(e) == cnx_state[e] \notin {None, "disconnected"}
BothReady == cnx_state["client"] = "ready" /\ cnx_state["server"] = "ready"
BothDisconnected == \A e \in End : cnx_state[e] = "disconnected"

\* The guards of the two loops.
ConnectingUnlimited == pc = "connect" /\ ret = 0 /\ nb_trials < TrialLimit /\ ~BothReady  \* faulty: any silence
ConnectingClientOnly ==                                    \* faulty: looks at the client's state
  /\ pc = "connect" /\ ret = 0 /\ nb_trials < TrialLimit /\ nb_inactive < InactiveLimit
  /\ cnx_state["client"] # "ready"
Connecting ==
  pc = "connect" /\ ret = 0 /\ nb_trials < TrialLimit /\ nb_inactive < InactiveLimit /\ ~BothReady
Closing ==
  pc = "close" /\ ret = 0 /\ ~BothDisconnected /\ nb_rounds < CloseLimit

\* With the client disconnected, the guard of the closing loop and the test
\* after it read the state of cnx_server.
Dereferences == pc = "close" /\ ret = 0 /\ cnx_state["client"] = "disconnected"

\* A round of either loop begins.
Begins ==
  /\ half = "send"
  /\ Connecting \/ Closing
  /\ ~(Dereferences /\ cnx_state["server"] = None)
  /\ IF Connecting THEN nb_trials' = nb_trials + 1 /\ UNCHANGED nb_rounds
                   ELSE nb_rounds' = nb_rounds + 1 /\ UNCHANGED nb_trials

\* was_active, which the connection loop looks at.
ActiveNoReset(was_active) ==                               \* faulty: rounds in all, not in a row
  nb_inactive' = IF pc = "connect" /\ ~was_active THEN nb_inactive + 1 ELSE nb_inactive
Active(was_active) ==
  nb_inactive' = IF pc # "connect" THEN nb_inactive ELSE IF was_active THEN 0 ELSE nb_inactive + 1

\* A packet is submitted to a link, which may rotate the word it points to.
Submitted(l) ==
  /\ loss_mask' \in IF l \in attached THEN {loss_mask, c_to_s!Rotate(loss_mask)} ELSE {loss_mask}
  /\ UNCHANGED attached
SubmitToServer(p, t) == Submitted("c_to_s") /\ c_to_s!Submit(p, t)
SubmitToClient(p, t) == Submitted("s_to_c") /\ s_to_c!Submit(p, t)

SendStateless ==
  /\ Begins
  /\ stateless > 0
  /\ stateless' = stateless - 1
  /\ simulated_time' = simulated_time + 100000
  /\ \E p \in Packet : SubmitToClient(p, simulated_time + 100000)
  /\ Active(TRUE)
  /\ UNCHANGED <<pc, half, ret, c_to_s_link, pattern, cnx_state, next_wake_time, made>>

SendClient ==
  /\ Begins
  /\ stateless = 0
  /\ Connected("client")
  /\ Called({"client"}, simulated_time)
  /\ \E p \in Packet : SubmitToServer(p, simulated_time)
  /\ Active(TRUE)
  /\ UNCHANGED <<pc, half, ret, simulated_time, s_to_c_link, pattern, stateless, made>>

ConnectedEnds == {e \in End : Connected(e)}

SendServer ==
  /\ Begins
  /\ stateless = 0
  /\ Connected("server")
  /\ Called(ConnectedEnds, simulated_time)
  /\ \E p \in Packet : SubmitToClient(p, simulated_time)
  /\ Active(TRUE)
  /\ UNCHANGED <<pc, half, ret, simulated_time, c_to_s_link, pattern, stateless, made>>

\* Neither sends.  If the client fails the server is not asked.
SendNothing ==
  /\ Begins
  /\ stateless = 0
  /\ \/ Called(ConnectedEnds, simulated_time) /\ ret' = 0
     \/ Connected("client") /\ Called({"client"}, simulated_time) /\ ret' = -1
     \/ Connected("server") /\ Called(ConnectedEnds, simulated_time) /\ ret' = -1
  /\ simulated_time' = simulated_time + 5000
  /\ half' = "arrive"
  /\ UNCHANGED <<pc, nb_inactive, links, pattern, stateless, made>>

-----------------------------------------------------------------------------
(***************************************************************************)
(* Second half: the next arrival, or the clock goes on to the time an      *)
(* endpoint wants to be woken.                                             *)
(***************************************************************************)

\* Of the earlier of the two wakes, or the one of the only connection.
WakeServerIgnored ==                                       \* faulty: the client's alone
  IF Connected("client") THEN next_wake_time["client"] ELSE simulated_time
Wake ==
  IF Connected("server") /\ (Connected("client") => next_wake_time["server"] < next_wake_time["client"])
    THEN next_wake_time["server"]
  ELSE IF Connected("client") THEN next_wake_time["client"]
  ELSE simulated_time

NextTime == IF Wake < simulated_time + 5000 THEN simulated_time + 5000 ELSE Wake

ClientArrival == s_to_c!NextArrival(NextTime)
ServerArrival == c_to_s!NextArrival(NextTime)

ClientFirstAlways == ClientArrival < NextTime              \* faulty: whatever the other link holds
ClientFirst == ClientArrival < ServerArrival /\ ClientArrival < NextTime
ServerFirst == ~ClientFirst /\ ServerArrival < NextTime

Incoming(e, t) ==
  /\ half = "arrive"
  /\ half' = "send"
  /\ simulated_time' = t
  /\ Called({e}, t)
  /\ ret' \in {0, -1}
  /\ Active(TRUE)
  /\ UNCHANGED <<pc, nb_trials, nb_rounds, loss_mask, attached, pattern>>

ArriveClient ==
  /\ ClientFirst
  /\ Incoming("client", ClientArrival)
  /\ s_to_c!Dequeue(ClientArrival)
  /\ UNCHANGED <<c_to_s_link, stateless, made>>

ArriveServer ==
  /\ ServerFirst
  /\ Incoming("server", ServerArrival)
  /\ c_to_s!Dequeue(ServerArrival)
  /\ \/ UNCHANGED <<stateless, made>>
     \/ made < MaxStateless /\ made' = made + 1 /\ stateless' = stateless + 1
  /\ UNCHANGED s_to_c_link

ArriveNothing ==
  /\ half = "arrive"
  /\ ~ClientFirst /\ ~ServerFirst
  /\ half' = "send"
  /\ simulated_time' = NextTime
  /\ Active(FALSE)
  /\ UNCHANGED <<pc, ret, nb_trials, nb_rounds, links, pattern, engine>>

-----------------------------------------------------------------------------
(***************************************************************************)
(* tls_api_attempt_to_close, and the ends of the loops.                    *)
(***************************************************************************)

\* picoquic_close fails if the connection is closing or disconnected.  Both
\* links are detached from the pattern: "Do not simulate losses there, as there
\* is no way to correct them".
DetachedClient == {"c_to_s"}                               \* faulty: the way back goes on losing
Detached == LinkName

Close ==
  /\ pc = "connect" /\ half = "send" /\ ret = 0
  /\ ~Connecting
  /\ IF cnx_state["client"] \in {"handshake", "ready"}
       THEN /\ cnx_state' = [cnx_state EXCEPT !["client"] = "closing"]
            /\ attached' = attached \ Detached
            /\ pc' = "close"
            /\ UNCHANGED ret
       ELSE /\ ret' = -1
            /\ pc' = "end"
            /\ UNCHANGED <<cnx_state, attached>>
  /\ UNCHANGED <<half, simulated_time, counts, c_to_s_link, s_to_c_link, loss_mask, pattern,
                 next_wake_time, stateless, made>>

ConnectFails ==
  /\ pc = "connect" /\ half = "send" /\ ret # 0
  /\ pc' = "end"
  /\ UNCHANGED <<half, ret, simulated_time, counts, links, pattern, engine>>

Crash ==
  /\ half = "send"
  /\ Dereferences /\ cnx_state["server"] = None
  /\ pc' = "crash"
  /\ UNCHANGED <<half, ret, simulated_time, counts, links, pattern, engine>>

Closed ==
  /\ pc = "close" /\ half = "send"
  /\ ~Closing
  /\ ~(Dereferences /\ cnx_state["server"] = None)
  /\ pc' = "end"
  /\ ret' = IF ret = 0 /\ BothDisconnected THEN 0 ELSE -1
  /\ UNCHANGED <<half, simulated_time, counts, links, pattern, engine>>

Ended == pc \in {"end", "crash"} /\ UNCHANGED vars

Send == SendStateless \/ SendClient \/ SendServer \/ SendNothing
Arrive == ArriveClient \/ ArriveServer \/ ArriveNothing

Next == Send \/ Arrive \/ Close \/ ConnectFails \/ Crash \/ Closed \/ Ended

Spec == Init /\ [][Next]_vars

-----------------------------------------------------------------------------
(***************************************************************************)
(* Properties.                                                             *)
(***************************************************************************)

\* The clock between two rounds; the second half starts with 5 ms more.
RoundTime == IF half = "arrive" THEN simulated_time - 5000 ELSE simulated_time

\* No packet waits in a link that should have arrived: of two links with a
\* clock that jumps, the earlier packet is always taken first.  (Until there is
\* a stateless packet, whose sending moves the clock.)
NothingLate ==
  made = 0 => \A l \in {c_to_s_link, s_to_c_link} :
    \A k \in DOMAIN l.packets : RoundTime <= l.packets[k].arrival_time

\* Whatever the clock does, also with stateless packets, each link delivers in
\* the order of sending.
LinksOrdered == c_to_s!ArrivalsOrdered /\ s_to_c!ArrivalsOrdered

\* From round to round the clock of the two engines never goes back, though a
\* round without a packet sets it ahead before it looks for arrivals.
ClockNeverBack == [][made = 0 => RoundTime' >= RoundTime]_vars

\* No endpoint that is connected is woken later than it asked for, but for the
\* 10 ms of an idle round: the clock does not jump over a wake time.
NoOversleep ==
  [][half = "arrive" /\ half' = "send" =>
       \A e \in End : Connected(e) =>
         simulated_time' <= simulated_time + 5000 \/ simulated_time' <= next_wake_time[e]]_vars

\* The two links take their losses from one pattern, in the order in which
\* packets are sent on either.
Taken == c_to_s_link.packets_sent + c_to_s_link.packets_dropped
           + s_to_c_link.packets_sent + s_to_c_link.packets_dropped
FromPattern(n) == pattern # <<>> /\ pattern[(n % Len(pattern)) + 1]
PatternShared ==
  pc = "connect" =>
    /\ c_to_s_link.packets_dropped + s_to_c_link.packets_dropped
         = Cardinality({n \in 0 .. Taken - 1 : FromPattern(n)})
    /\ loss_mask = [k \in DOMAIN pattern |-> FromPattern(Taken + k - 1)]

\* While the connection is closed no packet is lost on either way: a lost one
\* would not be sent again.
CloseLossless ==
  [][pc = "close" => c_to_s_link'.packets_dropped = c_to_s_link.packets_dropped
                       /\ s_to_c_link'.packets_dropped = s_to_c_link.packets_dropped]_vars

\* The connection loop that gives up for inactivity gives nothing up: no packet
\* is on its way.
QuietMeansEmpty ==
  pc = "connect" /\ half = "send" /\ nb_inactive = InactiveLimit =>
    c_to_s_link.packets = <<>> /\ s_to_c_link.packets = <<>>

\* The loops after the connection loop use cnx_server unchecked.  It is NULL only
\* if that loop has given up, at one of its limits: an engine that has said to be
\* ready, or has failed, never leads there.
CrashNeedsLimit ==
  pc = "crash" => ret = 0 /\ (nb_trials = TrialLimit \/ nb_inactive = InactiveLimit)
=============================================================================
