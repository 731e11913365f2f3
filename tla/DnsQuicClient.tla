--------------------------- MODULE DnsQuicClient ---------------------------
(***************************************************************************)
(* The DNS-over-QUIC proxy client of picoquicdemo.c: the loop quic_client, *)
(* the stream callback first_client_callback and the demo scenario it      *)
(* reuses to carry queries.                                                *)
(*                                                                         *)
(* One socket receives both the server's QUIC packets and the queries of   *)
(* the stub resolver; every datagram goes to the QUIC engine first.  A     *)
(* query is copied to buffer_final and "starts the scenario": it opens     *)
(* the streams with no previous stream.  The end of a stream opens the     *)
(* streams that follow it, each carrying whatever buffer_final holds then. *)
(* A packet of the server that holds a DNS response is cut and relayed to  *)
(* the stub.  Where a datagram comes from is told by its port alone: with  *)
(* a server at another port than 4433, the default 4443 included, what the *)
(* server sends is taken for a query.                                      *)
(*                                                                         *)
(* The QUIC engine (picoquic), the server and the stub are external.       *)
(***************************************************************************)
EXTENDS Naturals, Sequences, FiniteSets

CONSTANTS
  Stream,         \* stream ids
  Scenario,       \* test_scenario: the stream ids in the order of the table
  Previous,       \* Previous[s]: the stream that s follows, or None
  PeerStream,     \* streams the server may open
  Query,          \* queries of the stub
  Foreign,        \* a packet of the server in the place of a query
  ServerPort,     \* the ports the server may have
  StubPort,       \* the port of the stub
  ReceiveBatch,   \* PICOQUIC_DEMO_CLIENT_MAX_RECEIVE_BATCH
  Timing,         \* the values of picoquic_handshake_timing to start with
  MaxQueries,     \* bound: datagrams taken for queries
  MaxFail,        \* bound: failures of malloc, fopen, select and the engine
  None

ASSUME ScenarioAssumption ==
  /\ Scenario \in Seq(Stream)
  /\ \A k, l \in DOMAIN Scenario : Scenario[k] = Scenario[l] => k = l
  /\ Previous \in [Stream -> Stream \cup {None}]
  /\ None \notin Stream \cup Query \cup {Foreign}
  /\ Foreign \notin Query
  /\ PeerStream \subseteq Stream
  /\ \A k \in DOMAIN Scenario : Scenario[k] \notin PeerStream

ASSUME ClientBoundAssumption ==
  /\ ReceiveBatch \in Nat
  /\ MaxQueries \in Nat
  /\ MaxFail \in Nat
  /\ Timing \subseteq BOOLEAN

ASSUME PortAssumption ==
  /\ ServerPort \subseteq 1 .. 65535
  /\ StubPort \in 1 .. 65535

VARIABLES
  pc,                   \* where the thread is
  from,                 \* what select returned: "none", "server" or "stub"
  pkt,                  \* the datagram: what DNS message it holds
  server_port,          \* the port of the server
  ret,                  \* 0, or 1 for any error
  client_receive_loop,  \* datagrams received since the last chance to send
  timing,               \* picoquic_handshake_timing
  established,          \* the connection has been reported as established
  demo,                 \* callback_ctx.demo_stream # NULL
  buffer_final,         \* the last datagram taken for a query
  fin_stream_id,        \* demo_client_start_streams: its parameter, None for 0
  i,                    \* demo_client_start_streams: the entry it looks at
  streams,              \* the stream contexts, oldest first (first_stream is the last)
  nb_open_streams,      \* callback_ctx.nb_open_streams
  relayed,              \* history: responses sent to the stub
  cnx_state,            \* engine: "start", "ready" or "closed"
  queued,               \* engine: what add_to_stream accepted, with FIN
  reset_sent,           \* engine: streams the client has reset
  sent,                 \* engine: packets transmitted of the data of each stream
  rx,                   \* engine: receive side, "open", "fin" or "reset"
  queries,              \* how many datagrams were taken for queries
  fails                 \* how many failures have happened

engine == <<cnx_state, queued, reset_sent, sent, rx>>
ctx == <<streams, nb_open_streams>>
app == <<timing, server_port, demo, buffer_final>>
scan == <<fin_stream_id, i>>
vars == <<pc, from, pkt, ret, client_receive_loop, established, app, scan, ctx, relayed,
          engine, queries, fails>>

\* What a stream may carry.
Message == Query \cup {Foreign}

\* buffer_final has 1536 bytes: more than one packet carries.
StreamPackets == 2

\* open: F # NULL, in the terms of the comment at its declaration.
StreamCtx == [id : Stream, open : BOOLEAN, query : Message]

TypeOK ==
  /\ pc \in {"select", "engine", "relay", "start", "batch", "send", "exit"}
  /\ from \in {"none", "server", "stub"}
  /\ pkt \in Query \cup {None}
  /\ (from = "stub" => pkt \in Query)
  /\ server_port \in ServerPort
  /\ ret \in {0, 1}
  /\ client_receive_loop \in Nat
  /\ timing \in Timing
  /\ established \in BOOLEAN
  /\ demo \in BOOLEAN
  /\ buffer_final \in Message \cup {None}
  /\ (demo => buffer_final \in Message)
  /\ fin_stream_id \in Stream \cup {None}
  /\ i \in Nat \ {0}
  /\ streams \in Seq(StreamCtx)
  /\ nb_open_streams \in Nat
  /\ relayed \in SUBSET Query
  /\ cnx_state \in {"start", "ready", "closed"}
  /\ queued \in [Stream -> Message \cup {None}]
  /\ reset_sent \in [Stream -> BOOLEAN]
  /\ sent \in [Stream -> 0 .. StreamPackets]
  /\ rx \in [Stream -> {"open", "fin", "reset"}]
  /\ queries \in Nat
  /\ fails \in Nat

\* The engine, the connection and the first packet have been set up.
Init ==
  /\ pc = "select"
  /\ from = "none"
  /\ pkt = None
  /\ server_port \in ServerPort
  /\ ret = 0
  /\ client_receive_loop = 0
  /\ timing \in Timing
  /\ established = FALSE
  /\ demo = FALSE
  /\ buffer_final = None
  /\ fin_stream_id = None
  /\ i = 1
  /\ streams = <<>>
  /\ nb_open_streams = 0
  /\ relayed = {}
  /\ cnx_state = "start"
  /\ queued = [s \in Stream |-> None]
  /\ reset_sent = [s \in Stream |-> FALSE]
  /\ sent = [s \in Stream |-> 0]
  /\ rx = [s \in Stream |-> "open"]
  /\ queries = 0
  /\ fails = 0

-----------------------------------------------------------------------------
(***************************************************************************)
(* picoquic_select.                                                        *)
(***************************************************************************)

\* bytes_recv == 0.
SelectTimeout ==
  /\ pc = "select"
  /\ from' = "none"
  /\ pc' = "send"
  /\ UNCHANGED <<pkt, ret, client_receive_loop, established, app, scan, ctx, relayed, engine,
                 queries, fails>>

\* bytes_recv < 0: ret = -1, and the loop goes on (listen_for_ever).
SelectError ==
  /\ pc = "select"
  /\ fails < MaxFail
  /\ fails' = fails + 1
  /\ from' = "none"
  /\ ret' = 1
  /\ UNCHANGED <<pc, pkt, client_receive_loop, established, app, scan, ctx, relayed, engine, queries>>

\* print_address returns sin_port, which is in network byte order.
NetworkOrder(port) == 256 * (port % 256) + port \div 256

\* recieve_port == 20753: the port 4433.
IsServerPort(port) == NetworkOrder(port) = 20753

\* A datagram taken for a query is one of MaxQueries.
Counts(port) ==
  IF IsServerPort(port) THEN UNCHANGED queries
  ELSE queries < MaxQueries /\ queries' = queries + 1

\* A packet of the server; a DNS response in it answers a query the server got.
ReceiveServer(p) ==
  /\ pc = "select"
  /\ p # None => \E s \in Stream : sent[s] > 0 /\ queued[s] = p
  /\ Counts(server_port)
  /\ from' = "server"
  /\ pkt' = p
  /\ pc' = "engine"
  /\ UNCHANGED <<ret, client_receive_loop, established, app, scan, ctx, relayed, engine, fails>>

\* The packet that completes the handshake.
ReceiveHandshake ==
  /\ pc = "select"
  /\ cnx_state = "start"
  /\ Counts(server_port)
  /\ from' = "server"
  /\ pkt' = None
  /\ cnx_state' = "ready"
  /\ pc' = "engine"
  /\ UNCHANGED <<ret, client_receive_loop, established, app, scan, ctx, relayed,
                 queued, reset_sent, sent, rx, fails>>

ReceiveStub(q) ==
  /\ pc = "select"
  /\ Counts(StubPort)
  /\ from' = "stub"
  /\ pkt' = q
  /\ pc' = "engine"
  /\ UNCHANGED <<ret, client_receive_loop, established, app, scan, ctx, relayed, engine, fails>>

-----------------------------------------------------------------------------
(***************************************************************************)
(* demo_client_start_streams and demo_client_open_stream.                  *)
(***************************************************************************)

\* The loop over callback_ctx.demo_stream starts; without a scenario it ends.
StartStreams(s) ==
  /\ fin_stream_id' = s
  /\ i' = 1
  /\ pc' = "start"

\* The next entry of the table follows the stream.
Entry == Scenario[i]
Examines == pc = "start" /\ demo /\ i \in DOMAIN Scenario
Follows == Examines /\ Previous[Entry] = fin_stream_id

SkipEntry ==
  /\ Examines
  /\ Previous[Entry] # fin_stream_id
  /\ i' = i + 1
  /\ UNCHANGED <<pc, from, pkt, ret, client_receive_loop, established, app, fin_stream_id, ctx,
                 relayed, engine, queries, fails>>

\* picoquic_add_to_stream refuses data after FIN and after a reset.
AddToStream(q, s) ==
  IF q[s] = None /\ ~reset_sent[s] THEN [q EXCEPT ![s] = buffer_final] ELSE q

NewCtx(s, open) == [id |-> s, open |-> open, query |-> buffer_final]

\* The streams of the scenario start at 4: "stream_id == 1" never holds.
OpenStream ==
  /\ Follows
  /\ streams' = Append(streams, NewCtx(Entry, TRUE))
  /\ nb_open_streams' = nb_open_streams + 1
  /\ queued' = AddToStream(queued, Entry)
  /\ i' = i + 1
  /\ UNCHANGED <<pc, from, pkt, ret, client_receive_loop, established, app, fin_stream_id, relayed,
                 cnx_state, reset_sent, sent, rx, queries, fails>>

\* fopen failed: the context is linked and the query sent, the stream is not counted.
WithoutFileCounted == nb_open_streams + 1               \* faulty: counted all the same
WithoutFile == nb_open_streams
SentIfFile == queued                                    \* faulty: an error, so the query is not sent
SentWithoutFile == AddToStream(queued, Entry)
OpenWithoutFile ==
  /\ Follows
  /\ fails < MaxFail
  /\ fails' = fails + 1
  /\ streams' = Append(streams, NewCtx(Entry, FALSE))
  /\ nb_open_streams' = WithoutFile
  /\ queued' = SentWithoutFile
  /\ i' = i + 1
  /\ UNCHANGED <<pc, from, pkt, ret, client_receive_loop, established, app, fin_stream_id, relayed,
                 cnx_state, reset_sent, sent, rx, queries>>

\* malloc failed: "Memory error!".
OpenWithoutMemory ==
  /\ Follows
  /\ fails < MaxFail
  /\ fails' = fails + 1
  /\ i' = i + 1
  /\ UNCHANGED <<pc, from, pkt, ret, client_receive_loop, established, app, fin_stream_id, ctx,
                 relayed, engine, queries>>

\* Back to the engine from a callback, or to the loop from a query.
StartDone ==
  /\ pc = "start"
  /\ ~Examines
  /\ pc' = IF fin_stream_id = None THEN "batch" ELSE "engine"
  /\ UNCHANGED <<from, pkt, ret, client_receive_loop, established, app, scan, ctx, relayed, engine,
                 queries, fails>>

-----------------------------------------------------------------------------
(***************************************************************************)
(* picoquic_incoming_packet and first_client_callback.                     *)
(***************************************************************************)

\* The server answers a stream when it has got the data.
Live(s) ==
  /\ pc = "engine"
  /\ from = "server"
  /\ cnx_state = "ready"
  /\ sent[s] > 0 \/ s \in PeerStream
  /\ rx[s] = "open"

\* The context the search from first_stream finds: the newest one.
Ctxs(s) == {k \in DOMAIN streams : streams[k].id = s}
FoundOldest(s) == CHOOSE k \in Ctxs(s) : \A j \in Ctxs(s) : k <= j   \* faulty: searches the other way
Found(s) == CHOOSE k \in Ctxs(s) : \A j \in Ctxs(s) : j <= k
ExpectedClosed(s) == Ctxs(s) # {}                       \* faulty: without the test of F
Expected(s) == Ctxs(s) # {} /\ streams[Found(s)].open

\* picoquic_reset_stream, of no effect once FIN is out.
ResetStream(s) == reset_sent' = [reset_sent EXCEPT ![s] = @ \/ sent[s] < StreamPackets]

CloseCtx(s) ==
  /\ streams' = [streams EXCEPT ![Found(s)].open = FALSE]
  /\ nb_open_streams' = nb_open_streams - 1

\* Any event of a stream without context or without file.
Unexpected(s) ==
  /\ Live(s)
  /\ ~Expected(s)
  /\ ResetStream(s)
  /\ rx' \in {rx, [rx EXCEPT ![s] = "fin"], [rx EXCEPT ![s] = "reset"]}
  /\ UNCHANGED <<pc, from, pkt, ret, client_receive_loop, established, app, scan, ctx, relayed,
                 cnx_state, queued, sent, queries, fails>>

\* picoquic_callback_stream_reset: the streams that follow are not started.
FollowReset(s) == StartStreams(s)                       \* faulty: they are, too
AfterReset(s) == UNCHANGED <<pc, scan>>
StreamReset(s) ==
  /\ Live(s)
  /\ Expected(s)
  /\ rx' = [rx EXCEPT ![s] = "reset"]
  /\ ResetStream(s)
  /\ CloseCtx(s)
  /\ AfterReset(s)
  /\ UNCHANGED <<from, pkt, ret, client_receive_loop, established, app, relayed, cnx_state, queued,
                 sent, queries, fails>>

\* picoquic_callback_stop_sending: the context stays open.
StopSending(s) ==
  /\ Live(s)
  /\ Expected(s)
  /\ ResetStream(s)
  /\ UNCHANGED <<pc, from, pkt, ret, client_receive_loop, established, app, scan, ctx, relayed,
                 cnx_state, queued, sent, rx, queries, fails>>

\* Data with FIN: the stream is closed, its followers are started.
StreamFin(s) ==
  /\ Live(s)
  /\ Expected(s)
  /\ rx' = [rx EXCEPT ![s] = "fin"]
  /\ CloseCtx(s)
  /\ StartStreams(s)
  /\ UNCHANGED <<from, pkt, ret, client_receive_loop, established, app, relayed, cnx_state, queued,
                 reset_sent, sent, queries, fails>>

\* close or application_close: every open stream is closed.
OpenOf(list) == {k \in DOMAIN list : list[k].open}
OpenCtxs == OpenOf(streams)
Closed ==
  /\ pc = "engine"
  /\ from = "server"
  /\ cnx_state # "closed"
  /\ cnx_state' = "closed"
  /\ streams' = [k \in DOMAIN streams |-> [streams[k] EXCEPT !.open = FALSE]]
  /\ nb_open_streams' = nb_open_streams - Cardinality(OpenCtxs)
  /\ UNCHANGED <<pc, from, pkt, ret, client_receive_loop, established, app, scan, relayed, queued,
                 reset_sent, sent, rx, queries, fails>>

CountedNever == client_receive_loop                     \* faulty: the datagram is not counted
Counted == client_receive_loop + 1

\* picoquic_incoming_packet returns.
EngineReturns ==
  /\ pc = "engine"
  /\ \/ ret' = 0 /\ UNCHANGED fails
     \/ ret' = 1 /\ fails < MaxFail /\ fails' = fails + 1
  /\ client_receive_loop' = Counted
  /\ pc' = "relay"
  /\ UNCHANGED <<from, pkt, established, app, scan, ctx, relayed, engine, queries>>

-----------------------------------------------------------------------------
(***************************************************************************)
(* The rest of the loop.                                                   *)
(***************************************************************************)

\* recieve_port is that of the datagram, whoever sent it.
FromServer == IsServerPort(IF from = "server" THEN server_port ELSE StubPort)

\* The first 0x81 0x90 in buffer is looked for, and 500 bytes around it go to
\* the stub; what earlier packets left behind this one has been relayed before.
RelayResponse ==
  /\ pc = "relay"
  /\ FromServer
  /\ relayed' = relayed \cup (IF from = "server" THEN {pkt} \ {None} ELSE {})
  /\ pc' = "batch"
  /\ UNCHANGED <<from, pkt, ret, client_receive_loop, established, app, scan, ctx, engine,
                 queries, fails>>

\* Anything else is a query of the stub: "start the scenario".
StartScenario ==
  /\ pc = "relay"
  /\ ~FromServer
  /\ buffer_final' = IF from = "stub" THEN pkt ELSE Foreign
  /\ demo' = TRUE
  /\ StartStreams(None)
  /\ UNCHANGED <<timing, server_port, from, pkt, ret, client_receive_loop, established, ctx, relayed,
                 engine, queries, fails>>

BatchFull == ret = 0 /\ client_receive_loop > ReceiveBatch

\* bytes_recv > 0: go on receiving, or send first; the datagram is done with.
BatchDone ==
  /\ pc = "batch"
  /\ pc' = IF BatchFull THEN "send" ELSE "select"
  /\ from' = "none"
  /\ pkt' = None
  /\ UNCHANGED <<ret, client_receive_loop, established, app, scan, ctx, relayed, engine,
                 queries, fails>>

ReportsEstablished == ret = 0 /\ cnx_state = "ready" /\ ~established

\* picoquic_handshake_timing: exit(1) in place of the first packet.
ExitAfterHandshake ==
  /\ pc = "send"
  /\ timing
  /\ ReportsEstablished
  /\ established' = TRUE
  /\ client_receive_loop' = 0
  /\ pc' = "exit"
  /\ UNCHANGED <<from, pkt, ret, app, scan, ctx, relayed, engine,
                 queries, fails>>

\* The head of the sending branch: report, clear client_receive_loop.
Sending ==
  /\ pc = "send"
  /\ ~(timing /\ ReportsEstablished)
  /\ established' = (established \/ ReportsEstablished)
  /\ client_receive_loop' = 0
  /\ pc' = "select"
  /\ UNCHANGED <<from, pkt, app, scan, ctx, relayed, cnx_state, queued, reset_sent, rx, queries>>

Pending(s) == cnx_state = "ready" /\ queued[s] # None /\ sent[s] < StreamPackets /\ ~reset_sent[s]

\* picoquic_prepare_packet has stream data.
SendStream(s) ==
  /\ Sending
  /\ ret = 0
  /\ Pending(s)
  /\ sent' = [sent EXCEPT ![s] = @ + 1]
  /\ UNCHANGED <<ret, fails>>

\* It has only control frames, or nothing.
SendOther ==
  /\ Sending
  /\ ret = 0
  /\ cnx_state # "closed"
  /\ UNCHANGED <<ret, sent, fails>>

\* Earlier error: nothing is prepared.
SendSkipped ==
  /\ Sending
  /\ ret # 0
  /\ UNCHANGED <<ret, sent, fails>>

\* No packet buffer or an error of prepare_packet, as for a closed connection.
SendFails ==
  /\ Sending
  /\ ret = 0
  /\ ret' = 1
  /\ \/ cnx_state = "closed" /\ UNCHANGED fails
     \/ fails < MaxFail /\ fails' = fails + 1
  /\ UNCHANGED sent

Exited ==
  /\ pc = "exit"
  /\ UNCHANGED vars

-----------------------------------------------------------------------------

StreamEvent(s) == Unexpected(s) \/ StreamReset(s) \/ StopSending(s) \/ StreamFin(s)

Start == SkipEntry \/ OpenStream \/ OpenWithoutFile \/ OpenWithoutMemory \/ StartDone

Send ==
  \/ \E s \in Stream : SendStream(s)
  \/ SendOther \/ SendSkipped \/ SendFails \/ ExitAfterHandshake

Client == Start \/ EngineReturns \/ RelayResponse \/ StartScenario \/ BatchDone \/ Send \/ Exited

Select ==
  \/ SelectTimeout \/ SelectError
  \/ \E p \in Query \cup {None} : ReceiveServer(p)
  \/ ReceiveHandshake
  \/ \E q \in Query : ReceiveStub(q)

Next ==
  \/ Client
  \/ Select
  \/ Closed
  \/ \E s \in Stream : StreamEvent(s)

Spec == Init /\ [][Next]_vars

-----------------------------------------------------------------------------
(***************************************************************************)
(* Properties.                                                             *)
(***************************************************************************)

\* nb_open_streams is the number of contexts with a file, over duplicates,
\* failures of malloc and fopen, resets and closing: it decides how long the
\* loop may sleep.
OpenStreamsCounted == nb_open_streams = Cardinality(OpenCtxs)

\* The first query given to a stream is the one it carries: a query that comes
\* before the stream is finished opens a second context and is not sent on it.
FirstQueryKept ==
  \A k \in DOMAIN streams :
    (\A j \in Ctxs(streams[k].id) : k <= j) => queued[streams[k].id] = streams[k].query

\* A stream of the scenario that follows another is opened after the FIN of
\* that one, and once.
FollowersAfterFin ==
  \A k \in DOMAIN streams :
    LET s == streams[k].id IN
      Previous[s] # None => rx[Previous[s]] = "fin" /\ Ctxs(s) = {k}

\* A context hidden by a newer one of the same stream is closed by the end of
\* the connection only: its file and its place in nb_open_streams are lost.
HiddenStaysOpen ==
  [][\A k \in OpenCtxs :
       (\E j \in Ctxs(streams[k].id) : j > k) =>
          streams'[k].open \/ cnx_state' = "closed"]_vars

\* Without errors the loop goes back to select with at most ReceiveBatch
\* datagrams received since it could send.
BatchKept == pc = "select" /\ ret = 0 => client_receive_loop <= ReceiveBatch

\* The comment at picoquicdemo.c:1541 promises that the client gets to send
\* although packets keep coming.
KeepsSending == []<>(pc = "send")
=============================================================================
