-------------------------- MODULE DnsOverQuicProofs --------------------------
(***************************************************************************)
(* Theorems about DnsQuicClient, for every scenario, any number of queries *)
(* and of failures, and about DnsOverQuic, which extends it, for any       *)
(* number of streams and queries.  The lemmas about the server are those   *)
(* of DnsQuicServerProofs, of which Proxy is an instance.                  *)
(***************************************************************************)
EXTENDS DnsOverQuic, FiniteSetTheorems, WellFoundedInduction, TLAPS

-----------------------------------------------------------------------------
(***************************************************************************)
(* The client: the contexts of the streams.                                *)
(***************************************************************************)

\* The search of a stream finds its newest context.
LEMMA NewestExists ==
  ASSUME NEW m \in Nat, NEW S, S \subseteq 1 .. m, S # {}
  PROVE  \E k \in S : \A j \in S : j <= k
<1> DEFINE T == {n \in Nat : \E k \in S : n + k = m}
<1>1. T # {}
  <2>1. PICK k \in S : TRUE
    OBVIOUS
  <2>2. m - k \in Nat /\ (m - k) + k = m
    BY <2>1
  <2> QED
    BY <2>1, <2>2
<1>2. PICK n \in T : \A t \in T : ~ (<<t, n>> \in OpToRel(<, Nat))
  BY <1>1, NatLessThanWellFounded, WFMin
<1>3. PICK k \in S : n + k = m
  BY <1>2
<1>4. ASSUME NEW j \in S PROVE j <= k
  <2>0. j \in Nat /\ k \in Nat /\ n \in Nat
    <3>1. n \in Nat
      BY <1>2
    <3>2. \A e \in S : e \in Nat
      OBVIOUS
    <3> QED
      BY <1>3, <3>1, <3>2
  <2>1. m - j \in Nat /\ (m - j) + j = m
    OBVIOUS
  <2>2. m - j \in T
    BY <2>1
  <2>3. ~ (m - j < n)
    BY <1>2, <2>2 DEF OpToRel
  <2> HIDE DEF T
  <2> QED
    BY <1>3, <2>0, <2>1, <2>3
<1> QED
  BY <1>4

LEMMA FoundIsNewest ==
  ASSUME NEW s, Ctxs(s) # {}, streams \in Seq(StreamCtx)
  PROVE  Found(s) \in Ctxs(s) /\ \A j \in Ctxs(s) : j <= Found(s)
<1>1. Ctxs(s) \subseteq 1 .. Len(streams) /\ Len(streams) \in Nat
  BY DEF Ctxs
<1>2. \E k \in Ctxs(s) : \A j \in Ctxs(s) : j <= k
  BY <1>1, NewestExists
<1> QED
  BY <1>2 DEF Found

-----------------------------------------------------------------------------
(***************************************************************************)
(* How many contexts have a file, as the list changes.                     *)
(***************************************************************************)
LEMMA OpenOfFinite ==
  ASSUME NEW list \in Seq(StreamCtx)
  PROVE  IsFiniteSet(OpenOf(list)) /\ Cardinality(OpenOf(list)) \in Nat
<1>1. OpenOf(list) \in SUBSET (1 .. Len(list)) /\ Len(list) \in Nat
  BY DEF OpenOf
<1>2. IsFiniteSet(1 .. Len(list))
  BY <1>1, FS_Interval
<1> QED
  BY <1>1, <1>2, FS_Subset, FS_CardinalityType

LEMMA OpenOfAppend ==
  ASSUME NEW list \in Seq(StreamCtx), NEW c \in StreamCtx
  PROVE  /\ Append(list, c) \in Seq(StreamCtx)
         /\ Cardinality(OpenOf(Append(list, c))) =
              IF c.open THEN Cardinality(OpenOf(list)) + 1 ELSE Cardinality(OpenOf(list))
<1> DEFINE more == Append(list, c)
           n == Len(list) + 1
<1>1. /\ more \in Seq(StreamCtx) /\ DOMAIN more = DOMAIN list \cup {n} /\ n \notin DOMAIN list
      /\ more[n] = c /\ \A k \in DOMAIN list : more[k] = list[k]
  OBVIOUS
<1>2. OpenOf(more) = IF c.open THEN OpenOf(list) \cup {n} ELSE OpenOf(list)
  BY <1>1 DEF OpenOf
<1>3. n \notin OpenOf(list)
  BY <1>1 DEF OpenOf
<1> QED
  BY <1>1, <1>2, <1>3, OpenOfFinite, FS_AddElement, ZenonT(40)

LEMMA OpenOfClose ==
  ASSUME NEW list \in Seq(StreamCtx), NEW k \in OpenOf(list)
  PROVE  /\ [list EXCEPT ![k].open = FALSE] \in Seq(StreamCtx)
         /\ Cardinality(OpenOf(list)) # 0
         /\ Cardinality(OpenOf([list EXCEPT ![k].open = FALSE])) = Cardinality(OpenOf(list)) - 1
<1> DEFINE less == [list EXCEPT ![k].open = FALSE]
<1>1. k \in DOMAIN list /\ list[k] \in StreamCtx /\ list[k].open
  BY DEF OpenOf
<1>2. [list[k] EXCEPT !.open = FALSE] \in StreamCtx
  BY <1>1 DEF StreamCtx
<1>3. less \in Seq(StreamCtx) /\ DOMAIN less = DOMAIN list
  BY <1>1, <1>2
<1>4. /\ ~less[k].open
      /\ \A j \in DOMAIN list : j # k => less[j] = list[j]
  BY <1>1 DEF StreamCtx
<1>5. OpenOf(less) = OpenOf(list) \ {k}
  BY <1>3, <1>4 DEF OpenOf
<1>6. OpenOf(list) # {}
  OBVIOUS
<1> QED
  BY <1>3, <1>5, <1>6, OpenOfFinite, FS_RemoveElement, FS_EmptySet

LEMMA OpenOfClear ==
  ASSUME NEW list \in Seq(StreamCtx)
  PROVE  LET none == [k \in DOMAIN list |-> [list[k] EXCEPT !.open = FALSE]]
         IN  none \in Seq(StreamCtx) /\ Cardinality(OpenOf(none)) = 0
<1> DEFINE none == [k \in DOMAIN list |-> [list[k] EXCEPT !.open = FALSE]]
<1>1. ASSUME NEW k \in DOMAIN list PROVE none[k] \in StreamCtx /\ ~none[k].open
  <2>1. list[k] \in StreamCtx
    OBVIOUS
  <2>2. none[k] = [id |-> list[k].id, open |-> FALSE, query |-> list[k].query]
    BY <2>1 DEF StreamCtx
  <2> QED
    BY <2>1, <2>2 DEF StreamCtx
<1>2. DOMAIN none = 1 .. Len(list) /\ Len(list) \in Nat
  OBVIOUS
<1>3. none \in Seq(StreamCtx)
  BY <1>1, <1>2
<1>4. OpenOf(none) = {}
  BY <1>1 DEF OpenOf
<1> QED
  BY <1>3, <1>4, FS_EmptySet

-----------------------------------------------------------------------------
\* The two facts need each other: nb_open_streams is only decremented for a
\* context that has a file, so that it stays a natural number.
CountInv == TypeOK /\ OpenStreamsCounted

LEMMA ClientInit == Init => CountInv
<1> SUFFICES ASSUME Init PROVE CountInv
  OBVIOUS
<1>1. OpenOf(streams) = {}
  BY DEF Init, OpenOf
<1>2. OpenStreamsCounted
  BY <1>1, FS_EmptySet DEF Init, OpenStreamsCounted, OpenCtxs
<1>3. /\ streams \in Seq(StreamCtx)
      /\ queued \in [Stream -> Message \cup {None}]
      /\ reset_sent \in [Stream -> BOOLEAN]
      /\ sent \in [Stream -> 0 .. StreamPackets]
      /\ rx \in [Stream -> {"open", "fin", "reset"}]
  BY DEF Init, StreamPackets
<1>4. /\ timing \in Timing /\ server_port \in ServerPort /\ established \in BOOLEAN /\ demo \in BOOLEAN
      /\ demo => buffer_final \in Message
  BY Zenon DEF Init
<1>5. /\ nb_open_streams \in Nat /\ client_receive_loop \in Nat /\ i \in Nat \ {0}
      /\ queries \in Nat /\ fails \in Nat /\ ret \in {0, 1}
  BY DEF Init
<1>6. /\ pc \in {"select", "engine", "relay", "start", "batch", "send", "exit"}
      /\ from \in {"none", "server", "stub"} /\ from # "stub"
      /\ pkt \in Query \cup {None} /\ buffer_final \in Message \cup {None}
      /\ fin_stream_id \in Stream \cup {None}
      /\ relayed \in SUBSET Query /\ cnx_state \in {"start", "ready", "closed"}
  BY DEF Init
<1>7. TypeOK
  BY <1>3, <1>4, <1>5, <1>6 DEF TypeOK
<1> QED
  BY <1>2, <1>7 DEF CountInv

\* Opening a stream appends a context.
LEMMA OpenStep ==
  ASSUME CountInv, Follows, NEW open \in BOOLEAN,
         streams' = Append(streams, NewCtx(Entry, open)),
         nb_open_streams' = IF open THEN nb_open_streams + 1 ELSE nb_open_streams,
         queued' = AddToStream(queued, Entry), i' = i + 1
  PROVE  /\ streams' \in Seq(StreamCtx) /\ nb_open_streams' \in Nat
         /\ queued' \in [Stream -> Message \cup {None}] /\ i' \in Nat \ {0}
         /\ OpenStreamsCounted'
<1>1. Entry \in Stream
  BY ScenarioAssumption DEF Entry, Follows, Examines
<1>2. buffer_final \in Message
  BY DEF CountInv, TypeOK, Follows, Examines
<1>3. NewCtx(Entry, open) \in StreamCtx /\ (NewCtx(Entry, open).open <=> open)
  BY <1>1, <1>2 DEF NewCtx, StreamCtx
<1>4. streams' \in Seq(StreamCtx) /\ Cardinality(OpenOf(streams')) = nb_open_streams'
  BY <1>3, OpenOfAppend DEF CountInv, TypeOK, OpenStreamsCounted, OpenCtxs
<1>5. queued' \in [Stream -> Message \cup {None}]
  BY <1>1, <1>2 DEF AddToStream, CountInv, TypeOK
<1> QED
  BY <1>4, <1>5 DEF CountInv, TypeOK, OpenStreamsCounted, OpenCtxs

\* Closing the context that was found.
LEMMA CloseStep ==
  ASSUME CountInv, NEW s \in Stream, Expected(s), CloseCtx(s)
  PROVE  /\ streams' \in Seq(StreamCtx) /\ nb_open_streams' \in Nat
         /\ OpenStreamsCounted'
<1>1. streams \in Seq(StreamCtx)
  BY DEF CountInv, TypeOK
<1>2. Found(s) \in OpenOf(streams)
  BY <1>1, FoundIsNewest DEF Expected, Ctxs, OpenOf
<1>3. /\ streams' \in Seq(StreamCtx)
      /\ Cardinality(OpenOf(streams)) # 0
      /\ Cardinality(OpenOf(streams')) = Cardinality(OpenOf(streams)) - 1
  BY <1>1, <1>2, OpenOfClose DEF CloseCtx
<1> QED
  BY <1>3 DEF CloseCtx, CountInv, TypeOK, OpenStreamsCounted, OpenCtxs

LEMMA ClientStep == CountInv /\ [Next]_vars => CountInv'
<1> SUFFICES ASSUME CountInv, [Next]_vars PROVE CountInv'
  OBVIOUS
<1> USE DEF CountInv
<1>0. UNCHANGED ctx => (OpenStreamsCounted' /\ streams' \in Seq(StreamCtx) /\ nb_open_streams' \in Nat)
  BY DEF ctx, OpenStreamsCounted, OpenCtxs, TypeOK
<1>1. CASE SelectTimeout
  BY <1>0, <1>1 DEF SelectTimeout, TypeOK, app, scan, ctx, engine
<1>2. CASE SelectError
  BY <1>0, <1>2 DEF SelectError, TypeOK, app, scan, ctx, engine
<1>3. ASSUME NEW p \in Query \cup {None}, ReceiveServer(p) PROVE CountInv'
  BY <1>0, <1>3 DEF ReceiveServer, Counts, TypeOK, app, scan, ctx, engine
<1>4. CASE ReceiveHandshake
  BY <1>0, <1>4 DEF ReceiveHandshake, Counts, TypeOK, app, scan, ctx
<1>5. ASSUME NEW q \in Query, ReceiveStub(q) PROVE CountInv'
  BY <1>0, <1>5 DEF ReceiveStub, Counts, TypeOK, app, scan, ctx, engine
<1>6. CASE SkipEntry
  BY <1>0, <1>6 DEF SkipEntry, TypeOK, app, ctx, engine
<1>7. CASE OpenStream
  <2>1. /\ streams' \in Seq(StreamCtx) /\ nb_open_streams' \in Nat
        /\ queued' \in [Stream -> Message \cup {None}] /\ i' \in Nat \ {0}
        /\ OpenStreamsCounted'
    BY <1>7, OpenStep DEF OpenStream
  <2>2. UNCHANGED <<pc, from, pkt, ret, client_receive_loop, established, app, fin_stream_id,
                    relayed, cnx_state, reset_sent, sent, rx, queries, fails>>
    BY <1>7 DEF OpenStream
  <2> QED
    BY <2>1, <2>2 DEF TypeOK, app
<1>8. CASE OpenWithoutFile
  <2>1. /\ streams' \in Seq(StreamCtx) /\ nb_open_streams' \in Nat
        /\ queued' \in [Stream -> Message \cup {None}] /\ i' \in Nat \ {0}
        /\ OpenStreamsCounted'
    BY <1>8, OpenStep DEF OpenWithoutFile, WithoutFile, SentWithoutFile
  <2>2. /\ fails' = fails + 1
        /\ UNCHANGED <<pc, from, pkt, ret, client_receive_loop, established, app, fin_stream_id,
                       relayed, cnx_state, reset_sent, sent, rx, queries>>
    BY <1>8 DEF OpenWithoutFile
  <2> QED
    BY <2>1, <2>2 DEF TypeOK, app
<1>9. CASE OpenWithoutMemory
  BY <1>0, <1>9 DEF OpenWithoutMemory, TypeOK, app, ctx, engine
<1>10. CASE StartDone
  BY <1>0, <1>10 DEF StartDone, TypeOK, app, scan, ctx, engine
<1>11. ASSUME NEW s \in Stream, Unexpected(s) PROVE CountInv'
  <2>1. rx' \in [Stream -> {"open", "fin", "reset"}] /\ reset_sent' \in [Stream -> BOOLEAN]
    BY <1>11 DEF Unexpected, ResetStream, TypeOK
  <2> QED
    BY <1>0, <1>11, <2>1 DEF Unexpected, TypeOK, app, scan, ctx
<1>12. ASSUME NEW s \in Stream, StreamReset(s) PROVE CountInv'
  <2>1. /\ streams' \in Seq(StreamCtx) /\ nb_open_streams' \in Nat
        /\ OpenStreamsCounted'
    BY <1>12, CloseStep DEF StreamReset
  <2> QED
    BY <1>12, <2>1 DEF StreamReset, ResetStream, AfterReset, TypeOK, app, scan
<1>13. ASSUME NEW s \in Stream, StopSending(s) PROVE CountInv'
  BY <1>0, <1>13 DEF StopSending, ResetStream, TypeOK, app, scan, ctx
<1>14. ASSUME NEW s \in Stream, StreamFin(s) PROVE CountInv'
  <2>1. /\ streams' \in Seq(StreamCtx) /\ nb_open_streams' \in Nat
        /\ OpenStreamsCounted'
    BY <1>14, CloseStep DEF StreamFin
  <2> QED
    BY <1>14, <2>1 DEF StreamFin, StartStreams, TypeOK, app
<1>15. CASE Closed
  <2>1. nb_open_streams' = 0
    BY <1>15, OpenOfFinite DEF Closed, OpenStreamsCounted, OpenCtxs, TypeOK
  <2>2. streams' \in Seq(StreamCtx) /\ Cardinality(OpenOf(streams')) = 0
    BY <1>15, OpenOfClear DEF Closed, TypeOK
  <2> QED
    BY <1>15, <2>1, <2>2 DEF Closed, TypeOK, OpenStreamsCounted, OpenCtxs, app, scan
<1>16. CASE EngineReturns
  BY <1>0, <1>16 DEF EngineReturns, Counted, TypeOK, app, scan, ctx, engine
<1>17. CASE RelayResponse
  BY <1>0, <1>17 DEF RelayResponse, TypeOK, app, scan, ctx, engine
<1>18. CASE StartScenario
  BY <1>0, <1>18 DEF StartScenario, StartStreams, Message, TypeOK, ctx, engine
<1>19. CASE BatchDone
  BY <1>0, <1>19 DEF BatchDone, TypeOK, app, scan, ctx, engine
<1>20. CASE ExitAfterHandshake
  BY <1>0, <1>20 DEF ExitAfterHandshake, TypeOK, app, scan, ctx, engine
<1>21. ASSUME Sending, ret' \in {0, 1}, sent' \in [Stream -> 0 .. StreamPackets], fails' \in Nat
       PROVE  CountInv'
  BY <1>0, <1>21 DEF Sending, TypeOK, app, scan, ctx
<1>22. ASSUME NEW s \in Stream, SendStream(s) PROVE CountInv'
  <2>1. sent' \in [Stream -> 0 .. StreamPackets]
    BY <1>22 DEF SendStream, Pending, TypeOK, StreamPackets
  <2> QED
    BY <1>21, <1>22, <2>1 DEF SendStream, TypeOK
<1>23. CASE SendOther \/ SendSkipped \/ SendFails
  BY <1>21, <1>23 DEF SendOther, SendSkipped, SendFails, TypeOK
<1>24. CASE UNCHANGED vars
  BY <1>0, <1>24 DEF vars, TypeOK, app, scan, ctx, engine
<1> QED
  BY <1>1, <1>2, <1>3, <1>4, <1>5, <1>6, <1>7, <1>8, <1>9, <1>10, <1>11, <1>12, <1>13, <1>14,
     <1>15, <1>16, <1>17, <1>18, <1>19, <1>20, <1>22, <1>23, <1>24
     DEF Next, Client, Start, Send, Select, StreamEvent, Exited

\* Type correctness of the client; nb_open_streams, an int in the code, never
\* goes below 0.
THEOREM ClientTypeCorrect == Spec => []TypeOK
<1>1. CountInv => TypeOK
  BY DEF CountInv
<1> QED
  BY <1>1, ClientInit, ClientStep, PTL DEF Spec

\* nb_open_streams counts the contexts with a file, whatever queries, resets,
\* failures and closings come in between.
THEOREM CountedStreams == Spec => []OpenStreamsCounted
<1>1. CountInv => OpenStreamsCounted
  BY DEF CountInv
<1> QED
  BY <1>1, ClientInit, ClientStep, PTL DEF Spec

\* The loop never receives more than a batch without errors before it sends.
THEOREM BatchIsKept == Spec => []BatchKept
<1>0. ReceiveBatch \in Nat
  BY ClientBoundAssumption
<1>1. Init => BatchKept
  BY <1>0 DEF Init, BatchKept
<1>2. BatchKept /\ TypeOK /\ [Next]_vars => BatchKept'
  <2> SUFFICES ASSUME BatchKept, TypeOK, [Next]_vars PROVE BatchKept'
    OBVIOUS
  <2>1. CASE BatchDone
    BY <1>0, <2>1 DEF BatchDone, BatchFull, BatchKept, TypeOK
  <2>2. CASE pc' = "select" /\ client_receive_loop' = 0
    BY <1>0, <2>2 DEF BatchKept
  <2>3. CASE ret' = 1
    BY <2>3 DEF BatchKept
  <2>4. CASE pc' # "select"
    BY <2>4 DEF BatchKept
  <2>5. CASE UNCHANGED <<pc, ret, client_receive_loop>>
    BY <2>5 DEF BatchKept
  <2>6. ASSUME Sending PROVE pc' = "select" /\ client_receive_loop' = 0
    BY <2>6 DEF Sending
  <2>7. CASE Select
    BY <2>7, <2>3, <2>4 DEF Select, SelectTimeout, SelectError, ReceiveServer, ReceiveHandshake, ReceiveStub
  <2>8. CASE Start
    BY <2>8, <2>4 DEF Start, SkipEntry, OpenStream, OpenWithoutFile, OpenWithoutMemory, StartDone, Examines,
       Follows
  <2>9. ASSUME NEW s \in Stream, StreamEvent(s) PROVE pc' # "select"
    BY <2>9 DEF StreamEvent, Unexpected, StreamReset, AfterReset, StopSending, StreamFin, StartStreams, Live
  <2>10. CASE Send
    BY <2>10, <2>2, <2>4, <2>6 DEF Send, SendStream, SendOther, SendSkipped, SendFails, ExitAfterHandshake
  <2>11. CASE Closed \/ EngineReturns \/ RelayResponse \/ StartScenario
    BY <2>11, <2>4 DEF Closed, EngineReturns, Counted, RelayResponse, StartScenario, StartStreams
  <2>12. CASE Exited \/ UNCHANGED vars
    BY <2>12, <2>5 DEF Exited, vars
  <2> QED
    BY <2>1, <2>4, <2>7, <2>8, <2>9, <2>10, <2>11, <2>12 DEF Next, Client
<1> QED
  BY <1>1, <1>2, ClientTypeCorrect, PTL DEF Spec

-----------------------------------------------------------------------------
(***************************************************************************)
(* A step appends one context for the entry of the scenario, or keeps the  *)
(* streams and the queries of all.                                         *)
(***************************************************************************)
KeepsCtxs ==
  /\ DOMAIN streams' = DOMAIN streams
  /\ \A k \in DOMAIN streams : /\ streams'[k].id = streams[k].id
                              /\ streams'[k].query = streams[k].query

Opens == \E open \in BOOLEAN :
  /\ Follows
  /\ streams' = Append(streams, NewCtx(Entry, open))
  /\ queued' = AddToStream(queued, Entry)
  /\ i' = i + 1
  /\ UNCHANGED <<pc, fin_stream_id, cnx_state, reset_sent, sent, rx>>

LEMMA EntryFacts ==
  ASSUME TypeOK, Follows
  PROVE  Entry \in Stream /\ Entry \notin PeerStream /\ buffer_final \in Message
         /\ \A open \in BOOLEAN : NewCtx(Entry, open) \in StreamCtx
<1>1. Entry \in Stream /\ Entry \notin PeerStream /\ buffer_final \in Message
  BY ScenarioAssumption DEF Follows, Examines, Entry, TypeOK
<1> QED
  BY <1>1 DEF NewCtx, StreamCtx

LEMMA OpensFacts ==
  ASSUME TypeOK, Opens
  PROVE  /\ Entry \in Stream /\ Entry \notin PeerStream /\ buffer_final \in Message
         /\ pc = "start" /\ demo /\ i \in DOMAIN Scenario /\ Previous[Entry] = fin_stream_id
         /\ DOMAIN streams' = DOMAIN streams \cup {Len(streams) + 1}
         /\ \A k \in DOMAIN streams : streams'[k] = streams[k] /\ k < Len(streams) + 1
         /\ Len(streams) + 1 \notin DOMAIN streams
         /\ streams'[Len(streams) + 1].id = Entry
         /\ streams'[Len(streams) + 1].query = buffer_final
         /\ \A s : Ctxs(s)' = IF s = Entry THEN Ctxs(s) \cup {Len(streams) + 1} ELSE Ctxs(s)
<1>1. PICK open \in BOOLEAN : Follows /\ streams' = Append(streams, NewCtx(Entry, open))
  BY DEF Opens
<1>2. Entry \in Stream /\ Entry \notin PeerStream /\ buffer_final \in Message /\ NewCtx(Entry, open) \in StreamCtx
  BY <1>1, EntryFacts
<1>3. streams \in Seq(StreamCtx)
  BY DEF TypeOK
<1>4. /\ DOMAIN streams' = DOMAIN streams \cup {Len(streams) + 1}
      /\ \A k \in DOMAIN streams : streams'[k] = streams[k] /\ k < Len(streams) + 1
      /\ Len(streams) + 1 \notin DOMAIN streams
      /\ streams'[Len(streams) + 1] = NewCtx(Entry, open)
  BY <1>1, <1>2, <1>3
<1>5. NewCtx(Entry, open).id = Entry /\ NewCtx(Entry, open).query = buffer_final
  BY DEF NewCtx
<1>6. \A s : Ctxs(s)' = IF s = Entry THEN Ctxs(s) \cup {Len(streams) + 1} ELSE Ctxs(s)
  BY <1>4, <1>5 DEF Ctxs
<1> QED
  BY <1>1, <1>2, <1>4, <1>5, <1>6 DEF Follows, Examines

\* Closing what was found keeps the others.
LEMMA CloseKeeps ==
  ASSUME TypeOK, NEW s, Expected(s), CloseCtx(s)
  PROVE  KeepsCtxs /\ \A k \in DOMAIN streams : k # Found(s) => streams'[k] = streams[k]
<1>1. streams \in Seq(StreamCtx) /\ Found(s) \in DOMAIN streams
  BY FoundIsNewest DEF TypeOK, Expected, Ctxs
<1>2. streams[Found(s)] \in StreamCtx
  BY <1>1
<1> QED
  BY <1>1, <1>2 DEF CloseCtx, KeepsCtxs, StreamCtx

LEMMA ClearKeeps ==
  ASSUME TypeOK, Closed
  PROVE  KeepsCtxs
<1>1. streams \in Seq(StreamCtx)
  BY DEF TypeOK
<1>2. \A k \in DOMAIN streams : streams[k] \in StreamCtx
  BY <1>1
<1> QED
  BY <1>2 DEF Closed, KeepsCtxs, StreamCtx

LEMMA OpenOrKeep ==
  ASSUME TypeOK, [Next]_vars
  PROVE  Opens \/ (KeepsCtxs /\ queued' = queued)
<1>1. CASE OpenStream \/ OpenWithoutFile
  BY <1>1 DEF OpenStream, OpenWithoutFile, SentWithoutFile, Opens
<1>2. ASSUME NEW s \in Stream, StreamReset(s) \/ StreamFin(s) PROVE KeepsCtxs /\ queued' = queued
  BY <1>2, CloseKeeps DEF StreamReset, StreamFin
<1>3. CASE Closed
  BY <1>3, ClearKeeps DEF Closed
<1>4. CASE UNCHANGED <<streams, queued>>
  BY <1>4 DEF KeepsCtxs
<1> QED
  BY <1>1, <1>2, <1>3, <1>4 DEF Next, Client, Start, Send, Select, StreamEvent, vars, engine, ctx,
     SelectTimeout, SelectError, ReceiveServer, ReceiveHandshake, ReceiveStub, SkipEntry,
     OpenWithoutMemory, StartDone, Unexpected, StopSending, EngineReturns, RelayResponse,
     StartScenario, BatchDone, ExitAfterHandshake, Sending, SendStream, SendOther, SendSkipped,
     SendFails, Exited

LEMMA KeepsSame == ASSUME KeepsCtxs PROVE \A s : Ctxs(s)' = Ctxs(s)
BY DEF KeepsCtxs, Ctxs

-----------------------------------------------------------------------------
(***************************************************************************)
(* FirstQueryKept: what is queued never changes, and add_to_stream accepts *)
(* the query of the first context because nothing resets a stream of the   *)
(* scenario before it carries data.                                        *)
(***************************************************************************)
FirstInv ==
  /\ \A s \in Stream : Ctxs(s) = {} <=> queued[s] = None
  /\ \A s \in Stream : queued[s] = None => sent[s] = 0
  /\ \A s \in Stream : reset_sent[s] => sent[s] > 0 \/ s \in PeerStream
  /\ FirstQueryKept

LEMMA FirstInit == Init => FirstInv
BY DEF Init, FirstInv, FirstQueryKept, Ctxs

\* The engine's own flags, step by step.
LEMMA FlagsStep ==
  ASSUME TypeOK, FirstInv, [Next]_vars, ~Opens
  PROVE  /\ \A s \in Stream : queued[s] = None => sent'[s] = 0
         /\ \A s \in Stream : reset_sent'[s] => sent'[s] > 0 \/ s \in PeerStream
<1>1. ASSUME NEW t \in Stream, SendStream(t)
      PROVE  /\ \A s \in Stream : queued[s] = None => sent'[s] = 0
             /\ \A s \in Stream : reset_sent'[s] => sent'[s] > 0 \/ s \in PeerStream
  BY <1>1 DEF SendStream, Sending, Pending, FirstInv, TypeOK
<1>2. ASSUME NEW t \in Stream, Live(t), ResetStream(t), sent' = sent
      PROVE  /\ \A s \in Stream : queued[s] = None => sent'[s] = 0
             /\ \A s \in Stream : reset_sent'[s] => sent'[s] > 0 \/ s \in PeerStream
  BY <1>2 DEF ResetStream, Live, FirstInv, TypeOK
<1>3. CASE UNCHANGED <<sent, reset_sent>>
  BY <1>3 DEF FirstInv
<1>4. ASSUME NEW t \in Stream, StreamEvent(t)
      PROVE  (Live(t) /\ ResetStream(t) /\ sent' = sent) \/ UNCHANGED <<sent, reset_sent>>
  BY <1>4 DEF StreamEvent, Unexpected, StreamReset, StopSending, StreamFin
<1> QED
  BY <1>1, <1>2, <1>3, <1>4 DEF Next, Client, Start, Send, Select, vars, engine,
     SelectTimeout, SelectError, ReceiveServer, ReceiveHandshake, ReceiveStub, SkipEntry, OpenStream,
     OpenWithoutFile, OpenWithoutMemory, StartDone, Closed, EngineReturns, RelayResponse,
     StartScenario, BatchDone, ExitAfterHandshake, Sending, SendOther, SendSkipped, SendFails, Exited

\* FirstQueryKept of any list of contexts and any queue.
KeptBy(list, q) ==
  \A k \in DOMAIN list :
    (\A j \in DOMAIN list : list[j].id = list[k].id => k <= j) => q[list[k].id] = list[k].query

LEMMA KeptIsFirst ==
  /\ FirstQueryKept <=> KeptBy(streams, queued)
  /\ FirstQueryKept' <=> KeptBy(streams', queued')
<1>1. FirstQueryKept <=> KeptBy(streams, queued)
  BY DEF FirstQueryKept, KeptBy, Ctxs
<1>2. FirstQueryKept' <=> KeptBy(streams', queued')
  BY DEF FirstQueryKept, KeptBy, Ctxs
<1> QED
  BY <1>1, <1>2

LEMMA KeptAppend ==
  ASSUME NEW list \in Seq(StreamCtx), NEW c \in StreamCtx, NEW q, NEW r, KeptBy(list, q),
         \A k \in DOMAIN list : r[list[k].id] = q[list[k].id],
         (\E k \in DOMAIN list : list[k].id = c.id) \/ r[c.id] = c.query
  PROVE  KeptBy(Append(list, c), r)
<1> DEFINE n == Len(list) + 1
           new == Append(list, c)
<1>1. /\ DOMAIN new = DOMAIN list \cup {n} /\ new[n] = c
      /\ \A k \in DOMAIN list : new[k] = list[k] /\ k \in Nat /\ n \in Nat /\ k < n
  OBVIOUS
<1> HIDE DEF n, new
<1>2. ASSUME NEW k \in DOMAIN new, \A j \in DOMAIN new : new[j].id = new[k].id => k <= j
      PROVE  r[new[k].id] = new[k].query
  <2>1. CASE k = n
    <3>1. ASSUME NEW j \in DOMAIN list, list[j].id = c.id PROVE FALSE
      <4>1. k <= j
        BY <1>1, <1>2, <2>1, <3>1
      <4> QED
        BY <1>1, <2>1, <4>1
    <3> QED
      BY <1>1, <2>1, <3>1
  <2>2. CASE k \in DOMAIN list
    <3>1. \A j \in DOMAIN list : list[j].id = list[k].id => k <= j
      BY <1>1, <1>2, <2>2
    <3>2. q[list[k].id] = list[k].query
      BY <2>2, <3>1 DEF KeptBy
    <3> QED
      BY <1>1, <2>2, <3>2
  <2> QED
    BY <1>1, <2>1, <2>2
<1> QED
  BY <1>2 DEF KeptBy, new

LEMMA OpensKeepsFirst ==
  ASSUME TypeOK, FirstQueryKept, Opens,
         \A k \in DOMAIN streams : queued'[streams[k].id] = queued[streams[k].id],
         (\E k \in DOMAIN streams : streams[k].id = Entry) \/ queued'[Entry] = buffer_final
  PROVE  FirstQueryKept'
<1>1. PICK open \in BOOLEAN : Follows /\ streams' = Append(streams, NewCtx(Entry, open))
  BY DEF Opens
<1>2. NewCtx(Entry, open) \in StreamCtx
  BY <1>1, EntryFacts
<1>3. NewCtx(Entry, open).id = Entry /\ NewCtx(Entry, open).query = buffer_final
  BY DEF NewCtx
<1>4. KeptBy(streams, queued) /\ streams \in Seq(StreamCtx)
  BY KeptIsFirst DEF TypeOK
<1>5. KeptBy(streams', queued')
  BY <1>1, <1>2, <1>3, <1>4, KeptAppend
<1> QED
  BY <1>5, KeptIsFirst

LEMMA FirstStep == TypeOK /\ FirstInv /\ [Next]_vars => FirstInv'
<1> SUFFICES ASSUME TypeOK, FirstInv, [Next]_vars PROVE FirstInv'
  OBVIOUS
<1>1. CASE Opens
  <2>1. UNCHANGED <<reset_sent, sent>> /\ queued' = AddToStream(queued, Entry)
    BY <1>1 DEF Opens
  <2>2. CASE Ctxs(Entry) = {}
    <3>1. queued[Entry] = None /\ ~reset_sent[Entry]
      BY <1>1, <2>2, OpensFacts DEF FirstInv, TypeOK
    <3>2. queued' = [queued EXCEPT ![Entry] = buffer_final]
      BY <2>1, <3>1 DEF AddToStream
    <3>3. buffer_final # None
      BY <1>1, OpensFacts, ScenarioAssumption DEF Message
    <3>4. queued'[Entry] = buffer_final /\ \A s \in Stream \ {Entry} : queued'[s] = queued[s]
      BY <1>1, <3>2, OpensFacts DEF TypeOK
    <3>5. FirstQueryKept'
      <4>1. streams \in Seq(StreamCtx)
        BY DEF TypeOK
      <4>2. \A k \in DOMAIN streams : streams[k].id \in Stream \ {Entry}
        <5>1. \A k \in DOMAIN streams : streams[k] \in StreamCtx
          BY <4>1
        <5> QED
          BY <2>2, <5>1 DEF Ctxs, StreamCtx
      <4> QED
        BY <1>1, <3>4, <4>2, OpensKeepsFirst DEF FirstInv
    <3>6. /\ \A s \in Stream : Ctxs(s)' = {} <=> queued'[s] = None
          /\ \A s \in Stream : queued'[s] = None => sent'[s] = 0
          /\ \A s \in Stream : reset_sent'[s] => sent'[s] > 0 \/ s \in PeerStream
      BY <1>1, <2>1, <3>3, <3>4, OpensFacts DEF FirstInv
    <3> QED
      BY <3>5, <3>6 DEF FirstInv
  <2>3. CASE Ctxs(Entry) # {}
    <3>1. queued' = queued
      BY <1>1, <2>1, <2>3, OpensFacts DEF FirstInv, AddToStream
    <3>2. FirstQueryKept'
      BY <1>1, <2>3, <3>1, OpensKeepsFirst DEF FirstInv, Ctxs
    <3> QED
      BY <1>1, <2>1, <2>3, <3>1, <3>2, OpensFacts DEF FirstInv
  <2> QED
    BY <2>2, <2>3
<1>2. CASE ~Opens
  <2>1. KeepsCtxs /\ queued' = queued /\ \A s : Ctxs(s)' = Ctxs(s)
    BY <1>2, OpenOrKeep, KeepsSame
  <2>2. FirstQueryKept'
    BY <2>1 DEF FirstInv, FirstQueryKept, KeepsCtxs
  <2> QED
    BY <1>2, <2>1, <2>2, FlagsStep DEF FirstInv
<1> QED
  BY <1>1, <1>2

\* A stream carries the query of its first context: a second query of the stub
\* for a stream that is not finished is not transmitted on it.
THEOREM FirstQueryIsKept == Spec => []FirstQueryKept
<1>1. FirstInv => FirstQueryKept
  BY DEF FirstInv
<1> QED
  BY <1>1, FirstInit, FirstStep, ClientTypeCorrect, PTL DEF Spec

-----------------------------------------------------------------------------
(***************************************************************************)
(* HiddenStaysOpen: what is closed is what the search finds, the newest.   *)
(***************************************************************************)

LEMMA HiddenStep ==
  ASSUME TypeOK, [Next]_vars, NEW k \in OpenCtxs, NEW j \in Ctxs(streams[k].id), j > k
  PROVE  streams'[k].open \/ cnx_state' = "closed"
<1>1. k \in DOMAIN streams /\ streams[k].open
  BY DEF OpenCtxs, OpenOf
<1>2. CASE OpenStream \/ OpenWithoutFile
  BY <1>1, <1>2, OpensFacts DEF OpenStream, OpenWithoutFile, SentWithoutFile, Opens
<1>3. ASSUME NEW s \in Stream, Expected(s), CloseCtx(s) PROVE streams'[k].open
  <2>1. streams \in Seq(StreamCtx) /\ DOMAIN streams \subseteq Nat
    BY DEF TypeOK
  <2>2. \A l \in Ctxs(s) : l <= Found(s)
    BY <1>3, <2>1, FoundIsNewest DEF Expected
  <2>3. Found(s) \in Ctxs(s)
    BY <1>3, <2>1, FoundIsNewest DEF Expected
  <2>4. k # Found(s)
    BY <1>1, <2>1, <2>2, <2>3 DEF Ctxs
  <2> QED
    BY <1>1, <1>3, <2>4, CloseKeeps
<1>4. ASSUME NEW s \in Stream, StreamReset(s) \/ StreamFin(s) PROVE streams'[k].open
  BY <1>3, <1>4 DEF StreamReset, StreamFin
<1>5. CASE Closed
  BY <1>5 DEF Closed
<1>6. CASE UNCHANGED streams
  BY <1>1, <1>6
<1> QED
  BY <1>2, <1>4, <1>5, <1>6 DEF Next, Client, Start, Send, Select, StreamEvent, vars, engine, ctx,
     SelectTimeout, SelectError, ReceiveServer, ReceiveHandshake, ReceiveStub, SkipEntry,
     OpenWithoutMemory, StartDone, Unexpected, StopSending, EngineReturns, RelayResponse,
     StartScenario, BatchDone, ExitAfterHandshake, Sending, SendStream, SendOther, SendSkipped,
     SendFails, Exited

\* A context behind a newer one of its stream is never closed before the
\* connection is.
THEOREM HiddenIsLost == Spec => HiddenStaysOpen
<1>1. TypeOK /\ [Next]_vars =>
        [\A k \in OpenCtxs :
           (\E j \in Ctxs(streams[k].id) : j > k) => streams'[k].open \/ cnx_state' = "closed"]_vars
  BY HiddenStep
<1> QED
  BY <1>1, ClientTypeCorrect, PTL DEF Spec, HiddenStaysOpen

-----------------------------------------------------------------------------
(***************************************************************************)
(* FollowersAfterFin: the end of a stream is reported once, and the entries *)
(* still to be looked at have no context yet.                              *)
(***************************************************************************)
FollowInv ==
  /\ FollowersAfterFin
  /\ pc = "start" /\ fin_stream_id # None =>
       /\ rx[fin_stream_id] = "fin"
       /\ \A k \in DOMAIN Scenario :
            k >= i /\ Previous[Scenario[k]] = fin_stream_id => Ctxs(Scenario[k]) = {}

\* FollowersAfterFin with its streams in the place of their contexts.
Followers ==
  \A k \in DOMAIN streams :
    Previous[streams[k].id] # None =>
      rx[Previous[streams[k].id]] = "fin" /\ Ctxs(streams[k].id) = {k}

LEMMA FollowersSame ==
  /\ FollowersAfterFin <=> Followers
  /\ FollowersAfterFin' <=> Followers'
<1>1. FollowersAfterFin <=> Followers
  BY DEF FollowersAfterFin, Followers
<1>2. FollowersAfterFin' <=> Followers'
  BY DEF FollowersAfterFin, Followers, Ctxs
<1> QED
  BY <1>1, <1>2

LEMMA FollowInit == Init => FollowInv
BY DEF Init, FollowInv, FollowersAfterFin

LEMMA FollowOpens ==
  ASSUME TypeOK, FollowInv, Opens
  PROVE  FollowInv'
<1> DEFINE n == Len(streams) + 1
<1>1. UNCHANGED <<pc, fin_stream_id, rx>> /\ i' = i + 1 /\ i \in Nat
  BY DEF Opens, TypeOK
<1>2. pc = "start" /\ i \in DOMAIN Scenario /\ Previous[Entry] = fin_stream_id /\ Entry = Scenario[i]
  BY OpensFacts DEF Entry
<1>3. DOMAIN streams' = DOMAIN streams \cup {n} /\ streams'[n].id = Entry
  BY OpensFacts
<1>4. \A s : Ctxs(s)' = IF s = Entry THEN Ctxs(s) \cup {n} ELSE Ctxs(s)
  BY OpensFacts
<1>5. \A k \in DOMAIN streams : streams'[k] = streams[k]
  BY OpensFacts
<1>6. fin_stream_id # None => rx[fin_stream_id] = "fin" /\ Ctxs(Entry) = {}
  BY <1>1, <1>2 DEF FollowInv
<1>7. FollowersAfterFin'
  <2>1. ASSUME NEW k \in DOMAIN streams', NEW t, t = streams'[k].id, Previous[t] # None
        PROVE  rx'[Previous[t]] = "fin" /\ Ctxs(t)' = {k}
    <3>1. CASE k = n
      <4>1. t = Entry /\ k \in DOMAIN streams'
        BY <1>3, <2>1, <3>1
      <4>2. fin_stream_id # None /\ rx'[Previous[t]] = "fin"
        BY <1>1, <1>2, <1>6, <2>1, <4>1
      <4>3. Ctxs(t)' = Ctxs(Entry) \cup {n}
        BY <1>4, <4>1
      <4> QED
        BY <1>6, <3>1, <4>2, <4>3
    <3>2. CASE k \in DOMAIN streams
      <4>1. streams[k].id # Entry
        <5>1. k \in Ctxs(streams[k].id)
          BY <3>2 DEF Ctxs
        <5> QED
          BY <1>2, <1>5, <1>6, <2>1, <3>2, <5>1
      <4>2. rx[Previous[streams[k].id]] = "fin" /\ Ctxs(streams[k].id) = {k}
        BY <1>5, <2>1, <3>2 DEF FollowInv, FollowersAfterFin
      <4> QED
        BY <1>1, <1>4, <1>5, <2>1, <3>2, <4>1, <4>2
    <3> QED
      BY <1>3, <3>1, <3>2
  <2>2. Followers'
    BY <2>1 DEF Followers, Ctxs
  <2> QED
    BY <2>2, FollowersSame
<1>8. ASSUME fin_stream_id # None, NEW k \in DOMAIN Scenario, k >= i + 1,
             Previous[Scenario[k]] = fin_stream_id
      PROVE  Ctxs(Scenario[k])' = {}
  <2>1. k \in Nat /\ k >= i /\ k # i
    BY <1>1, <1>8, ScenarioAssumption
  <2>2. Ctxs(Scenario[k]) = {}
    BY <1>2, <1>8, <2>1 DEF FollowInv
  <2>3. Scenario[k] # Entry
    BY <1>2, <2>1, ScenarioAssumption
  <2> QED
    BY <1>4, <2>2, <2>3
<1> QED
  BY <1>1, <1>6, <1>7, <1>8 DEF FollowInv

LEMMA FollowKeeps ==
  ASSUME FollowersAfterFin, KeepsCtxs, \A s \in Stream : rx[s] = "fin" => rx'[s] = "fin", TypeOK
  PROVE  FollowersAfterFin'
<1>1. \A s : Ctxs(s)' = Ctxs(s)
  BY KeepsSame
<1>2. streams \in Seq(StreamCtx)
  BY DEF TypeOK
<1>3. \A k \in DOMAIN streams : streams[k].id \in Stream
  <2>1. \A k \in DOMAIN streams : streams[k] \in StreamCtx
    BY <1>2
  <2> QED
    BY <2>1 DEF StreamCtx
<1>4. \A k \in DOMAIN streams : Previous[streams[k].id] # None => Previous[streams[k].id] \in Stream
  BY <1>3, ScenarioAssumption
<1>5. ASSUME NEW k \in DOMAIN streams', NEW t, t = streams'[k].id, Previous[t] # None
      PROVE  rx'[Previous[t]] = "fin" /\ Ctxs(t)' = {k}
  <2>1. k \in DOMAIN streams /\ streams'[k].id = streams[k].id
    BY <1>5 DEF KeepsCtxs
  <2>2. rx[Previous[streams[k].id]] = "fin" /\ Ctxs(streams[k].id) = {k}
    BY <1>5, <2>1 DEF FollowersAfterFin
  <2> QED
    BY <1>1, <1>4, <1>5, <2>1, <2>2
<1>6. Followers'
  BY <1>5 DEF Followers, Ctxs
<1> QED
  BY <1>6, FollowersSame

\* The receive side of a stream ends once.
LEMMA RxStep ==
  ASSUME TypeOK, [Next]_vars
  PROVE  \A s \in Stream : rx[s] = "fin" => rx'[s] = "fin"
<1>1. ASSUME NEW t \in Stream, StreamEvent(t) PROVE \A s \in Stream : rx[s] = "fin" => rx'[s] = "fin"
  BY <1>1 DEF StreamEvent, Unexpected, StreamReset, StopSending, StreamFin, Live, TypeOK
<1>2. CASE UNCHANGED rx
  BY <1>2
<1> QED
  BY <1>1, <1>2 DEF Next, Client, Start, Send, Select, vars, engine,
     SelectTimeout, SelectError, ReceiveServer, ReceiveHandshake, ReceiveStub, SkipEntry, OpenStream,
     OpenWithoutFile, OpenWithoutMemory, StartDone, Closed, EngineReturns, RelayResponse,
     StartScenario, BatchDone, ExitAfterHandshake, Sending, SendStream, SendOther, SendSkipped,
     SendFails, Exited

LEMMA FollowStep == TypeOK /\ FollowInv /\ [Next]_vars => FollowInv'
<1> SUFFICES ASSUME TypeOK, FollowInv, [Next]_vars PROVE FollowInv'
  OBVIOUS
<1>1. CASE Opens
  BY <1>1, FollowOpens
<1>2. CASE ~Opens
  <2>1. KeepsCtxs /\ \A s : Ctxs(s)' = Ctxs(s)
    BY <1>2, OpenOrKeep, KeepsSame
  <2>2. FollowersAfterFin'
    BY <2>1, RxStep, FollowKeeps DEF FollowInv
  <2>3. CASE pc' # "start" \/ fin_stream_id' = None
    BY <2>2, <2>3 DEF FollowInv
  <2>4. CASE UNCHANGED <<pc, fin_stream_id, i, rx>>
    BY <2>1, <2>2, <2>4 DEF FollowInv
  <2>5. CASE UNCHANGED <<pc, fin_stream_id, rx>> /\ i' = i + 1
    <3>1. i \in Nat
      BY DEF TypeOK
    <3>2. \A k \in DOMAIN Scenario : k >= i + 1 => k >= i
      BY <3>1, ScenarioAssumption
    <3> QED
      BY <2>1, <2>2, <2>5, <3>2 DEF FollowInv
  <2>6. CASE SkipEntry \/ OpenWithoutMemory
    BY <2>5, <2>6 DEF SkipEntry, OpenWithoutMemory, engine
  <2>7. ASSUME NEW s \in Stream, StreamFin(s) PROVE FollowInv'
    <3>1. rx'[s] = "fin" /\ fin_stream_id' = s /\ rx[s] = "open" /\ s # None
      BY <2>7, ScenarioAssumption DEF StreamFin, StartStreams, Live, TypeOK
    <3>2. ASSUME NEW k \in DOMAIN Scenario, Previous[Scenario[k]] = s PROVE Ctxs(Scenario[k]) = {}
      BY <3>1, <3>2 DEF FollowInv, FollowersAfterFin, Ctxs
    <3> QED
      BY <2>1, <2>2, <3>1, <3>2 DEF FollowInv
  <2>8. ASSUME NEW s \in Stream, StreamEvent(s), ~StreamFin(s) PROVE pc' # "start"
    BY <2>8 DEF StreamEvent, Unexpected, StreamReset, AfterReset, StopSending, Live
  <2>9. CASE StartScenario
    BY <2>3, <2>9 DEF StartScenario, StartStreams
  <2> QED
    BY <1>1, <2>3, <2>4, <2>5, <2>6, <2>7, <2>8, <2>9 DEF Next, Client, Start, Send, Select, vars, scan,
       engine, Opens, SelectTimeout, SelectError, ReceiveServer, ReceiveHandshake, ReceiveStub, OpenStream,
       OpenWithoutFile, StartDone, Closed, EngineReturns, RelayResponse, BatchDone,
       ExitAfterHandshake, Sending, SendStream, SendOther, SendSkipped, SendFails, Exited
<1> QED
  BY <1>1, <1>2

\* A stream that follows another is opened after the end of that one, once.
THEOREM FollowersOnceAfterFin == Spec => []FollowersAfterFin
<1>1. FollowInv => FollowersAfterFin
  BY DEF FollowInv
<1> QED
  BY <1>1, FollowInit, FollowStep, ClientTypeCorrect, PTL DEF Spec

-----------------------------------------------------------------------------
(***************************************************************************)
(* The path of a query: the client, the connection and the server.         *)
(***************************************************************************)

Proxy == INSTANCE DnsQuicServerProofs WITH
  Conn <- {Connection}, Stream <- Carried, GetQuery <- {},
  Content <- Written, Packets <- Datagrams,
  CommandMax <- 9, Network <- "any",
  MaxPackets <- StreamPackets * Cardinality(Stream) + MaxNoise + MaxRepeats, MaxFail <- 0,
  pc <- s_pc, pkt <- s_pkt, cnx_state <- s_cnx_state, reset_sent <- s_reset_sent,
  sent <- s_sent, fails <- s_fails

LEMMA WrittenFacts ==
  ASSUME NEW x \in {Connection} \X Carried
  PROVE  /\ Written[x] \in Seq(Proxy!Chunk) /\ DOMAIN Written[x] = {1, 2}
         /\ \A k \in {1, 2} : Written[x][k].q = x[2][2]
<1>1. x[2][2] \in Query
  BY DEF Carried
<1> DEFINE ends(k) == k \in LineEnds[x[2]]
<1>2. Written[x] = [k \in 1 .. 2 |-> [q |-> x[2][2], len |-> 2, crlf |-> ends(k)]]
  BY DEF Written, BufferFinal, StreamPackets
<1>3. \A k : ends(k) \in BOOLEAN
  OBVIOUS
<1> HIDE DEF ends
<1>4. \A k \in 1 .. 2 : [q |-> x[2][2], len |-> 2, crlf |-> ends(k)] \in Proxy!Chunk
  BY <1>1, <1>3 DEF Proxy!Chunk
<1>5. Written[x] \in [1 .. 2 -> Proxy!Chunk]
  BY <1>2, <1>4
<1>6. Written[x] \in Seq(Proxy!Chunk)
  <2>1. \E n \in Nat : Written[x] \in [1 .. n -> Proxy!Chunk]
    BY <1>5
  <2> QED
    BY <2>1
<1>7. DOMAIN Written[x] = 1 .. 2 /\ 1 .. 2 = {1, 2}
  BY <1>2
<1>8. \A k \in 1 .. 2 : Written[x][k].q = x[2][2]
  BY <1>2
<1> QED
  BY <1>6, <1>7, <1>8

\* A datagram holds one piece of a stream, or none.
LEMMA DatagramFacts ==
  ASSUME NEW p \in Datagrams
  PROVE  /\ p.cnx = Connection /\ p.kind \in {"data", "stray"} /\ p.off \in Nat /\ p.size \in Proxy!Size
         /\ \/ p.frames = <<>>
            \/ \E x \in Carried, k \in {1, 2} : \E off \in Offset[x[2]] :
                 /\ p.frames = <<<<x, k>>>> /\ p.off = off /\ p.kind = "data" /\ p.size = 1200
<1>1. ASSUME NEW n \in NoiseSize, p = NoisePacket(n)
      PROVE  /\ p.cnx = Connection /\ p.kind \in {"data", "stray"} /\ p.off = 0 /\ p.size \in Proxy!Size
             /\ p.frames = <<>>
  BY <1>1, PathAssumption DEF NoisePacket, Proxy!Size
<1>2. ASSUME NEW x \in Carried, NEW k \in 1 .. StreamPackets, NEW off \in Offset[x[2]],
             p = DataPacket(x, k, off)
      PROVE  /\ p.cnx = Connection /\ p.kind = "data" /\ p.off = off /\ off \in Nat
             /\ p.size = 1200 /\ p.frames = <<<<x, k>>>> /\ k \in {1, 2}
  <2>1. x[2] \in Query
    BY DEF Carried
  <2>2. off \in Nat
    BY <2>1, PathAssumption
  <2> QED
    BY <1>2, <2>2 DEF DataPacket, StreamPackets
<1>3. 1200 \in Proxy!Size
  BY DEF Proxy!Size
<1>4. CASE \E n \in NoiseSize : p = NoisePacket(n)
  BY <1>1, <1>4
<1>5. CASE \E x \in Carried, k \in 1 .. StreamPackets : \E off \in Offset[x[2]] : p = DataPacket(x, k, off)
  <2>1. PICK x \in Carried, k \in 1 .. StreamPackets : \E off \in Offset[x[2]] : p = DataPacket(x, k, off)
    BY <1>5
  <2>2. PICK off \in Offset[x[2]] : p = DataPacket(x, k, off)
    BY <2>1
  <2>3. /\ p.cnx = Connection /\ p.kind = "data" /\ p.off = off /\ off \in Nat
        /\ p.size = 1200 /\ p.frames = <<<<x, k>>>> /\ k \in {1, 2}
    BY <1>2, <2>2
  <2> QED
    BY <1>3, <2>3
<1> QED
  BY <1>4, <1>5 DEF Datagrams

LEMMA DatagramSent ==
  ASSUME NEW x \in Carried, NEW k \in 1 .. StreamPackets, NEW off \in Offset[x[2]]
  PROVE  DataPacket(x, k, off) \in Datagrams
<1> DEFINE All == {{DataPacket(y, j, o) : o \in Offset[y[2]]} : y \in Carried, j \in 1 .. StreamPackets}
           Some == {DataPacket(x, k, o) : o \in Offset[x[2]]}
<1>1. Some \in All
  OBVIOUS
<1>2. DataPacket(x, k, off) \in Some
  OBVIOUS
<1> HIDE DEF Some
<1>3. DataPacket(x, k, off) \in UNION All
  BY <1>1, <1>2
<1> QED
  BY <1>3 DEF Datagrams

LEMMA ProxyQuery == Proxy!QueryAssumption
BY ScenarioAssumption, PathAssumption DEF Proxy!QueryAssumption

LEMMA ProxyContent == Proxy!ContentAssumption
<1>1. Written \in [Proxy!Key -> Seq(Proxy!Chunk)]
  BY WrittenFacts DEF Written, Proxy!Key
<1>2. \A x \in Proxy!Key : \A k \in DOMAIN Written[x] : Written[x][k].q = Written[x][1].q
  BY WrittenFacts DEF Proxy!Key
<1> QED
  BY <1>1, <1>2 DEF Proxy!ContentAssumption

LEMMA ProxyPackets == Proxy!PacketsAssumption
<1>1. ASSUME NEW p \in Datagrams PROVE p \in Proxy!Packet
  <2>1. p.size \in Nat /\ p.off \in Nat
    BY DatagramFacts DEF Proxy!Size
  <2>2. CASE \E n \in NoiseSize : p = NoisePacket(n)
    <3>1. <<>> \in Seq(Carried \X (Nat \ {0}))
      OBVIOUS
    <3> QED
      BY <2>1, <2>2, <3>1 DEF NoisePacket, Proxy!Packet
  <2>3. CASE \E x \in Carried, k \in 1 .. StreamPackets : \E off \in Offset[x[2]] : p = DataPacket(x, k, off)
    <3>1. PICK x \in Carried, k \in 1 .. StreamPackets : \E off \in Offset[x[2]] : p = DataPacket(x, k, off)
      BY <2>3
    <3>2. PICK off \in Offset[x[2]] : p = DataPacket(x, k, off)
      BY <3>1
    <3> DEFINE piece == <<<<x, k>>>>
    <3>3. p = [cnx |-> Connection, kind |-> "data", frames |-> piece, off |-> off, size |-> 1200]
      BY <3>2 DEF DataPacket
    <3>4. piece \in Seq(Carried \X (Nat \ {0}))
      BY DEF StreamPackets
    <3> HIDE DEF piece
    <3> QED
      BY <2>1, <3>3, <3>4 DEF Proxy!Packet
  <2> QED
    BY <2>2, <2>3 DEF Datagrams
<1>2. ASSUME NEW p \in Datagrams, NEW k \in DOMAIN p.frames
      PROVE  p.frames[k][2] \in DOMAIN Written[<<p.cnx, p.frames[k][1]>>]
  <2>1. PICK x \in Carried, n \in {1, 2} : p.frames = <<<<x, n>>>>
    BY <1>2, DatagramFacts
  <2>2. k = 1 /\ p.frames[k] = <<x, n>> /\ p.cnx = Connection
    BY <1>2, <2>1, DatagramFacts
  <2>3. <<Connection, x>> \in {Connection} \X Carried
    OBVIOUS
  <2>4. DOMAIN Written[<<Connection, x>>] = {1, 2}
    BY <2>3, WrittenFacts
  <2> QED
    BY <2>2, <2>4
<1>3. \A p \in Datagrams : p.kind \notin {"reset", "stop"}
  BY DatagramFacts
<1>4. \A p \in Datagrams : p.size \in Proxy!Size /\ (p.kind = "data" /\ p.frames # <<>> => p.size > 32)
  BY DatagramFacts
<1>5. Datagrams \subseteq Proxy!Packet
  BY <1>1
<1> QED
  BY <1>2, <1>3, <1>4, <1>5 DEF Proxy!PacketsAssumption

LEMMA ProxyBound == Proxy!BoundAssumption
BY PathAssumption, FS_CardinalityType DEF Proxy!BoundAssumption, StreamPackets

-----------------------------------------------------------------------------
\* The instance of the specification and that of the proofs are the same.
LEMMA SameServer ==
  /\ Server!Init <=> Proxy!Init
  /\ Server!Server <=> Proxy!Server
  /\ \A p : Server!Arrive(p) <=> Proxy!Arrive(p)
  /\ \A r : (Server!Resolve(r) <=> Proxy!Resolve(r)) /\ (Server!Drop(r) <=> Proxy!Drop(r))
<1>1. Server!SelectTimeout <=> Proxy!SelectTimeout
  BY DEF Server!SelectTimeout, Server!engine, Server!contexts, Server!dns, Proxy!SelectTimeout, Proxy!engine, Proxy!contexts, Proxy!dns
<1>2. Server!SelectError <=> Proxy!SelectError
  BY DEF Server!SelectError, Server!engine, Server!contexts, Server!dns, Proxy!SelectError, Proxy!engine, Proxy!contexts, Proxy!dns
<1>3. Server!RecvTimeout <=> Proxy!RecvTimeout
  BY DEF Server!RecvTimeout, Server!vars, Proxy!vars, Server!engine, Server!contexts, Server!dns, Proxy!RecvTimeout, Proxy!engine, Proxy!contexts, Proxy!dns
<1>4. Server!RecvOther <=> Proxy!RecvOther
  BY DEF Server!RecvOther, Server!IsResponse, Server!Taken, Server!engine, Server!contexts, Server!dns, Proxy!RecvOther, Proxy!IsResponse, Proxy!Taken, Proxy!engine, Proxy!contexts, Proxy!dns
<1>5. Server!RecvResponse <=> Proxy!RecvResponse
  BY DEF Server!RecvResponse, Server!IsResponse, Server!Taken, Server!Answered, Server!engine, Server!contexts, Server!dns, Proxy!RecvResponse, Proxy!IsResponse, Proxy!Taken, Proxy!Answered, Proxy!engine, Proxy!contexts, Proxy!dns
<1>6. Server!PeerAborts <=> Proxy!PeerAborts
  BY DEF Server!PeerAborts, Server!FrameKey, Server!engine, Server!contexts, Server!dns, Proxy!PeerAborts, Proxy!FrameKey, Proxy!engine, Proxy!contexts, Proxy!dns
<1>7. Server!AbortFails <=> Proxy!AbortFails
  BY DEF Server!AbortFails, Server!FrameKey, Server!engine, Server!contexts, Server!dns, Proxy!AbortFails, Proxy!FrameKey, Proxy!engine, Proxy!contexts, Proxy!dns
<1>8. Server!PeerCloses <=> Proxy!PeerCloses
  BY DEF Server!PeerCloses, Server!Key, Server!engine, Server!contexts, Server!dns, Proxy!PeerCloses, Proxy!Key, Proxy!engine, Proxy!contexts, Proxy!dns
<1>9. Server!DeliverDone <=> Proxy!DeliverDone
  BY DEF Server!DeliverDone, Server!Key, Server!Deliverable, Server!engine, Server!contexts, Server!dns, Proxy!DeliverDone, Proxy!Key, Proxy!Deliverable, Proxy!engine, Proxy!contexts, Proxy!dns
<1>10. Server!Forward <=> Proxy!Forward
  BY DEF Server!Forward, Server!Extract, Server!Error, Server!engine, Server!contexts, Server!dns, Proxy!Forward, Proxy!Extract, Proxy!Error, Proxy!engine, Proxy!contexts, Proxy!dns
<1>11. Server!SendError <=> Proxy!SendError
  BY DEF Server!SendError, Server!engine, Server!contexts, Server!dns, Proxy!SendError, Proxy!engine, Proxy!contexts, Proxy!dns
<1>12. Server!SendDone <=> Proxy!SendDone
  BY DEF Server!SendDone, Server!Key, Server!Unsent, Server!engine, Server!contexts, Server!dns, Proxy!SendDone, Proxy!Key, Proxy!Unsent, Proxy!engine, Proxy!contexts, Proxy!dns
<1>13. Server!Exited <=> Proxy!Exited
  BY DEF Server!Exited, Server!vars, Server!engine, Server!contexts, Server!dns, Proxy!Exited, Proxy!vars, Proxy!engine, Proxy!contexts, Proxy!dns
<1>14. ASSUME NEW x PROVE Server!Callback(x) <=> Proxy!Callback(x)
  <2>1. Server!ContextFails(x) <=> Proxy!ContextFails(x)
    BY DEF Server!ContextFails, Server!engine, Server!contexts, Server!dns, Server!Deliverable, Server!NextChunk,
         Proxy!ContextFails, Proxy!engine, Proxy!contexts, Proxy!dns, Proxy!Deliverable, Proxy!NextChunk
  <2>2. Server!StreamContextFails(x) <=> Proxy!StreamContextFails(x)
    BY DEF Server!StreamContextFails, Server!engine, Server!contexts, Server!dns, Server!Deliverable, Server!NextChunk,
         Proxy!StreamContextFails, Proxy!engine, Proxy!contexts, Proxy!dns, Proxy!Deliverable, Proxy!NextChunk
  <2>3. Server!Overrun(x) <=> Proxy!Overrun(x)
    BY DEF Server!Overrun, Server!StatusSeen, Server!TooLong, Server!engine, Server!contexts, Server!dns, Server!Deliverable, Server!NextChunk,
         Proxy!Overrun, Proxy!StatusSeen, Proxy!TooLong, Proxy!engine, Proxy!contexts, Proxy!dns, Proxy!Deliverable, Proxy!NextChunk
  <2>4. Server!Store(x) <=> Proxy!Store(x)
    BY DEF Server!Store, Server!StatusSeen, Server!TooLong, Server!RequestEnds, Server!Fin, Server!engine, Server!contexts, Server!dns, Server!Deliverable, Server!NextChunk,
         Proxy!Store, Proxy!StatusSeen, Proxy!TooLong, Proxy!RequestEnds, Proxy!Fin, Proxy!engine, Proxy!contexts, Proxy!dns, Proxy!Deliverable, Proxy!NextChunk
  <2> QED
    BY <2>1, <2>2, <2>3, <2>4 DEF Server!Callback, Proxy!Callback
<1>15. \A c : (Server!Send(c) <=> Proxy!Send(c)) /\ (Server!SendDisconnected(c) <=> Proxy!SendDisconnected(c))
  BY DEF Server!Send, Server!SendDisconnected, Server!Unsent, Server!Key, Server!engine, Server!contexts,
         Server!dns, Proxy!Send, Proxy!SendDisconnected, Proxy!Unsent, Proxy!Key, Proxy!engine,
         Proxy!contexts, Proxy!dns
<1>16. Server!Server <=> Proxy!Server
  BY <1>1, <1>2, <1>3, <1>4, <1>5, <1>6, <1>7, <1>8, <1>9, <1>10, <1>11, <1>12, <1>13, <1>14, <1>15
     DEF Server!Server, Proxy!Server, Server!Key, Proxy!Key
<1>17. Server!Init <=> Proxy!Init
  BY DEF Server!Init, Proxy!Init, Server!Key, Proxy!Key, Server!NoHead, Proxy!NoHead
<1>18. \A p : Server!Arrive(p) <=> Proxy!Arrive(p)
  BY DEF Server!Arrive, Server!Arrives, Server!InOrder, Server!Received, Server!HeadOf, Server!NoHead, Server!FrameKey, Server!Key, Server!contexts, Server!dns,
         Proxy!Arrive, Proxy!Arrives, Proxy!InOrder, Proxy!Received, Proxy!HeadOf, Proxy!NoHead, Proxy!FrameKey, Proxy!Key, Proxy!contexts, Proxy!dns
<1>19. \A r : (Server!Resolve(r) <=> Proxy!Resolve(r)) /\ (Server!Drop(r) <=> Proxy!Drop(r))
  BY DEF Server!Resolve, Server!Drop, Server!engine, Server!contexts,
         Proxy!Resolve, Proxy!Drop, Proxy!engine, Proxy!contexts
<1> QED
  BY <1>16, <1>17, <1>18, <1>19

-----------------------------------------------------------------------------
(***************************************************************************)
(* Every step of the path is a step of the client or of the server, or of  *)
(* both, or leaves one alone.                                              *)
(***************************************************************************)
DataComes(s, k, off) ==
  /\ queued[s] \in Query
  /\ DataPacket(<<s, queued[s]>>, k, off) \in Datagrams
  /\ Proxy!Arrive(DataPacket(<<s, queued[s]>>, k, off))
  /\ UNCHANGED <<vars, got>>

PathCases ==
  \/ ClientSteps \/ (\E s \in Stream : StreamEnds(s)) \/ ClientSelects
  \/ Proxy!Server /\ UNCHANGED <<vars, network>>
  \/ /\ \E r \in upstream : Proxy!Resolve(r) \/ Proxy!Drop(r)
     /\ UNCHANGED <<vars, network>>
  \/ /\ \E n \in NoiseSize : Proxy!Arrive(NoisePacket(n))
     /\ UNCHANGED <<vars, got>>
  \/ \E s \in Stream, k \in {1, 2} : \E off \in Offset[queued[s]] : DataComes(s, k, off)
  \/ UNCHANGED allVars

LEMMA PathSplits == ASSUME CountInv, [PathNext]_allVars PROVE PathCases
<1>1. ASSUME NEW s \in Stream, DataArrives(s) PROVE PathCases
  <2>1. queued[s] \in Query /\ sent[s] \in 0 .. 2 /\ UNCHANGED <<vars, got>>
    BY <1>1 DEF DataArrives, CountInv, TypeOK, StreamPackets
  <2>2. PICK k \in 1 .. sent[s] : \E off \in Offset[queued[s]] :
          Server!Arrive(DataPacket(<<s, queued[s]>>, k, off))
    BY <1>1 DEF DataArrives
  <2>3. PICK off \in Offset[queued[s]] : Server!Arrive(DataPacket(<<s, queued[s]>>, k, off))
    BY <2>2
  <2>4. k \in {1, 2} /\ k \in 1 .. StreamPackets
    BY <2>1 DEF StreamPackets
  <2> DEFINE x == <<s, queued[s]>>
  <2>5. x \in Carried /\ x[2] = queued[s]
    BY <2>1 DEF Carried
  <2>6. DataPacket(x, k, off) \in Datagrams
    BY <2>4, <2>5, DatagramSent
  <2>7. Proxy!Arrive(DataPacket(x, k, off))
    BY <2>3, SameServer
  <2>8. DataComes(s, k, off)
    BY <2>1, <2>6, <2>7 DEF DataComes
  <2> QED
    BY <2>4, <2>8 DEF PathCases
<1>2. CASE NoiseArrives
  BY <1>2, SameServer DEF NoiseArrives, PathCases
<1>3. CASE ServerSteps \/ Resolves \/ Drops
  BY <1>3, SameServer DEF ServerSteps, Resolves, Drops, PathCases
<1>4. CASE ClientPath \/ ClientSelects
  BY <1>4 DEF ClientPath, PathCases
<1>5. CASE UNCHANGED allVars
  BY <1>5 DEF PathCases
<1> QED
  BY <1>1, <1>2, <1>3, <1>4, <1>5 DEF PathNext

LEMMA SelectsReceive ==
  ASSUME CountInv, Proxy!TypeOK, ClientSelects
  PROVE  /\ Select /\ UNCHANGED server
         /\ got' = got \/ \E s \in Stream, k \in 1 .. 2 :
              got' = [got EXCEPT ![s] = @ \cup {k}] /\ queued[s] \in Query /\ answer[AtServer(s)] # {}
<1>1. ASSUME NEW s \in Stream, NEW k \in 1 .. 2, AnswerArrives(s, k)
      PROVE  /\ \E p \in Query \cup {None} : ReceiveServer(p)
             /\ got' = [got EXCEPT ![s] = @ \cup {k}] /\ queued[s] \in Query /\ answer[AtServer(s)] # {}
             /\ UNCHANGED server
  <2>1. queued[s] \in Query /\ queued[s] # None
    BY <1>1, ScenarioAssumption DEF AnswerArrives
  <2>2. AtServer(s) \in Proxy!Key
    BY <2>1 DEF AtServer, Carried, Proxy!Key
  <2>3. answer[AtServer(s)] \subseteq Proxy!Response
    BY <2>2 DEF Proxy!TypeOK
  <2>4. PICK a \in answer[AtServer(s)] : ReceiveServer(IF k = 1 THEN a.q ELSE None)
    BY <1>1 DEF AnswerArrives
  <2>5. a.q \in Query \cup {None}
    BY <2>3, <2>4 DEF Proxy!Response
  <2>6. (IF k = 1 THEN a.q ELSE None) \in Query \cup {None}
    BY <2>5
  <2>7. \E p \in Query \cup {None} : ReceiveServer(p)
    BY <2>4, <2>6
  <2>8. got' = [got EXCEPT ![s] = @ \cup {k}] /\ UNCHANGED server
    BY <1>1 DEF AnswerArrives
  <2> QED
    BY <2>1, <2>4, <2>7, <2>8
<1>2. CASE OtherArrives \/ \E s \in Stream : ResetArrives(s)
  BY <1>2 DEF OtherArrives, ResetArrives, Select
<1>3. CASE Asks \/ TimesOut
  BY <1>3 DEF Asks, TimesOut, Select
<1> QED
  BY <1>1, <1>2, <1>3 DEF ClientSelects, Returns, Select

LEMMA NoiseSent == ASSUME NEW n \in NoiseSize PROVE NoisePacket(n) \in Datagrams
BY DEF Datagrams

LEMMA PathSteps ==
  ASSUME CountInv, Proxy!TypeOK, [PathNext]_allVars
  PROVE  [Next]_vars /\ [Proxy!Next]_(Proxy!vars)
<1>1. UNCHANGED server => UNCHANGED Proxy!vars
  BY DEF server, Proxy!vars, Proxy!engine, Proxy!contexts, Proxy!dns
<1>2. PathCases
  BY PathSplits
<1>3. CASE ClientSteps
  BY <1>1, <1>3 DEF ClientSteps, Next
<1>4. CASE \E s \in Stream : StreamEnds(s)
  BY <1>1, <1>4 DEF StreamEnds, StreamEvent, Next
<1>5. CASE ClientSelects
  BY <1>1, <1>5, SelectsReceive DEF Next
<1>6. CASE Proxy!Server /\ UNCHANGED <<vars, network>>
  BY <1>6 DEF Proxy!Next
<1>7. CASE (\E r \in upstream : Proxy!Resolve(r) \/ Proxy!Drop(r)) /\ UNCHANGED <<vars, network>>
  BY <1>7 DEF Proxy!Next, Proxy!Environment
<1>8. ASSUME NEW p \in Datagrams, Proxy!Arrive(p), UNCHANGED <<vars, got>>
      PROVE  [Next]_vars /\ [Proxy!Next]_(Proxy!vars)
  BY <1>8 DEF Proxy!Next, Proxy!Environment
<1>9. CASE UNCHANGED allVars
  BY <1>1, <1>9 DEF allVars
<1> QED
  BY <1>2, <1>3, <1>4, <1>5, <1>6, <1>7, <1>8, <1>9, NoiseSent DEF PathCases, DataComes

\* The types of both ends, which each needs of the other.
EndsInv == CountInv /\ Proxy!TypeOK

LEMMA EndsInit == PathInit => EndsInv
BY ClientInit, SameServer, ProxyQuery, ProxyContent, ProxyPackets, ProxyBound, Proxy!InitType
   DEF PathInit, EndsInv

LEMMA EndsStep == EndsInv /\ [PathNext]_allVars => EndsInv'
BY PathSteps, ClientStep, ProxyQuery, ProxyContent, ProxyPackets, ProxyBound, Proxy!NextType DEF EndsInv

LEMMA EndsInvariant == PathSpec => []EndsInv
BY EndsInit, EndsStep, PTL DEF PathSpec

\* What is proved of the client and of the server alone holds of the two of
\* them and the network between them.
THEOREM PathIsBoth == PathSpec => Spec /\ Proxy!Spec
<1>1. PathInit => Init /\ Proxy!Init
  BY SameServer DEF PathInit
<1>2. EndsInv /\ [PathNext]_allVars => [Next]_vars /\ [Proxy!Next]_(Proxy!vars)
  BY PathSteps DEF EndsInv
<1> QED
  BY <1>1, <1>2, EndsInvariant, PTL DEF PathSpec, Spec, Proxy!Spec

\* Each stream of the client is given at most one answer, from an exchange with
\* the resolver that answers no other stream.
THEOREM PathImplementsExchange == PathSpec => Proxy!ImplementsExchange
<1>1. Proxy!Spec => Proxy!ImplementsExchange
  BY ProxyQuery, ProxyContent, ProxyPackets, ProxyBound, Proxy!ServerImplementsExchange
<1> QED
  BY <1>1, PathIsBoth, PTL

-----------------------------------------------------------------------------
(***************************************************************************)
(* What the steps of the path do to the server's side.                     *)
(***************************************************************************)
ProxyInv == Proxy!ResponseInv /\ Proxy!OnceInv

LEMMA ProxyInvariant == PathSpec => []ProxyInv
<1>1. Proxy!Init => Proxy!OnceInv /\ Proxy!ResponseInv
  BY Proxy!OnceInit, Proxy!ResponseInit, ProxyQuery, ProxyContent, ProxyPackets, ProxyBound
<1>2. Proxy!TypeOK /\ ProxyInv /\ [Proxy!Next]_(Proxy!vars) => ProxyInv'
  BY Proxy!OnceStep, Proxy!ResponseStep, ProxyQuery, ProxyContent, ProxyPackets, ProxyBound DEF ProxyInv
<1> QED
  BY <1>1, <1>2, PathIsBoth, EndsInvariant, PTL DEF Proxy!Spec, EndsInv, ProxyInv

\* A stream that has a message keeps it.
LEMMA QueuedStays ==
  ASSUME CountInv, [Next]_vars, NEW s \in Stream, queued[s] # None
  PROVE  queued'[s] = queued[s]
<1>1. CASE Opens
  BY <1>1, OpensFacts DEF Opens, AddToStream, CountInv, TypeOK
<1> QED
  BY <1>1, OpenOrKeep DEF CountInv

LEMMA ServerCases ==
  ASSUME CountInv, Proxy!TypeOK, [PathNext]_allVars
  PROVE  \/ UNCHANGED server
         \/ Proxy!Server /\ UNCHANGED vars
         \/ (\E r \in upstream : Proxy!Resolve(r) \/ Proxy!Drop(r)) /\ UNCHANGED vars
         \/ (\E n \in NoiseSize : Proxy!Arrive(NoisePacket(n))) /\ UNCHANGED vars
         \/ \E s \in Stream, k \in {1, 2} : \E off \in Offset[queued[s]] : DataComes(s, k, off)
<1>1. PathCases
  BY PathSplits
<1>2. ClientSelects => UNCHANGED server
  BY SelectsReceive
<1> QED
  BY <1>1, <1>2 DEF PathCases, ClientSteps, StreamEnds, allVars

Begins(x) ==
  /\ s_pc = "deliver" /\ delivered[x] + 1 \in recvd[x]
  /\ delivered' = [delivered EXCEPT ![x] = @ + 1]
  /\ \/ s_pc' = "deliver" /\ cur' = cur
     \/ s_pc' = "wait" /\ cur' = x
  /\ UNCHANGED <<forwarded, answer, s_pkt>>

Answers ==
  /\ Proxy!RecvResponse
  /\ s_pc = "wait" /\ s_pc' = "deliver" /\ cur \in Proxy!Key /\ cur' = None
  /\ answer' = [answer EXCEPT ![cur] = @ \cup {Head(fd2)}]
  /\ UNCHANGED <<forwarded, delivered, s_pkt>>

Delivers ==
  /\ s_pc = "deliver" /\ s_pc' = "forward"
  /\ \A x \in Proxy!Key : ~Proxy!Deliverable(x)
  /\ UNCHANGED <<forwarded, answer, delivered, s_pkt, cur>>

Forwards ==
  /\ s_pc = "forward" /\ s_pc' = "send"
  /\ forwarded' = forwarded \cup {[n |-> received, q |-> Proxy!Extract(buffer)]}
  /\ UNCHANGED <<answer, delivered, s_pkt, cur>>

Idles ==
  /\ UNCHANGED <<forwarded, answer, delivered>>
  /\ \/ UNCHANGED <<s_pc, s_pkt, cur>>
     \/ s_pc \in {"select", "send", "exit"} /\ s_pc' \in {"select", "send", "exit"}

LEMMA ServerEffect ==
  ASSUME Proxy!TypeOK, Proxy!Server
  PROVE  /\ UNCHANGED <<recvd, buffer, s_cnx_state, received>>
         /\ (\E x \in Proxy!Key : Begins(x)) \/ Answers \/ Delivers \/ Forwards \/ Idles
<1>1. ~(s_fails < 0) /\ (s_pc \in {"deliver", "wait", "forward"} => s_pkt \in Datagrams)
  BY DEF Proxy!TypeOK
<1>2. s_pc = "deliver" => s_pkt.kind \in {"data", "stray"}
  BY <1>1, DatagramFacts
<1>3. ASSUME NEW x \in Proxy!Key, Proxy!Callback(x)
      PROVE  UNCHANGED <<recvd, buffer, s_cnx_state, received>> /\ Begins(x)
  <2>1. ~Proxy!ContextFails(x) /\ ~Proxy!StreamContextFails(x)
    BY <1>1 DEF Proxy!ContextFails, Proxy!StreamContextFails
  <2>2. CASE Proxy!Overrun(x)
    BY <2>2 DEF Proxy!Overrun, Proxy!Deliverable, Proxy!dns, Begins
  <2>3. CASE Proxy!Store(x)
    BY <2>3 DEF Proxy!Store, Proxy!Deliverable, Proxy!dns, Begins
  <2> QED
    BY <1>3, <2>1, <2>2, <2>3 DEF Proxy!Callback
<1>4. ~Proxy!PeerAborts /\ ~Proxy!AbortFails /\ ~Proxy!PeerCloses
  BY <1>2 DEF Proxy!PeerAborts, Proxy!AbortFails, Proxy!PeerCloses
<1>5. CASE Proxy!Forward
  BY <1>5 DEF Proxy!Forward, Proxy!engine, Forwards
<1>6. CASE Proxy!RecvResponse
  BY <1>6 DEF Proxy!RecvResponse, Proxy!engine, Proxy!TypeOK, Answers
<1>7. CASE Proxy!DeliverDone
  BY <1>7 DEF Proxy!DeliverDone, Proxy!engine, Proxy!dns, Delivers
<1>8. ASSUME NEW c \in {Connection}, Proxy!Send(c) \/ Proxy!SendDisconnected(c)
      PROVE  UNCHANGED <<recvd, buffer, s_cnx_state, received>> /\ Idles
  BY <1>8 DEF Proxy!Send, Proxy!SendDisconnected, Proxy!engine, Proxy!dns, Idles
<1>9. CASE Proxy!SelectTimeout \/ Proxy!SelectError \/ Proxy!SendError \/ Proxy!SendDone
  BY <1>9 DEF Proxy!SelectTimeout, Proxy!SelectError, Proxy!SendError, Proxy!SendDone, Proxy!engine, Proxy!dns, Idles
<1>10. CASE Proxy!RecvTimeout \/ Proxy!RecvOther \/ Proxy!Exited
  BY <1>10 DEF Proxy!RecvTimeout, Proxy!RecvOther, Proxy!Exited, Proxy!vars, Proxy!engine, Proxy!dns, Idles
<1> QED
  BY <1>3, <1>4, <1>5, <1>6, <1>7, <1>8, <1>9, <1>10 DEF Proxy!Server

LEMMA ResolverEffect ==
  ASSUME NEW r, Proxy!Resolve(r) \/ Proxy!Drop(r)
  PROVE  UNCHANGED <<recvd, buffer, s_cnx_state, received, forwarded, answer, delivered, s_pc, s_pkt, cur>>
BY DEF Proxy!Resolve, Proxy!Drop, Proxy!engine

LEMMA ArriveEffect ==
  ASSUME Proxy!TypeOK, NEW p \in Datagrams, Proxy!Arrive(p)
  PROVE  /\ s_pc = "select" /\ s_pc' = "deliver" /\ s_pkt' = p
         /\ UNCHANGED <<forwarded, answer, delivered, cur>>
         /\ buffer' = Proxy!Received(p)
         /\ s_cnx_state[Connection] # "closed" => s_cnx_state'[Connection] # "closed"
         /\ s_cnx_state[Connection] = "open" => s_cnx_state'[Connection] = "open"
         /\ p.kind = "data" /\ s_cnx_state[Connection] # "closed" => s_cnx_state'[Connection] = "open"
         /\ \A x \in Proxy!Key : /\ recvd[x] \subseteq recvd'[x]
                                 /\ p.frames = <<>> => recvd'[x] = recvd[x]
<1>1. p.cnx = Connection
  BY DatagramFacts
<1>2. s_pc = "select" /\ s_pc' = "deliver" /\ s_pkt' = p /\ UNCHANGED <<forwarded, answer, delivered, cur>>
      /\ buffer' = Proxy!Received(p)
  BY DEF Proxy!Arrive, Proxy!dns
<1>3. s_cnx_state' = IF s_cnx_state[Connection] = "idle" /\ p.kind # "stray"
                       THEN [s_cnx_state EXCEPT ![Connection] = "open"] ELSE s_cnx_state
  BY <1>1 DEF Proxy!Arrive
<1>4. s_cnx_state \in [{Connection} -> {"idle", "open", "closed"}]
  BY DEF Proxy!TypeOK
<1>5. recvd' = recvd \/ recvd' = [x \in Proxy!Key |-> recvd[x] \cup
                  {p.frames[k][2] : k \in {j \in DOMAIN p.frames : Proxy!FrameKey(p, j) = x}}]
  BY DEF Proxy!Arrive
<1>6. ASSUME NEW x \in Proxy!Key, p.frames = <<>> PROVE recvd'[x] = recvd[x]
  <2>1. DOMAIN p.frames = {}
    BY <1>6
  <2>2. {p.frames[k][2] : k \in {j \in DOMAIN p.frames : Proxy!FrameKey(p, j) = x}} = {}
    BY <2>1
  <2> QED
    BY <1>5, <2>2
<1>7. \A x \in Proxy!Key : recvd[x] \subseteq recvd'[x]
  BY <1>5
<1> QED
  BY <1>2, <1>3, <1>4, <1>6, <1>7

LEMMA NoiseEffect ==
  ASSUME Proxy!TypeOK, NEW n \in NoiseSize, Proxy!Arrive(NoisePacket(n))
  PROVE  /\ NoisePacket(n) \in Datagrams /\ s_pkt'.frames = <<>>
         /\ \A x \in Proxy!Key : recvd'[x] = recvd[x]
         /\ buffer' \in {buffer, Proxy!NoHead}
<1>1. NoisePacket(n) \in Datagrams /\ NoisePacket(n).frames = <<>>
  BY NoiseSent DEF NoisePacket
<1> QED
  BY <1>1, ArriveEffect DEF Proxy!Received, Proxy!HeadOf

LEMMA DataEffect ==
  ASSUME Proxy!TypeOK, NEW s \in Stream, NEW k \in {1, 2}, NEW off \in Offset[queued[s]], DataComes(s, k, off)
  PROVE  /\ AtServer(s) \in Proxy!Key
         /\ DataPacket(<<s, queued[s]>>, k, off) \in Datagrams
         /\ s_pkt' = DataPacket(<<s, queued[s]>>, k, off)
         /\ s_pkt'.kind = "data" /\ s_pkt'.frames = <<<<<<s, queued[s]>>, k>>>>
         /\ recvd'[AtServer(s)] \subseteq recvd[AtServer(s)] \cup {k}
         /\ \A y \in Proxy!Key : y # AtServer(s) => recvd'[y] = recvd[y]
         /\ buffer' \in {buffer, Proxy!NoHead, [q |-> queued[s], off |-> off]}
         /\ k = 1 /\ buffer.off < 1200 => buffer' = [q |-> queued[s], off |-> off]
<1> DEFINE x == AtServer(s)
           p == DataPacket(<<s, queued[s]>>, k, off)
<1>1. x \in Proxy!Key /\ x \in {Connection} \X Carried /\ x[2][2] = queued[s] /\ x = <<Connection, <<s, queued[s]>>>>
  BY DEF AtServer, Carried, Proxy!Key, DataComes
<1>2. p.cnx = Connection /\ p.kind = "data" /\ p.frames = <<<<<<s, queued[s]>>, k>>>> /\ p.off = off /\ p.size = 1200
  BY DEF DataPacket
<1>3. DOMAIN p.frames = {1} /\ p.frames[1] = <<<<s, queued[s]>>, k>> /\ p.frames # <<>> /\ p.frames[1][2] = k
  BY <1>2
<1>4. Proxy!FrameKey(p, 1) = x
  BY <1>1, <1>2, <1>3 DEF Proxy!FrameKey
<1>5. Proxy!Arrive(p) /\ p \in Datagrams
  BY DEF DataComes
<1>6. Written[x][1].q = queued[s]
  BY <1>1, WrittenFacts
<1> HIDE DEF x, p
<1>7. recvd' = recvd \/ recvd' = [y \in Proxy!Key |-> recvd[y] \cup
                  {p.frames[n][2] : n \in {j \in DOMAIN p.frames : Proxy!FrameKey(p, j) = y}}]
  BY <1>5 DEF Proxy!Arrive
<1>8. recvd'[x] \subseteq recvd[x] \cup {k}
  <2>1. {p.frames[n][2] : n \in {j \in DOMAIN p.frames : Proxy!FrameKey(p, j) = x}} = {k}
    BY <1>3, <1>4
  <2> QED
    BY <1>1, <1>7, <2>1
<1>9. ASSUME NEW y \in Proxy!Key, y # x PROVE recvd'[y] = recvd[y]
  <2>1. {j \in DOMAIN p.frames : Proxy!FrameKey(p, j) = y} = {}
    BY <1>3, <1>4, <1>9
  <2>2. {p.frames[n][2] : n \in {j \in DOMAIN p.frames : Proxy!FrameKey(p, j) = y}} = {}
    BY <2>1
  <2> QED
    BY <1>7, <2>2
<1>10. s_pkt' = p /\ buffer' = Proxy!Received(p)
  BY <1>5, ArriveEffect
<1>11. Proxy!HeadOf(p) = IF k = 1 THEN [q |-> queued[s], off |-> off] ELSE Proxy!NoHead
  BY <1>2, <1>3, <1>4, <1>6 DEF Proxy!HeadOf
<1>12. buffer.off \in Nat
  BY DEF Proxy!TypeOK, Proxy!Start
<1>13. /\ buffer' \in {buffer, Proxy!NoHead, [q |-> queued[s], off |-> off]}
       /\ k = 1 /\ buffer.off < 1200 => buffer' = [q |-> queued[s], off |-> off]
  BY <1>2, <1>10, <1>11, <1>12 DEF Proxy!Received
<1> QED
  BY <1>1, <1>2, <1>5, <1>8, <1>9, <1>10, <1>13 DEF x, p

-----------------------------------------------------------------------------
(***************************************************************************)
(* Where the server's queries and data come from.                          *)
(***************************************************************************)
Queried(q) == \E s \in Stream : queued[s] = q

SourceInv ==
  /\ \A x \in Proxy!Key : recvd[x] # {} => queued[x[2][1]] = x[2][2]
  /\ buffer.q # None => Queried(buffer.q)
  /\ \A r \in forwarded : r.q # None => Queried(r.q)

LEMMA SourceStep ==
  ASSUME EndsInv, SourceInv, [PathNext]_allVars
  PROVE  SourceInv'
<1>0. CountInv /\ Proxy!TypeOK /\ [Next]_vars
  BY PathSteps DEF EndsInv
<1>1. \A s \in Stream : queued[s] # None => queued'[s] = queued[s]
  BY <1>0, QueuedStays
<1>2. \A q : q # None /\ Queried(q) => Queried(q)'
  BY <1>1 DEF Queried
<1>3. \A x \in Proxy!Key : x[2][1] \in Stream /\ x[2][2] \in Query /\ x[2][2] # None
                           /\ x = <<Connection, <<x[2][1], x[2][2]>>>>
  BY ScenarioAssumption DEF Proxy!Key, Carried
<1>4. \A x \in Proxy!Key : recvd[x] # {} => queued'[x[2][1]] = x[2][2]
  BY <1>1, <1>3 DEF SourceInv
<1>5. ASSUME \A x \in Proxy!Key : recvd'[x] = recvd[x],
             buffer' = buffer \/ buffer' = Proxy!NoHead,
             forwarded' = forwarded \/ Forwards
      PROVE  SourceInv'
  <2>1. (buffer.q # None => Queried(buffer.q))'
    BY <1>2, <1>5 DEF SourceInv, Proxy!NoHead
  <2>2. \A r \in forwarded' : r.q # None => Queried(r.q)'
    <3>1. CASE forwarded' = forwarded
      BY <1>2, <3>1 DEF SourceInv
    <3>2. CASE Forwards
      BY <1>2, <3>2 DEF SourceInv, Forwards, Proxy!Extract
    <3> QED
      BY <1>5, <3>1, <3>2
  <2> QED
    BY <1>4, <1>5, <2>1, <2>2 DEF SourceInv, Queried
<1>6. CASE UNCHANGED server
  BY <1>5, <1>6 DEF server
<1>7. CASE Proxy!Server
  <2>1. UNCHANGED <<recvd, buffer>> /\ (forwarded' = forwarded \/ Forwards)
    BY <1>0, <1>7, ServerEffect DEF Begins, Answers, Delivers, Idles
  <2> QED
    BY <1>5, <2>1
<1>8. ASSUME NEW r \in upstream, Proxy!Resolve(r) \/ Proxy!Drop(r) PROVE SourceInv'
  BY <1>5, <1>8, ResolverEffect
<1>9. ASSUME NEW n \in NoiseSize, Proxy!Arrive(NoisePacket(n)) PROVE SourceInv'
  BY <1>0, <1>5, <1>9, NoiseEffect, ArriveEffect
<1>10. ASSUME NEW s \in Stream, NEW k \in {1, 2}, NEW off \in Offset[queued[s]], DataComes(s, k, off)
       PROVE  SourceInv'
  <2>1. /\ \A y \in Proxy!Key : y # AtServer(s) => recvd'[y] = recvd[y]
        /\ buffer' \in {buffer, Proxy!NoHead, [q |-> queued[s], off |-> off]}
        /\ DataPacket(<<s, queued[s]>>, k, off) \in Datagrams
    BY <1>0, <1>10, DataEffect
  <2>2. forwarded' = forwarded
    BY <1>0, <1>10, <2>1, ArriveEffect DEF DataComes
  <2>3. queued[s] # None /\ UNCHANGED queued
    BY <1>10, ScenarioAssumption DEF DataComes, vars, engine
  <2>4. AtServer(s)[2][1] = s /\ AtServer(s)[2][2] = queued[s]
    BY DEF AtServer
  <2>5. \A x \in Proxy!Key : recvd'[x] # {} => queued'[x[2][1]] = x[2][2]
    BY <1>4, <2>1, <2>3, <2>4
  <2>6. (buffer.q # None => Queried(buffer.q))'
    BY <1>2, <2>1, <2>3 DEF SourceInv, Proxy!NoHead, Queried
  <2>7. \A r \in forwarded' : r.q # None => Queried(r.q)'
    BY <1>2, <2>2 DEF SourceInv
  <2> QED
    BY <2>5, <2>6, <2>7 DEF SourceInv, Queried
<1> QED
  BY <1>0, <1>6, <1>7, <1>8, <1>9, <1>10, ServerCases

\* The callback is given the data of the stream in the packet at hand; what has
\* begun has begun with its first packet.
InHand(x) == s_pkt.frames # <<>> /\ x = <<Connection, s_pkt.frames[1][1]>>
Begun(x) == delivered[x] # 0 \/ answer[x] # {} \/ (s_pc = "wait" /\ cur = x)

HandInv ==
  /\ s_cnx_state[Connection] # "closed"
  /\ \A x \in Proxy!Key :
       /\ Begun(x) => 1 \in recvd[x]
       /\ recvd[x] # {} => s_cnx_state[Connection] = "open"
       /\ delivered[x] + 1 \in recvd[x] => s_pc \in {"deliver", "wait"} /\ InHand(x)
  /\ s_pc = "wait" => InHand(cur)

LEMMA HandStep ==
  ASSUME EndsInv, SourceInv, HandInv, [PathNext]_allVars
  PROVE  HandInv'
<1>0. /\ CountInv /\ Proxy!TypeOK /\ [Next]_vars
      /\ delivered \in [Proxy!Key -> Nat]
      /\ answer \in [Proxy!Key -> SUBSET Proxy!Response]
      /\ s_pc \in {"deliver", "wait", "forward"} => s_pkt \in Datagrams
  BY PathSteps DEF EndsInv, Proxy!TypeOK
<1>1. ASSUME UNCHANGED <<recvd, s_cnx_state, answer, delivered>>,
             UNCHANGED <<s_pc, s_pkt, cur>> \/
               (s_pc \notin {"deliver", "wait"} /\ s_pc' \notin {"deliver", "wait"})
      PROVE  HandInv'
  BY <1>1 DEF HandInv, Begun, InHand
<1>2. CASE UNCHANGED server
  BY <1>1, <1>2 DEF server
<1>3. CASE Proxy!Server
  <2>1. UNCHANGED <<recvd, s_cnx_state>>
    BY <1>0, <1>3, ServerEffect
  <2>2. ASSUME NEW x \in Proxy!Key, Begins(x) PROVE HandInv'
    <3>1. /\ s_pc = "deliver" /\ delivered[x] + 1 \in recvd[x] /\ delivered' = [delivered EXCEPT ![x] = @ + 1]
          /\ UNCHANGED <<answer, s_pkt>> /\ s_pc' \in {"deliver", "wait"} /\ (s_pc' = "wait" => cur' = x)
      BY <2>2 DEF Begins
    <3>2. \A y : InHand(y)' <=> InHand(y)
      BY <3>1 DEF InHand
    <3>3. InHand(x)
      BY <3>1 DEF HandInv
    <3>4. 1 \in recvd[x]
      BY <1>0, <3>1 DEF HandInv, Begun
    <3>5. \A y \in Proxy!Key : y # x => delivered'[y] = delivered[y] /\ ~InHand(y)
      BY <1>0, <3>1, <3>3 DEF InHand
    <3>6. \A y \in Proxy!Key : Begun(y)' => y = x \/ Begun(y)
      BY <3>1, <3>5 DEF Begun
    <3> QED
      BY <2>1, <3>1, <3>2, <3>3, <3>4, <3>5, <3>6 DEF HandInv
  <2>3. CASE Answers
    <3>1. /\ s_pc = "wait" /\ s_pc' = "deliver" /\ cur \in Proxy!Key /\ UNCHANGED <<delivered, s_pkt>>
          /\ answer' = [answer EXCEPT ![cur] = @ \cup {Head(fd2)}]
      BY <2>3 DEF Answers
    <3>2. \A y : InHand(y)' <=> InHand(y)
      BY <3>1 DEF InHand
    <3>3. \A y \in Proxy!Key : Begun(y)' => Begun(y)
      BY <1>0, <3>1 DEF Begun
    <3> QED
      BY <2>1, <3>1, <3>2, <3>3 DEF HandInv
  <2>4. CASE Delivers
    <3>1. /\ s_pc = "deliver" /\ s_pc' = "forward" /\ UNCHANGED <<answer, delivered, s_pkt, cur>>
          /\ \A x \in Proxy!Key : ~Proxy!Deliverable(x)
      BY <2>4 DEF Delivers
    <3>2. ASSUME NEW x \in Proxy!Key, delivered[x] + 1 \in recvd[x] PROVE FALSE
      <4>1. InHand(x) /\ s_cnx_state[Connection] = "open" /\ s_pkt \in Datagrams
        BY <1>0, <3>1, <3>2 DEF HandInv
      <4>2. s_pkt.kind = "data" /\ s_pkt.cnx = Connection
        BY <4>1, DatagramFacts DEF InHand
      <4>3. x[1] = Connection
        BY DEF Proxy!Key
      <4> QED
        BY <3>1, <3>2, <4>1, <4>2, <4>3 DEF Proxy!Deliverable
    <3>3. \A y \in Proxy!Key : Begun(y)' => Begun(y)
      BY <3>1 DEF Begun
    <3> QED
      BY <2>1, <3>1, <3>2, <3>3 DEF HandInv
  <2>5. CASE Forwards \/ Idles
    BY <1>1, <2>1, <2>5 DEF Forwards, Idles
  <2> QED
    BY <1>0, <1>3, <2>2, <2>3, <2>4, <2>5, ServerEffect
<1>4. ASSUME NEW r \in upstream, Proxy!Resolve(r) \/ Proxy!Drop(r) PROVE HandInv'
  BY <1>1, <1>4, ResolverEffect
<1>5. ASSUME NEW n \in NoiseSize, Proxy!Arrive(NoisePacket(n)) PROVE HandInv'
  <2>1. /\ NoisePacket(n) \in Datagrams /\ \A x \in Proxy!Key : recvd'[x] = recvd[x]
    BY <1>0, <1>5, NoiseEffect
  <2>2. /\ s_pc = "select" /\ s_pc' = "deliver" /\ UNCHANGED <<answer, delivered, cur>>
        /\ s_cnx_state[Connection] # "closed" => s_cnx_state'[Connection] # "closed"
        /\ s_cnx_state[Connection] = "open" => s_cnx_state'[Connection] = "open"
    BY <1>0, <1>5, <2>1, ArriveEffect
  <2> QED
    BY <2>1, <2>2 DEF HandInv, Begun
<1>6. ASSUME NEW s \in Stream, NEW k \in {1, 2}, NEW off \in Offset[queued[s]], DataComes(s, k, off)
      PROVE  HandInv'
  <2> DEFINE p == DataPacket(<<s, queued[s]>>, k, off)
  <2>1. /\ p \in Datagrams /\ s_pkt' = p /\ p.kind = "data" /\ p.frames = <<<<<<s, queued[s]>>, k>>>>
        /\ AtServer(s) \in Proxy!Key
        /\ \A y \in Proxy!Key : y # AtServer(s) => recvd'[y] = recvd[y]
    BY <1>0, <1>6, DataEffect DEF DataPacket
  <2> HIDE DEF p
  <2>2. InHand(AtServer(s))'
    <3>1. s_pkt'.frames # <<>> /\ s_pkt'.frames[1][1] = <<s, queued[s]>>
      BY <2>1
    <3>2. AtServer(s)' = AtServer(s)
      BY <1>6 DEF AtServer, DataComes, vars, engine
    <3> QED
      BY <3>1, <3>2 DEF InHand, AtServer
  <2>3. Proxy!Arrive(p)
    BY <1>6 DEF DataComes, p
  <2>4. /\ s_pc = "select" /\ s_pc' = "deliver" /\ UNCHANGED <<answer, delivered, cur>>
        /\ s_cnx_state'[Connection] # "closed"
        /\ s_cnx_state'[Connection] = "open"
        /\ \A x \in Proxy!Key : recvd[x] \subseteq recvd'[x]
    BY <1>0, <2>1, <2>3, ArriveEffect DEF HandInv
  <2>5. \A y \in Proxy!Key : Begun(y)' => Begun(y)
    BY <2>4 DEF Begun
  <2>6. \A y \in Proxy!Key : Begun(y)' => 1 \in recvd'[y]
    BY <2>4, <2>5 DEF HandInv
  <2>7. AtServer(s)' = AtServer(s)
    BY <1>6 DEF AtServer, DataComes, vars, engine
  <2>8. \A y \in Proxy!Key : delivered'[y] + 1 \in recvd'[y] => InHand(y)'
    <3> SUFFICES ASSUME NEW y \in Proxy!Key, delivered'[y] + 1 \in recvd'[y] PROVE InHand(y)'
      OBVIOUS
    <3>1. CASE y = AtServer(s)
      BY <2>2, <2>7, <3>1
    <3>2. CASE y # AtServer(s)
      BY <2>1, <2>4, <3>2 DEF HandInv
    <3> QED
      BY <3>1, <3>2
  <2> QED
    BY <2>4, <2>6, <2>8 DEF HandInv
<1> QED
  BY <1>0, <1>2, <1>3, <1>4, <1>5, <1>6, ServerCases

-----------------------------------------------------------------------------
(***************************************************************************)
(* StarvesForCause, by counting: a packet with the head of a query puts    *)
(* one datagram on the way to the resolver, an answer uses up one.         *)
(***************************************************************************)
Heads == {x \in Proxy!Key : 1 \in recvd[x]}
Asked == {r \in forwarded : r.q # None}
HeadAtHand == s_pc \in {"deliver", "wait", "forward"} /\ \E x \in Carried : s_pkt.frames = <<<<x, 1>>>>
AllLegible == \A s \in Stream : queued[s] \in Query => Legible(queued[s])

HeadsInv ==
  /\ IsFiniteSet(Asked)
  /\ AllLegible =>
       /\ buffer.off <= 30
       /\ HeadAtHand => Proxy!Extract(buffer) # None
       /\ Cardinality(Heads) <= Cardinality(Asked) + (IF HeadAtHand THEN 1 ELSE 0)

LEMMA AddAtMostOne ==
  ASSUME NEW S, NEW x, IsFiniteSet(S)
  PROVE  /\ IsFiniteSet(S \cup {x})
         /\ Cardinality(S \cup {x}) \in Nat
         /\ Cardinality(S \cup {x}) <= Cardinality(S) + 1
<1>1. Cardinality(S) \in Nat
  BY FS_CardinalityType
<1>2. /\ IsFiniteSet(S \cup {x})
      /\ Cardinality(S \cup {x}) = IF x \in S THEN Cardinality(S) ELSE Cardinality(S) + 1
  BY FS_AddElement
<1> QED
  BY <1>1, <1>2

\* A stream of the client is one stream at the server.
LEMMA HeadsFinite == SourceInv => IsFiniteSet(Heads)
<1> SUFFICES ASSUME SourceInv PROVE IsFiniteSet(Heads)
  OBVIOUS
<1> DEFINE f == [x \in Heads |-> x[2][1]]
<1>1. \A x \in Heads : x[2][1] \in Stream /\ x = <<Connection, <<x[2][1], queued[x[2][1]]>>>>
  BY DEF SourceInv, Heads, Proxy!Key, Carried
<1>2. f \in [Heads -> Stream]
  BY <1>1
<1>3. \A x, y \in Heads : f[x] = f[y] => x = y
  BY <1>1
<1>4. f \in Injection(Heads, Stream)
  BY <1>2, <1>3 DEF Injection, IsInjective
<1>5. IsFiniteSet(Stream)
  BY PathAssumption
<1> HIDE DEF f
<1> QED
  BY <1>4, <1>5, FS_Injection

LEMMA HeadsStep ==
  ASSUME EndsInv, EndsInv', SourceInv, ProxyInv, HeadsInv, [PathNext]_allVars
  PROVE  HeadsInv'
<1>0. /\ CountInv /\ Proxy!TypeOK /\ [Next]_vars
      /\ IsFiniteSet(Heads) /\ Cardinality(Heads) \in Nat
      /\ IsFiniteSet(Asked) /\ Cardinality(Asked) \in Nat
  BY PathSteps, HeadsFinite, FS_CardinalityType DEF EndsInv, HeadsInv
<1>1. AllLegible' => AllLegible
  <2>1. \A s \in Stream : queued[s] \in Query => queued'[s] = queued[s]
    BY <1>0, QueuedStays, ScenarioAssumption
  <2>2. \A q : Legible(q)' <=> Legible(q)
    BY DEF Legible
  <2> QED
    BY <2>1, <2>2 DEF AllLegible
<1>2. ASSUME UNCHANGED <<recvd, buffer, forwarded>>, HeadAtHand' <=> HeadAtHand
      PROVE  HeadsInv'
  <2>1. Heads' = Heads /\ Asked' = Asked /\ (Proxy!Extract(buffer))' = Proxy!Extract(buffer)
    BY <1>2 DEF Heads, Asked, Proxy!Extract
  <2>2. CASE HeadAtHand
    BY <1>1, <1>2, <2>1, <2>2 DEF HeadsInv
  <2>3. CASE ~HeadAtHand
    BY <1>1, <1>2, <2>1, <2>3 DEF HeadsInv
  <2> QED
    BY <2>2, <2>3
<1>3. CASE UNCHANGED server
  BY <1>2, <1>3 DEF server, HeadAtHand
<1>4. CASE Proxy!Server
  <2>1. UNCHANGED <<recvd, buffer>>
    BY <1>0, <1>4, ServerEffect
  <2>2. CASE (\E x \in Proxy!Key : Begins(x)) \/ Answers \/ Delivers \/ Idles
    BY <1>2, <2>1, <2>2 DEF Begins, Answers, Delivers, Idles, HeadAtHand
  <2>3. CASE Forwards
    <3> DEFINE new == [n |-> received, q |-> Proxy!Extract(buffer)]
    <3>1. s_pc = "forward" /\ s_pc' = "send" /\ forwarded' = forwarded \cup {new}
      BY <2>3 DEF Forwards
    <3>2. ~HeadAtHand' /\ Heads' = Heads /\ (Proxy!Extract(buffer))' = Proxy!Extract(buffer)
      BY <2>1, <3>1 DEF HeadAtHand, Heads, Proxy!Extract
    <3>3. new \notin Asked
      <4>1. \A r \in forwarded : r.n \in Nat /\ r.n < received
        BY <1>0, <3>1 DEF ProxyInv, Proxy!ResponseInv, Proxy!ForwardedInv, Proxy!TypeOK, Proxy!Request
      <4>2. received \in Nat /\ new.n = received
        BY <1>0 DEF Proxy!TypeOK
      <4> QED
        BY <4>1, <4>2 DEF Asked
    <3>4. new.q = Proxy!Extract(buffer)
      OBVIOUS
    <3> HIDE DEF new
    <3>5. CASE new.q # None
      <4>1. Asked' = Asked \cup {new}
        BY <3>1, <3>5 DEF Asked
      <4>2. IsFiniteSet(Asked') /\ Cardinality(Asked') = Cardinality(Asked) + 1
        BY <1>0, <3>3, <4>1, FS_AddElement
      <4>3. AllLegible => Cardinality(Heads) <= Cardinality(Asked) + 1
        BY <1>0 DEF HeadsInv
      <4> QED
        BY <1>0, <1>1, <2>1, <3>2, <4>2, <4>3 DEF HeadsInv
    <3>6. CASE new.q = None
      <4>1. Asked' = Asked
        BY <3>1, <3>6 DEF Asked
      <4>2. AllLegible => ~HeadAtHand
        BY <3>4, <3>6 DEF HeadsInv
      <4> QED
        BY <1>1, <2>1, <3>2, <4>1, <4>2 DEF HeadsInv
    <3> QED
      BY <3>5, <3>6
  <2> QED
    BY <1>0, <1>4, <2>2, <2>3, ServerEffect
<1>5. ASSUME NEW r \in upstream, Proxy!Resolve(r) \/ Proxy!Drop(r) PROVE HeadsInv'
  BY <1>2, <1>5, ResolverEffect DEF HeadAtHand
<1>6. ASSUME NEW n \in NoiseSize, Proxy!Arrive(NoisePacket(n)) PROVE HeadsInv'
  <2>1. /\ NoisePacket(n) \in Datagrams /\ s_pkt'.frames = <<>>
        /\ \A x \in Proxy!Key : recvd'[x] = recvd[x]
        /\ buffer' \in {buffer, Proxy!NoHead}
    BY <1>0, <1>6, NoiseEffect
  <2>2. s_pc = "select" /\ forwarded' = forwarded
    BY <1>0, <1>6, <2>1, ArriveEffect
  <2>3. ~HeadAtHand /\ ~HeadAtHand' /\ Heads' = Heads /\ Asked' = Asked
    BY <2>1, <2>2 DEF HeadAtHand, Heads, Asked
  <2>4. AllLegible => buffer'.off <= 30
    BY <2>1 DEF HeadsInv, Proxy!NoHead
  <2> QED
    BY <1>1, <2>3, <2>4 DEF HeadsInv
<1>7. ASSUME NEW s \in Stream, NEW k \in {1, 2}, NEW off \in Offset[queued[s]], DataComes(s, k, off)
      PROVE  HeadsInv'
  <2> DEFINE x == AtServer(s)
             p == DataPacket(<<s, queued[s]>>, k, off)
  <2>1. /\ p \in Datagrams /\ s_pkt'.frames = <<<<<<s, queued[s]>>, k>>>> /\ x \in Proxy!Key
        /\ recvd'[x] \subseteq recvd[x] \cup {k}
        /\ \A y \in Proxy!Key : y # x => recvd'[y] = recvd[y]
        /\ buffer' \in {buffer, Proxy!NoHead, [q |-> queued[s], off |-> off]}
        /\ k = 1 /\ buffer.off < 1200 => buffer' = [q |-> queued[s], off |-> off]
    BY <1>0, <1>7, DataEffect
  <2>2. Proxy!Arrive(p) /\ queued[s] \in Query /\ queued'[s] = queued[s] /\ queued[s] # None
    BY <1>7, ScenarioAssumption DEF DataComes, vars, engine
  <2>3. /\ s_pc = "select" /\ s_pc' = "deliver" /\ forwarded' = forwarded
        /\ \A y \in Proxy!Key : recvd[y] \subseteq recvd'[y]
    BY <1>0, <2>1, <2>2, ArriveEffect
  <2> HIDE DEF x, p
  <2>4. ~HeadAtHand /\ Asked' = Asked
    BY <2>3 DEF HeadAtHand, Asked
  <2>5. AllLegible => off = 26 \/ (off = 30 /\ queued[s] \notin ZeroIdQuery \cup LongQuery)
    BY <2>2 DEF AllLegible, Legible
  <2>6. AllLegible => buffer'.off <= 30
    BY <2>1, <2>5 DEF HeadsInv, Proxy!NoHead
  <2>7. CASE k = 1
    <3>1. HeadAtHand'
      BY <2>1, <2>2, <2>3, <2>7 DEF HeadAtHand, Carried
    <3>2. Heads' \in SUBSET (Heads \cup {x})
      BY <2>1 DEF Heads
    <3>3. Cardinality(Heads') <= Cardinality(Heads) + 1
      <4>1. /\ IsFiniteSet(Heads \cup {x}) /\ Cardinality(Heads \cup {x}) \in Nat
            /\ Cardinality(Heads \cup {x}) <= Cardinality(Heads) + 1
        BY <1>0, AddAtMostOne
      <4>2. Cardinality(Heads') <= Cardinality(Heads \cup {x}) /\ IsFiniteSet(Heads')
        BY <3>2, <4>1, FS_Subset
      <4>3. Cardinality(Heads') \in Nat
        BY <4>2, FS_CardinalityType
      <4> QED
        BY <1>0, <4>1, <4>2, <4>3
    <3>4. Cardinality(Heads') \in Nat
      <4>1. IsFiniteSet(Heads \cup {x})
        BY <1>0, FS_AddElement
      <4>2. IsFiniteSet(Heads')
        BY <3>2, <4>1, FS_Subset
      <4> QED
        BY <4>2, FS_CardinalityType
    <3>5. AllLegible => (Proxy!Extract(buffer))' # None
      <4>1. AllLegible => buffer.off < 1200
        BY <1>0 DEF HeadsInv, Proxy!TypeOK, Proxy!Start
      <4>2. AllLegible => buffer' = [q |-> queued[s], off |-> off]
        BY <2>1, <2>7, <4>1
      <4>3. (Proxy!Extract(buffer))' = IF buffer'.off = 26 \/ (buffer'.off = 30 /\ buffer'.q \notin ZeroIdQuery \cup LongQuery)
                                         THEN buffer'.q ELSE None
        BY DEF Proxy!Extract
      <4> QED
        BY <2>2, <2>5, <4>2, <4>3
    <3>6. AllLegible => Cardinality(Heads) <= Cardinality(Asked)
      BY <1>0, <2>4 DEF HeadsInv
    <3>7. AllLegible => Cardinality(Heads') <= Cardinality(Asked) + 1
      BY <1>0, <3>3, <3>4, <3>6
    <3> QED
      BY <1>0, <1>1, <2>4, <2>6, <3>1, <3>5, <3>7 DEF HeadsInv
  <2>8. CASE k = 2
    <3>1. ~HeadAtHand'
      <4>1. s_pkt'.frames[1][2] = 2
        BY <2>1, <2>8
      <4>2. \A y : <<<<y, 1>>>>[1][2] = 1
        OBVIOUS
      <4> QED
        BY <4>1, <4>2 DEF HeadAtHand
    <3>2. Heads' = Heads
      <4>1. \A y \in Proxy!Key : 1 \in recvd'[y] <=> 1 \in recvd[y]
        BY <2>1, <2>3, <2>8
      <4> QED
        BY <4>1 DEF Heads
    <3> QED
      BY <1>1, <2>4, <2>6, <3>1, <3>2 DEF HeadsInv
  <2> QED
    BY <2>7, <2>8
<1> QED
  BY <1>0, <1>3, <1>4, <1>5, <1>6, <1>7, ServerCases

\* Who waits has no answer; if everything forwarded is used up, there are more
\* heads than datagrams forwarded.
LEMMA WaitIsForCause ==
  ASSUME EndsInv, ProxyInv, SourceInv, HandInv, HeadsInv
  PROVE  StarvesForCause
<1> SUFFICES ASSUME s_pc = "wait", ~HeadInHand, AllLegible,
                    \A r \in forwarded : r.q \in Query => ~Unanswered(r)
             PROVE  FALSE
  BY DEF StarvesForCause, Starved, AllLegible
<1>1. cur \in Proxy!Key /\ InHand(cur) /\ 1 \in recvd[cur] /\ cur = <<Connection, cur[2]>>
  BY DEF EndsInv, Proxy!TypeOK, HandInv, Begun, Proxy!Key
<1>2. ~HeadAtHand
  <2> SUFFICES ASSUME NEW x \in Carried, s_pkt.frames = <<<<x, 1>>>> PROVE FALSE
    BY DEF HeadAtHand
  <2>1. s_pkt.frames[1][1] = x
    OBVIOUS
  <2>2. cur = <<Connection, x>>
    BY <1>1, <2>1 DEF InHand
  <2> QED
    BY <2>2 DEF HeadInHand
<1>3. answer[cur] = {}
  <2>1. cur[1] = s_pkt.cnx /\ s_cnx_state[s_pkt.cnx] = "open" /\ status[cur] = "none"
    BY DEF ProxyInv, Proxy!OnceInv
  <2> QED
    BY <1>1, <2>1 DEF ProxyInv, Proxy!OnceInv
<1> DEFINE Answered == Heads \ {cur}
           UsedBy(r, x) == \E a \in answer[x] : a.n = r.n
           use == [r \in Asked |-> CHOOSE x \in Proxy!Key : UsedBy(r, x)]
<1>4. ASSUME NEW r \in Asked PROVE use[r] \in Answered /\ UsedBy(r, use[r])
  <2>1. r \in forwarded /\ r.q \in Query
    BY DEF Asked, EndsInv, Proxy!TypeOK, Proxy!Request
  <2>2. \E x \in Proxy!Key : UsedBy(r, x)
    BY <2>1 DEF Unanswered, Proxy!Key
  <2>3. use[r] \in Proxy!Key /\ UsedBy(r, use[r])
    BY <2>2
  <2> HIDE DEF use
  <2>4. answer[use[r]] # {}
    BY <2>3
  <2>5. 1 \in recvd[use[r]] /\ use[r] # cur
    BY <1>3, <2>3, <2>4 DEF HandInv, Begun
  <2> QED
    BY <2>3, <2>5 DEF Heads
<1>5. ASSUME NEW r \in Asked, NEW t \in Asked, use[r] = use[t] PROVE r = t
  <2>1. UsedBy(r, use[r]) /\ UsedBy(t, use[r]) /\ use[r] \in Proxy!Key
    BY <1>4, <1>5 DEF Heads
  <2> HIDE DEF use
  <2>2. PICK a \in answer[use[r]] : a.n = r.n
    BY <2>1
  <2>3. PICK b \in answer[use[r]] : b.n = t.n
    BY <2>1
  <2>4. a = b
    BY <2>1 DEF ProxyInv, Proxy!OnceInv, Proxy!AnsweredAtMostOnce
  <2> QED
    BY <2>2, <2>3, <2>4 DEF Asked, ProxyInv, Proxy!ResponseInv, Proxy!ForwardedInv
<1>6. use \in [Asked -> Answered]
  <2>1. \A r \in Asked : use[r] \in Answered
    BY <1>4
  <2> QED
    BY <2>1
<1> HIDE DEF use
<1>7. use \in Injection(Asked, Answered)
  BY <1>5, <1>6 DEF Injection, IsInjective
<1>8. /\ IsFiniteSet(Heads) /\ cur \in Heads /\ Cardinality(Heads) \in Nat
      /\ IsFiniteSet(Asked) /\ Cardinality(Asked) \in Nat
  BY <1>1, HeadsFinite, FS_CardinalityType DEF Heads, HeadsInv
<1>9. IsFiniteSet(Answered) /\ Cardinality(Answered) = Cardinality(Heads) - 1
  BY <1>8, FS_RemoveElement
<1> HIDE DEF Answered
<1>10. Cardinality(Asked) <= Cardinality(Answered)
  BY <1>7, <1>9, FS_Injection
<1>11. Cardinality(Heads) <= Cardinality(Asked)
  BY <1>2, <1>8 DEF HeadsInv
<1> QED
  BY <1>8, <1>9, <1>10, <1>11

\* The invariants of the server's side together.
SideInv == SourceInv /\ HandInv /\ HeadsInv

LEMMA SideInit == PathInit => SideInv
<1> SUFFICES ASSUME PathInit PROVE SideInv
  OBVIOUS
<1>1. Proxy!Init
  BY SameServer DEF PathInit
<1>2. SourceInv
  BY <1>1 DEF Proxy!Init, SourceInv, Proxy!NoHead
<1>3. HandInv
  BY <1>1 DEF Proxy!Init, HandInv, Begun
<1>4. Heads = {} /\ Asked = {} /\ ~HeadAtHand /\ buffer.off = 0
  BY <1>1 DEF Proxy!Init, Heads, Asked, HeadAtHand, Proxy!NoHead
<1>5. HeadsInv
  BY <1>4, FS_EmptySet DEF HeadsInv
<1> QED
  BY <1>2, <1>3, <1>5 DEF SideInv

LEMMA SideInvariant == PathSpec => []SideInv
<1>1. EndsInv /\ EndsInv' /\ ProxyInv /\ SideInv /\ [PathNext]_allVars => SideInv'
  BY SourceStep, HandStep, HeadsStep DEF SideInv
<1> QED
  BY <1>1, SideInit, EndsInvariant, ProxyInvariant, PTL DEF PathSpec

\* Whatever the scenario, the stub, the network and the engines do, the server
\* starves only for a query it holds itself, one it cannot read, or one that was
\* forwarded and never answered.
THEOREM StarvesOnlyForCause == PathSpec => []StarvesForCause
<1>1. EndsInv /\ ProxyInv /\ SideInv => StarvesForCause
  BY WaitIsForCause DEF SideInv
<1> QED
  BY <1>1, EndsInvariant, ProxyInvariant, SideInvariant, PTL

-----------------------------------------------------------------------------
(***************************************************************************)
(* OwnOrRepeated, for the shape the table of the demo scenario has: one    *)
(* stream without a previous one, which all the others follow.             *)
(***************************************************************************)
Fan(root) ==
  \A k \in DOMAIN Scenario : Previous[Scenario[k]] = IF Scenario[k] = root THEN None ELSE root

FanScenario == \E root \in Stream : Fan(root)

\* The followers are opened by one pass over the table, with one message, after
\* the first stream has ended; it ends after its answer has come.
Ended(root) == rx[root] = "fin" /\ got[root] # {}
CarryInv(root) ==
  /\ got \in [Stream -> SUBSET (1 .. 2)]
  /\ \A s \in Stream : got[s] # {} => queued[s] \in Query /\ answer[AtServer(s)] # {}
  /\ \A s \in Stream \ {root} : queued[s] # None => Ended(root)
  /\ fin_stream_id = root => Ended(root)
  /\ \A s, t \in Stream \ {root} : queued[s] # None /\ queued[t] # None => queued[s] = queued[t]
  /\ pc = "start" /\ fin_stream_id = root =>
       \A s \in Stream \ {root} : queued[s] # None => queued[s] = buffer_final

\* The first stream is answered before there is another query than its own.
RootInv(root) == \A x \in Proxy!Key : x[2][1] = root => \A a \in answer[x] : a.q = x[2][2]

\* What a step of the client does to its streams.
LEMMA ClientEffect ==
  ASSUME CountInv, NEW root \in Stream, Fan(root), Client
  PROVE  /\ rx' = rx
         /\ \/ /\ queued' = queued
               /\ fin_stream_id' \in {fin_stream_id, None}
               /\ pc' = "start" /\ fin_stream_id' = root =>
                    pc = "start" /\ fin_stream_id = root /\ buffer_final' = buffer_final
            \/ \E s \in Stream :
                 /\ queued[s] = None /\ queued' = [queued EXCEPT ![s] = buffer_final]
                 /\ UNCHANGED <<pc, fin_stream_id, buffer_final>>
                 /\ s # root => pc = "start" /\ fin_stream_id = root
<1>1. root # None
  BY ScenarioAssumption
<1>2. CASE OpenStream \/ OpenWithoutFile
  <2>1. /\ i \in DOMAIN Scenario /\ Previous[Entry] = fin_stream_id /\ pc = "start"
        /\ queued' = AddToStream(queued, Entry) /\ rx' = rx
        /\ UNCHANGED <<pc, fin_stream_id, buffer_final>>
    BY <1>2 DEF OpenStream, OpenWithoutFile, SentWithoutFile, Follows, Examines, app
  <2>2. Entry \in Stream
    BY <2>1, ScenarioAssumption DEF Entry
  <2>3. Entry # root => fin_stream_id = root
    BY <2>1 DEF Fan, Entry
  <2>4. \/ queued' = queued
        \/ queued[Entry] = None /\ queued' = [queued EXCEPT ![Entry] = buffer_final]
    BY <2>1 DEF AddToStream
  <2> QED
    BY <2>1, <2>2, <2>3, <2>4
<1>3. CASE SkipEntry \/ OpenWithoutMemory \/ StartDone
  BY <1>3 DEF SkipEntry, OpenWithoutMemory, StartDone, app, scan, engine
<1>4. CASE EngineReturns \/ RelayResponse \/ BatchDone \/ Exited
  BY <1>4 DEF EngineReturns, RelayResponse, BatchDone, Exited, vars, app, scan, engine
<1>5. CASE StartScenario
  BY <1>1, <1>5 DEF StartScenario, StartStreams, engine
<1>6. CASE Send
  BY <1>6 DEF Send, SendStream, SendOther, SendSkipped, SendFails, ExitAfterHandshake, Sending,
     app, scan, engine
<1> QED
  BY <1>2, <1>3, <1>4, <1>5, <1>6 DEF Client, Start

\* The end of a stream starts what follows it by FIN only.
LEMMA EndEffect ==
  ASSUME CountInv, NEW s \in Stream, StreamEnds(s)
  PROVE  /\ rx[s] = "open"
         /\ \E how \in {"fin", "reset"} : rx' = [rx EXCEPT ![s] = how]
         /\ UNCHANGED <<queued, buffer_final, server, got>>
         /\ \/ fin_stream_id' = fin_stream_id /\ pc' # "start"
            \/ fin_stream_id' = s /\ rx' = [rx EXCEPT ![s] = "fin"] /\ got[s] # {}
<1>1. rx[s] = "open" /\ pc = "engine" /\ UNCHANGED <<server, got>>
  BY DEF StreamEnds, FinDue, ResetDue, network
<1>2. CASE FinDue(s) /\ StreamFin(s)
  BY <1>1, <1>2 DEF StreamFin, StartStreams, app, FinDue
<1>3. CASE StreamReset(s)
  BY <1>1, <1>3 DEF StreamReset, AfterReset, app, scan
<1>4. CASE Unexpected(s) /\ rx'[s] \in {"fin", "reset"}
  <2>1. rx' \in {rx, [rx EXCEPT ![s] = "fin"], [rx EXCEPT ![s] = "reset"]}
        /\ UNCHANGED <<pc, queued, app, scan>>
    BY <1>4 DEF Unexpected
  <2>2. \E how \in {"fin", "reset"} : rx' = [rx EXCEPT ![s] = how]
    BY <1>1, <1>4, <2>1
  <2> QED
    BY <1>1, <2>1, <2>2 DEF app, scan
<1> QED
  BY <1>2, <1>3, <1>4 DEF StreamEnds

LEMMA SelectEffect ==
  ASSUME Select
  PROVE  UNCHANGED <<rx, queued, buffer_final, fin_stream_id>> /\ pc' # "start"
BY DEF Select, SelectTimeout, SelectError, ReceiveServer, ReceiveHandshake, ReceiveStub, app, scan, engine

LEMMA AnswersGrow ==
  ASSUME EndsInv, [PathNext]_allVars
  PROVE  \A x \in Proxy!Key : answer[x] \subseteq answer'[x]
<1>0. CountInv /\ Proxy!TypeOK
  BY DEF EndsInv
<1>1. answer \in [Proxy!Key -> SUBSET Proxy!Response]
  BY DEF EndsInv, Proxy!TypeOK
<1>2. CASE Proxy!Server
  BY <1>0, <1>1, <1>2, ServerEffect DEF Begins, Answers, Delivers, Forwards, Idles
<1>3. CASE UNCHANGED server
  BY <1>3 DEF server
<1>4. ASSUME NEW r \in upstream, Proxy!Resolve(r) \/ Proxy!Drop(r) PROVE answer' = answer
  BY <1>4, ResolverEffect
<1>5. ASSUME NEW n \in NoiseSize, Proxy!Arrive(NoisePacket(n)) PROVE answer' = answer
  BY <1>0, <1>5, NoiseSent, ArriveEffect
<1>6. ASSUME NEW s \in Stream, NEW k \in {1, 2}, NEW off \in Offset[queued[s]], DataComes(s, k, off)
      PROVE  answer' = answer
  BY <1>0, <1>6, ArriveEffect DEF DataComes
<1> QED
  BY <1>0, <1>2, <1>3, <1>4, <1>5, <1>6, ServerCases

\* Steps of the server leave the streams of the client alone.
LEMMA CarryKeeps ==
  ASSUME NEW root \in Stream, CarryInv(root),
         UNCHANGED <<rx, queued, got, fin_stream_id, buffer_final, pc>>,
         \A s \in Stream : queued[s] \in Query => answer[AtServer(s)] \subseteq answer'[AtServer(s)]
  PROVE  CarryInv(root)'
BY DEF CarryInv, AtServer, Ended

LEMMA CarryStep ==
  ASSUME NEW root \in Stream, Fan(root), EndsInv, CarryInv(root), [PathNext]_allVars
  PROVE  CarryInv(root)'
<1>0. /\ PathCases /\ CountInv /\ Proxy!TypeOK
      /\ queued \in [Stream -> Message \cup {None}] /\ rx \in [Stream -> {"open", "fin", "reset"}]
      /\ root # None /\ None \notin Query
  BY PathSplits, ScenarioAssumption DEF EndsInv, CountInv, TypeOK
<1>1. \A x \in Proxy!Key : answer[x] \subseteq answer'[x]
  BY AnswersGrow
<1>2. \A s \in Stream : queued[s] \in Query => AtServer(s) \in Proxy!Key
  BY DEF AtServer, Proxy!Key, Carried
<1>3. CASE UNCHANGED <<rx, queued, got, fin_stream_id, buffer_final, pc>>
  BY <1>1, <1>2, <1>3, CarryKeeps
<1>4. CASE ClientSteps
  <2>1. Client /\ UNCHANGED <<answer, got>>
    BY <1>4 DEF ClientSteps, server
  <2>2. rx' = rx
    BY <1>0, <2>1, ClientEffect
  <2>3. CASE /\ queued' = queued
             /\ fin_stream_id' \in {fin_stream_id, None}
             /\ pc' = "start" /\ fin_stream_id' = root =>
                  pc = "start" /\ fin_stream_id = root /\ buffer_final' = buffer_final
    BY <1>0, <2>1, <2>2, <2>3 DEF CarryInv, AtServer, Ended
  <2>4. ASSUME NEW s \in Stream, queued[s] = None, queued' = [queued EXCEPT ![s] = buffer_final],
               UNCHANGED <<pc, fin_stream_id, buffer_final>>,
               s # root => pc = "start" /\ fin_stream_id = root
        PROVE  CarryInv(root)'
    <3>1. \A t \in Stream : queued'[t] = IF t = s THEN buffer_final ELSE queued[t]
      BY <1>0, <2>4
    <3>2. \A t \in Stream : got'[t] # {} => queued'[t] \in Query /\ (answer[AtServer(t)] # {})'
      <4> SUFFICES ASSUME NEW t \in Stream, got[t] # {} PROVE queued'[t] \in Query /\ (answer[AtServer(t)] # {})'
        BY <2>1
      <4>1. queued[t] \in Query /\ answer[AtServer(t)] # {}
        BY DEF CarryInv
      <4>2. queued'[t] = queued[t]
        BY <1>0, <2>4, <3>1, <4>1
      <4> QED
        BY <2>1, <4>1, <4>2 DEF AtServer
    <3>3. (Ended(root))' = Ended(root)
      BY <2>1, <2>2 DEF Ended
    <3>4. \A t \in Stream \ {root} : queued'[t] # None => (Ended(root))'
      BY <2>4, <3>1, <3>3 DEF CarryInv
    <3>5. s = root => \A t \in Stream \ {root} : queued'[t] = queued[t]
      BY <3>1
    <3>6. s # root => \A t \in Stream \ {root} : queued'[t] # None => queued'[t] = buffer_final
      BY <2>4, <3>1 DEF CarryInv
    <3>7. \A t, u \in Stream \ {root} : queued'[t] # None /\ queued'[u] # None => queued'[t] = queued'[u]
      BY <3>5, <3>6 DEF CarryInv
    <3>8. pc' = "start" /\ fin_stream_id' = root =>
            \A t \in Stream \ {root} : queued'[t] # None => queued'[t] = buffer_final'
      BY <2>4, <3>5, <3>6 DEF CarryInv
    <3>9. fin_stream_id' = root => (Ended(root))'
      BY <2>4, <3>3 DEF CarryInv
    <3> QED
      BY <2>1, <3>2, <3>4, <3>7, <3>8, <3>9 DEF CarryInv
  <2> QED
    BY <1>0, <2>1, <2>3, <2>4, ClientEffect
<1>5. ASSUME NEW s \in Stream, StreamEnds(s) PROVE CarryInv(root)'
  <2>1. /\ rx[s] = "open"
        /\ \E how \in {"fin", "reset"} : rx' = [rx EXCEPT ![s] = how]
        /\ UNCHANGED <<queued, buffer_final, answer, got>>
        /\ \/ fin_stream_id' = fin_stream_id /\ pc' # "start"
           \/ fin_stream_id' = s /\ rx' = [rx EXCEPT ![s] = "fin"] /\ got[s] # {}
    BY <1>0, <1>5, EndEffect DEF server
  <2>2. \A t \in Stream : rx[t] = "fin" => rx'[t] = "fin"
    BY <1>0, <2>1
  <2>3. Ended(root) => (Ended(root))'
    BY <2>1, <2>2 DEF Ended
  <2>4. fin_stream_id' = root => (Ended(root))'
    <3>1. CASE fin_stream_id' = fin_stream_id
      BY <2>3, <3>1 DEF CarryInv
    <3>2. CASE fin_stream_id' = s /\ rx' = [rx EXCEPT ![s] = "fin"] /\ got[s] # {}
      BY <1>0, <2>1, <3>2 DEF Ended
    <3> QED
      BY <2>1, <3>1, <3>2
  <2>5. pc' = "start" /\ fin_stream_id' = root => \A t \in Stream \ {root} : queued'[t] = None
    BY <2>1 DEF CarryInv, Ended
  <2>6. \A t \in Stream : got'[t] # {} => queued'[t] \in Query /\ (answer[AtServer(t)] # {})'
    BY <2>1 DEF CarryInv, AtServer
  <2> QED
    BY <2>1, <2>3, <2>4, <2>5, <2>6 DEF CarryInv
<1>6. CASE ClientSelects
  <2>1. Select /\ UNCHANGED answer
    BY <1>0, <1>6, SelectsReceive DEF server
  <2>2. UNCHANGED <<rx, queued, buffer_final, fin_stream_id>> /\ pc' # "start"
    BY <2>1, SelectEffect
  <2>3. CASE got' = got
    BY <2>1, <2>2, <2>3 DEF CarryInv, AtServer, Ended
  <2>4. ASSUME NEW s \in Stream, NEW k \in 1 .. 2, got' = [got EXCEPT ![s] = @ \cup {k}],
               queued[s] \in Query, answer[AtServer(s)] # {}
        PROVE  CarryInv(root)'
    <3>1. got' \in [Stream -> SUBSET (1 .. 2)] /\ \A t \in Stream : got[t] # {} => got'[t] # {}
      BY <2>4 DEF CarryInv
    <3>2. \A t \in Stream : got'[t] # {} => queued[t] \in Query /\ answer[AtServer(t)] # {}
      BY <2>4 DEF CarryInv
    <3>3. Ended(root) => (Ended(root))'
      BY <2>2, <3>1 DEF Ended
    <3>4. \A t \in Stream : got'[t] # {} => queued'[t] \in Query /\ (answer[AtServer(t)] # {})'
      BY <2>1, <2>2, <3>2 DEF AtServer
    <3> QED
      BY <2>2, <3>1, <3>3, <3>4 DEF CarryInv
  <2> QED
    BY <1>0, <1>6, <2>3, <2>4, SelectsReceive
<1> QED
  BY <1>0, <1>3, <1>4, <1>5, <1>6 DEF PathCases, DataComes, allVars, vars, network, engine, scan, app

LEMMA RootStep ==
  ASSUME NEW root \in Stream, EndsInv, ProxyInv, ProxyInv', SideInv, CarryInv(root), RootInv(root),
         [PathNext]_allVars
  PROVE  RootInv(root)'
<1>0. CountInv /\ Proxy!TypeOK /\ SourceInv /\ HandInv
  BY DEF EndsInv, SideInv
<1>1. CASE answer' = answer
  BY <1>1 DEF RootInv
<1>2. CASE Answers
  <2>1. /\ s_pc = "wait" /\ cur \in Proxy!Key /\ forwarded' = forwarded
        /\ answer' = [answer EXCEPT ![cur] = @ \cup {Head(fd2)}]
        /\ answer \in [Proxy!Key -> SUBSET Proxy!Response]
    BY <1>0, <1>2 DEF Answers, Proxy!TypeOK
  <2>2. SUFFICES ASSUME cur[2][1] = root PROVE Head(fd2).q = cur[2][2]
    BY <2>1 DEF RootInv
  <2>3. queued[root] = cur[2][2] /\ cur = AtServer(root) /\ cur[2][2] \in Query
    <3>1. recvd[cur] # {}
      BY <1>0, <2>1 DEF HandInv, Begun
    <3>2. cur = <<Connection, <<cur[2][1], cur[2][2]>>>> /\ cur[2][2] \in Query
      BY <2>1 DEF Proxy!Key, Carried
    <3>3. queued[root] = cur[2][2]
      BY <1>0, <2>1, <2>2, <3>1 DEF SourceInv
    <3> QED
      BY <2>2, <3>2, <3>3 DEF AtServer
  <2>4. answer[cur] = {}
    <3>1. cur[1] = s_pkt.cnx /\ s_cnx_state[s_pkt.cnx] = "open" /\ status[cur] = "none"
      BY <2>1 DEF ProxyInv, Proxy!OnceInv
    <3> QED
      BY <2>1, <3>1 DEF ProxyInv, Proxy!OnceInv
  <2>5. \A t \in Stream \ {root} : queued[t] = None
    BY <2>3, <2>4 DEF CarryInv, Ended
  <2> DEFINE a == Head(fd2)
  <2>6. a \in answer'[cur]
    BY <2>1
  <2> HIDE DEF a
  <2>7. Proxy!RequestOf(a) \in forwarded /\ a.q \in Query
    BY <2>1, <2>6 DEF ProxyInv, Proxy!ResponseInv, Proxy!AnswerInv
  <2>8. Queried(a.q) /\ a.q # None
    BY <1>0, <2>7, ScenarioAssumption DEF SourceInv, Proxy!RequestOf
  <2>9. a.q = queued[root]
    BY <2>5, <2>8 DEF Queried
  <2> QED
    BY <2>3, <2>9 DEF a
<1>3. CASE Proxy!Server
  BY <1>0, <1>1, <1>2, <1>3, ServerEffect DEF Begins, Delivers, Forwards, Idles
<1>4. CASE UNCHANGED server
  BY <1>1, <1>4 DEF server
<1>5. ASSUME NEW r \in upstream, Proxy!Resolve(r) \/ Proxy!Drop(r) PROVE answer' = answer
  BY <1>5, ResolverEffect
<1>6. ASSUME NEW n \in NoiseSize, Proxy!Arrive(NoisePacket(n)) PROVE answer' = answer
  BY <1>0, <1>6, NoiseSent, ArriveEffect
<1>7. ASSUME NEW s \in Stream, NEW k \in {1, 2}, NEW off \in Offset[queued[s]], DataComes(s, k, off)
      PROVE  answer' = answer
  BY <1>0, <1>7, ArriveEffect DEF DataComes
<1> QED
  BY <1>0, <1>1, <1>3, <1>4, <1>5, <1>6, <1>7, ServerCases

\* The followers carry one message, the first stream was answered before there
\* was another: the answer to another query is to that of the first stream.
LEMMA OwnFromInv ==
  ASSUME NEW root \in Stream, EndsInv, ProxyInv, SideInv, CarryInv(root), RootInv(root)
  PROVE  OwnOrRepeated
<1> SUFFICES ASSUME NEW x \in {Connection} \X Carried, NEW a \in answer[x], a.q # x[2][2]
             PROVE  \E y \in {Connection} \X Carried : \E b \in answer[y] :
                      y[2][2] = a.q /\ b.q = a.q /\ b.n # a.n
  BY DEF OwnOrRepeated
<1>1. x \in Proxy!Key /\ x[2][1] \in Stream /\ x[2][2] \in Query
  BY DEF Proxy!Key, Carried
<1>2. queued[x[2][1]] = x[2][2]
  BY <1>1 DEF SideInv, HandInv, Begun, SourceInv
<1>3. x[2][1] # root
  BY <1>1 DEF RootInv
<1>4. queued[root] \in Query /\ answer[AtServer(root)] # {}
  BY <1>1, <1>2, <1>3, ScenarioAssumption DEF CarryInv, Ended
<1>5. Proxy!RequestOf(a) \in forwarded /\ a.q \in Query
  BY <1>1 DEF ProxyInv, Proxy!ResponseInv, Proxy!AnswerInv
<1>6. a.q # None
  BY <1>5, ScenarioAssumption
<1>7. Queried(a.q)
  BY <1>5, <1>6 DEF SideInv, SourceInv, Proxy!RequestOf
<1>8. PICK t \in Stream : queued[t] = a.q
  BY <1>7 DEF Queried
<1>9. x[2][2] # None
  BY <1>1, ScenarioAssumption
<1>10. t = root
  BY <1>1, <1>2, <1>3, <1>6, <1>8, <1>9 DEF CarryInv
<1> DEFINE y == AtServer(root)
<1>11. y \in {Connection} \X Carried /\ y \in Proxy!Key /\ y[2][1] = root /\ y[2][2] = queued[root]
  BY <1>4 DEF AtServer, Carried, Proxy!Key
<1> HIDE DEF y
<1>12. PICK b \in answer[y] : TRUE
  BY <1>4 DEF y
<1>13. b.q = queued[root]
  BY <1>11, <1>12 DEF RootInv
<1>14. x # y
  BY <1>3, <1>11
<1>15. b.n # a.n
  BY <1>1, <1>11, <1>12, <1>14 DEF ProxyInv, Proxy!ResponseInv, Proxy!AnswerInv, Proxy!ResponseUsedOnce
<1> QED
  BY <1>8, <1>10, <1>11, <1>12, <1>13, <1>15

\* With a first stream that all others follow, a stream is answered with the
\* response to another query than its own only when that query has been forwarded
\* more than once and its own stream was answered from another exchange: for all
\* sets of streams and queries, packets late, out of order, lost upstream or sent
\* again.
THEOREM AnswersAreOwn == FanScenario => (PathSpec => []OwnOrRepeated)
<1> SUFFICES ASSUME NEW root \in Stream, Fan(root) PROVE PathSpec => []OwnOrRepeated
  BY DEF FanScenario
<1>1. PathInit => CarryInv(root) /\ RootInv(root)
  <2> SUFFICES ASSUME PathInit PROVE CarryInv(root) /\ RootInv(root)
    OBVIOUS
  <2>1. /\ got = [s \in Stream |-> {}] /\ queued = [s \in Stream |-> None]
        /\ fin_stream_id = None /\ pc = "select" /\ root # None
    BY ScenarioAssumption DEF PathInit, Init
  <2>2. \A x \in Proxy!Key : answer[x] = {}
    BY SameServer DEF PathInit, Proxy!Init
  <2>3. CarryInv(root)
    BY <2>1 DEF CarryInv
  <2> QED
    BY <2>2, <2>3 DEF RootInv
<1>2. /\ EndsInv /\ ProxyInv /\ ProxyInv' /\ SideInv /\ CarryInv(root) /\ RootInv(root)
      /\ [PathNext]_allVars
      => CarryInv(root)' /\ RootInv(root)'
  BY CarryStep, RootStep
<1>3. EndsInv /\ ProxyInv /\ SideInv /\ CarryInv(root) /\ RootInv(root) => OwnOrRepeated
  BY OwnFromInv
<1> QED
  BY <1>1, <1>2, <1>3, EndsInvariant, ProxyInvariant, SideInvariant, PTL DEF PathSpec

-----------------------------------------------------------------------------
============================================================================
