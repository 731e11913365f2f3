--------------------------- MODULE DnsQuicServer ---------------------------
(***************************************************************************)
(* The DNS-over-QUIC proxy server of picoquicdemo.c: the single-threaded   *)
(* loop quic_server and the stream callback first_server_callback.         *)
(*                                                                         *)
(* For every UDP datagram it receives, the loop                            *)
(*   1. hands it to the QUIC engine, which calls first_server_callback     *)
(*      synchronously for each piece of stream data that is now in order;  *)
(*      the callback for a complete request BLOCKS in recvfrom on the DNS  *)
(*      socket until a datagram with the flags 0x81 0x90 shows up;         *)
(*   2. copies what lies at a fixed offset of the datagram, query or not,  *)
(*      to the resolver through the same DNS socket;                       *)
(*   3. lets the engine send what the connections have to send.            *)
(* The response the callback takes is the oldest one in the socket queue:  *)
(* nothing relates it to the request of the stream.                        *)
(*                                                                         *)
(* The QUIC engine (picoquic), the resolver and the network are external.  *)
(***************************************************************************)
EXTENDS Naturals, Sequences, FiniteSets

CONSTANTS
  Conn,           \* connections that clients may open
  Stream,         \* client-initiated streams
  Query,          \* DNS queries, one value per query message
  ZeroIdQuery,    \* queries whose transaction id starts with the byte 0x00
  LongQuery,      \* queries of more than 80 bytes
  RefusedQuery,   \* queries whose response does not have the flags 0x81 0x90
  GetQuery,       \* requests that http0dot9_get has a response to
  Content,        \* Content[c, s]: the chunks client c writes on stream s
  Packets,        \* the packets that may arrive (see Packet)
  CommandMax,     \* PICOQUIC_FIRST_COMMAND_MAX
  Network,        \* what the network does to packets: "any" or "ordered"
  ErrorReply,     \* whether the resolver sends an error for what is no query
  Lossy,          \* TRUE: the path to the resolver may lose datagrams
  MaxPackets,     \* bound: packets received in a behaviour
  MaxFail,        \* bound: failures of malloc, select and prepare_packet
  None            \* no connection; also "not a query"

Key == Conn \X Stream

\* A chunk is what one stream frame carries.  Chunk 1 of a stream starts with
\* the DNS query; the last chunk carries FIN.  crlf: it holds a byte 0x0d or 0x0a.
Chunk == [q : Query, len : Nat, crlf : BOOLEAN]

\* off is the offset at which the data of the first frame starts.  A stray is a
\* datagram the engine makes nothing of.
Packet == [cnx : Conn, kind : {"data", "reset", "stop", "close", "stray"},
           frames : Seq(Stream \X (Nat \ {0})), off : Nat, size : Nat]

\* Sizes that overwrite all of a query that begins at 26 or 30, or nothing: a
\* datagram in between leaves a query with some other transaction id.
Size == {n \in Nat : n \notin (27 .. 29) \cup (31 .. 32)}

ASSUME QueryAssumption ==
  /\ None \notin Query \cup Conn
  /\ ZeroIdQuery \subseteq Query
  /\ LongQuery \subseteq Query
  /\ RefusedQuery \subseteq Query
  /\ GetQuery \subseteq Query

ASSUME ContentAssumption ==
  /\ Content \in [Key -> Seq(Chunk)]
  /\ \A x \in Key : \A k \in DOMAIN Content[x] : Content[x][k].q = Content[x][1].q

\* Every frame of a packet names a chunk its stream has; the frames of an
\* abort packet name the stream it aborts.
ASSUME PacketsAssumption ==
  /\ Packets \subseteq Packet
  /\ \A p \in Packets : p.size \in Size /\ (p.kind = "data" /\ p.frames # <<>> => p.size > 32)
  /\ \A p \in Packets : \A i \in DOMAIN p.frames :
        p.frames[i][2] \in DOMAIN Content[<<p.cnx, p.frames[i][1]>>]
  /\ \A p \in Packets : p.kind \in {"reset", "stop"} => Len(p.frames) = 1

ASSUME BoundAssumption ==
  /\ CommandMax \in Nat \ {0}
  /\ MaxPackets \in Nat
  /\ MaxFail \in Nat
  /\ Network \in {"any", "ordered"}
  /\ ErrorReply \in SUBSET BOOLEAN \ {{}}
  /\ Lossy \in BOOLEAN

VARIABLES
  pc,               \* where the thread is
  pkt,              \* the datagram being processed
  buffer,           \* the query in buffer, and the offset at which it starts
  cur,              \* the stream whose callback blocks in recvfrom
  cnx_state,        \* engine: "idle", "open" or "closed" per connection
  first_cnx,        \* engine: the connection created last
  recvd,            \* engine: chunks received per stream
  delivered,        \* engine: how many chunks were handed to the callback
  reset_sent,       \* engine: streams the server has reset
  sent,             \* engine: streams whose answer has been transmitted
  has_ctx,          \* the connection has a callback context
  status,           \* stream_ctx->status, "absent" without a stream_ctx
  command_length,   \* stream_ctx->command_length
  response_length,  \* stream_ctx->response_length # 0
  cnx_server,       \* the connection the loop reports on
  fd2,              \* receive queue of the DNS socket (global_fd)
  upstream,         \* queries on their way to the resolver, or responses on their way back
  forwarded,        \* history: datagrams sent to the resolver
  answer,           \* history: responses given to add_to_stream per stream
  received,         \* how many datagrams have been received
  fails             \* how many failures have happened

engine == <<cnx_state, first_cnx, recvd, delivered, reset_sent, sent>>
contexts == <<has_ctx, status, command_length, response_length>>
dns == <<fd2, upstream, forwarded>>
vars == <<pc, pkt, buffer, cur, engine, contexts, cnx_server, dns, answer, received, fails>>

Status == {"absent", "none", "finished"}
PC == {"select", "deliver", "wait", "forward", "send", "exit"}

\* A datagram for the resolver, numbered in the order they are sent, and the
\* response to it; ok: the response has the flags 0x81 0x90.
Request == [n : Nat, q : Query \cup {None}]
Response == [n : Nat, q : Query \cup {None}, ok : BOOLEAN]

Start == [q : Query \cup {None}, off : Nat]

TypeOK ==
  /\ pc \in PC
  /\ pkt \in Packets \cup {None}
  /\ (pc \in {"deliver", "wait", "forward"} => pkt \in Packets)
  /\ buffer \in Start
  /\ cur \in Key \cup {None}
  /\ (pc = "wait" => cur \in Key)
  /\ cnx_state \in [Conn -> {"idle", "open", "closed"}]
  /\ first_cnx \in Conn \cup {None}
  /\ recvd \in [Key -> SUBSET (Nat \ {0})]
  /\ \A x \in Key : recvd[x] \subseteq DOMAIN Content[x]
  /\ delivered \in [Key -> Nat]
  /\ reset_sent \in [Key -> BOOLEAN]
  /\ sent \in [Key -> BOOLEAN]
  /\ has_ctx \in [Conn -> BOOLEAN]
  /\ status \in [Key -> Status]
  /\ command_length \in [Key -> Nat]
  /\ response_length \in [Key -> BOOLEAN]
  /\ \A x \in Key : status[x] = "absent" => command_length[x] = 0 /\ ~response_length[x]
  /\ cnx_server \in Conn \cup {None}
  /\ fd2 \in Seq(Response)
  /\ upstream \in SUBSET Request
  /\ forwarded \in SUBSET Request
  /\ answer \in [Key -> SUBSET Response]
  /\ received \in Nat
  /\ fails \in Nat

NoHead == [q |-> None, off |-> 0]

Init ==
  /\ pc = "select"
  /\ pkt = None
  /\ buffer = NoHead
  /\ cur = None
  /\ cnx_state = [c \in Conn |-> "idle"]
  /\ first_cnx = None
  /\ recvd = [x \in Key |-> {}]
  /\ delivered = [x \in Key |-> 0]
  /\ reset_sent = [x \in Key |-> FALSE]
  /\ sent = [x \in Key |-> FALSE]
  /\ has_ctx = [c \in Conn |-> FALSE]
  /\ status = [x \in Key |-> "absent"]
  /\ command_length = [x \in Key |-> 0]
  /\ response_length = [x \in Key |-> FALSE]
  /\ cnx_server = None
  /\ fd2 = <<>>
  /\ upstream = {}
  /\ forwarded = {}
  /\ answer = [x \in Key |-> {}]
  /\ received = 0
  /\ fails = 0

-----------------------------------------------------------------------------
(***************************************************************************)
(* Waiting for a datagram (picoquic_select).                               *)
(***************************************************************************)

SelectTimeout ==
  /\ pc = "select"
  /\ pc' = "send"
  /\ UNCHANGED <<pkt, buffer, cur, engine, contexts, cnx_server, dns, answer, received, fails>>

\* bytes_recv < 0: ret = -1 ends the loop and the server.
SelectError ==
  /\ pc = "select"
  /\ fails < MaxFail
  /\ fails' = fails + 1
  /\ pc' = "exit"
  /\ UNCHANGED <<pkt, buffer, cur, engine, contexts, cnx_server, dns, answer, received>>

FrameKey(p, i) == <<p.cnx, p.frames[i][1]>>

\* "ordered": data arrives in the order of the stream, once.
InOrder(p) ==
  \A i \in DOMAIN p.frames : recvd[FrameKey(p, i)] = 1 .. p.frames[i][2] - 1

\* What the network may deliver next; "any" is any packet, any number of times.
Arrives(p) == Network = "ordered" /\ p.kind = "data" => InOrder(p)

\* The query whose first bytes the packet carries, if it carries any.
HeadOf(p) ==
  IF p.kind = "data" /\ p.frames # <<>> /\ p.frames[1][2] = 1
    THEN [q |-> Content[FrameKey(p, 1)][1].q, off |-> p.off]
    ELSE NoHead

\* buffer is never cleared: a datagram too short to reach a query that an
\* earlier one left there leaves it as it is.
Received(p) == IF p.size <= buffer.off THEN buffer ELSE HeadOf(p)

\* The engine stores the stream data of the packet, unless the connection is
\* gone; a first packet creates the connection.
Arrive(p) ==
  /\ pc = "select"
  /\ received < MaxPackets
  /\ Arrives(p)
  /\ received' = received + 1
  /\ pkt' = p
  /\ buffer' = Received(p)
  /\ pc' = "deliver"
  /\ IF cnx_state[p.cnx] = "idle" /\ p.kind # "stray"
       THEN /\ cnx_state' = [cnx_state EXCEPT ![p.cnx] = "open"]
            /\ first_cnx' = p.cnx
       ELSE UNCHANGED <<cnx_state, first_cnx>>
  /\ recvd' = IF p.kind = "data" /\ cnx_state[p.cnx] # "closed"
                THEN [x \in Key |-> recvd[x] \cup
                        {p.frames[i][2] : i \in {j \in DOMAIN p.frames : FrameKey(p, j) = x}}]
                ELSE recvd
  /\ UNCHANGED <<cur, delivered, reset_sent, sent, contexts, cnx_server, dns, answer, fails>>

-----------------------------------------------------------------------------
(***************************************************************************)
(* first_server_callback, for the connection of the packet.                *)
(***************************************************************************)

\* Chunk delivered[x] + 1 of the stream has arrived: the engine calls back.
Deliverable(x) ==
  /\ pc = "deliver"
  /\ pkt.kind = "data"
  /\ cnx_state[pkt.cnx] = "open"
  /\ x[1] = pkt.cnx
  /\ delivered[x] + 1 \in recvd[x]

NextChunk(x) == Content[x][delivered[x] + 1]
Fin(x) == delivered[x] + 1 = Len(Content[x])

\* stream_ctx->status as the callback sees it: a missing one is allocated,
\* cleared by memset.
StatusSeenUnlinked(x) == status[x]    \* faulty: the new context is not linked
StatusSeenFresh(x) == "none"          \* faulty: a context is allocated each time
StatusSeen(x) == IF status[x] = "absent" THEN "none" ELSE status[x]

\* first_server_callback_create_context failed: picoquic_close.
ContextFails(x) ==
  /\ Deliverable(x)
  /\ ~has_ctx[pkt.cnx]
  /\ fails < MaxFail
  /\ fails' = fails + 1
  /\ cnx_state' = [cnx_state EXCEPT ![pkt.cnx] = "closed"]
  /\ delivered' = [delivered EXCEPT ![x] = @ + 1]
  /\ UNCHANGED <<pc, pkt, buffer, cur, first_cnx, recvd, reset_sent, sent, contexts,
                 cnx_server, dns, answer, received>>

\* malloc of the stream context failed: reset_stream(500).
StreamContextFails(x) ==
  /\ Deliverable(x)
  /\ status[x] = "absent"
  /\ fails < MaxFail
  /\ fails' = fails + 1
  /\ has_ctx' = [has_ctx EXCEPT ![pkt.cnx] = TRUE]
  /\ reset_sent' = [reset_sent EXCEPT ![x] = TRUE]
  /\ delivered' = [delivered EXCEPT ![x] = @ + 1]
  /\ UNCHANGED <<pc, pkt, buffer, cur, cnx_state, first_cnx, recvd, sent, status, command_length,
                 response_length, cnx_server, dns, answer, received>>

TooLongOffByOne(x) == command_length[x] + NextChunk(x).len > CommandMax \* faulty
TooLong(x) == command_length[x] + NextChunk(x).len > CommandMax - 1

\* Data on a finished stream, or too much of it: reset, nothing is stored.
Overrun(x) ==
  /\ Deliverable(x)
  /\ StatusSeen(x) = "finished" \/ TooLong(x)
  /\ has_ctx' = [has_ctx EXCEPT ![pkt.cnx] = TRUE]
  /\ status' = [status EXCEPT ![x] = StatusSeen(x)]
  /\ reset_sent' = [reset_sent EXCEPT ![x] = TRUE]
  /\ delivered' = [delivered EXCEPT ![x] = @ + 1]
  /\ UNCHANGED <<pc, pkt, buffer, cur, cnx_state, first_cnx, recvd, sent, command_length,
                 response_length, cnx_server, dns, answer, received, fails>>

\* FIN, or a CR or LF among the new bytes.
RequestEndsCrlfOnly(x) == NextChunk(x).crlf \* faulty: ignores FIN
RequestEnds(x) == Fin(x) \/ NextChunk(x).crlf

\* The bytes are stored; a request that is complete blocks in recvfrom.
Store(x) ==
  /\ Deliverable(x)
  /\ StatusSeen(x) # "finished"
  /\ ~TooLong(x)
  /\ has_ctx' = [has_ctx EXCEPT ![pkt.cnx] = TRUE]
  /\ status' = [status EXCEPT ![x] = StatusSeen(x)]
  /\ command_length' = [command_length EXCEPT ![x] = @ + NextChunk(x).len]
  /\ delivered' = [delivered EXCEPT ![x] = @ + 1]
  /\ IF RequestEnds(x) /\ ~response_length[x]
       THEN pc' = "wait" /\ cur' = x
       ELSE UNCHANGED <<pc, cur>>
  /\ UNCHANGED <<pkt, buffer, cnx_state, first_cnx, recvd, reset_sent, sent, response_length,
                 cnx_server, dns, answer, received, fails>>

\* recvfrom timed out after 3 seconds: the while(1) loop tries again.
RecvTimeout ==
  /\ pc = "wait"
  /\ fd2 = <<>>
  /\ UNCHANGED vars

\* buffer_recieve[2] == 0x81 && buffer_recieve[3] == 0x90.
IsResponseUnchecked(d) == d.n = d.n    \* faulty: any datagram is a response
IsResponse(d) == d.ok

\* recvfrom takes the datagram off the queue.
TakenTwice(queue) == queue             \* faulty: the old buffer is used again
Taken(queue) == Tail(queue)

\* What the callback makes of stream_ctx->status before it answers.
Answered == "finished"

\* A datagram without the flags 0x81 0x90 is read and forgotten.
RecvOther ==
  /\ pc = "wait"
  /\ fd2 # <<>>
  /\ ~IsResponse(Head(fd2))
  /\ fd2' = Taken(fd2)
  /\ UNCHANGED <<pc, pkt, buffer, cur, engine, contexts, cnx_server, upstream, forwarded, answer,
                 received, fails>>

\* The oldest datagram has the flags: whatever it answers, it becomes the
\* answer of the stream, with FIN.  What http0dot9_get produces is not sent.
RecvResponse ==
  /\ pc = "wait"
  /\ fd2 # <<>>
  /\ IsResponse(Head(fd2))
  /\ fd2' = Taken(fd2)
  /\ status' = [status EXCEPT ![cur] = Answered]
  /\ response_length' = [response_length EXCEPT ![cur] = Content[cur][1].q \in GetQuery]
  /\ answer' = [answer EXCEPT ![cur] = @ \cup {Head(fd2)}]
  /\ pc' = "deliver"
  /\ cur' = None
  /\ UNCHANGED <<pkt, buffer, engine, has_ctx, command_length, cnx_server, upstream, forwarded,
                 received, fails>>

\* stop_sending or stream_reset from the peer.
PeerAborts ==
  /\ pc = "deliver"
  /\ pkt.kind \in {"reset", "stop"}
  /\ cnx_state[pkt.cnx] = "open"
  /\ LET x == FrameKey(pkt, 1) IN
       /\ has_ctx' = [has_ctx EXCEPT ![pkt.cnx] = TRUE]
       /\ status' = [status EXCEPT ![x] = "finished"]
       /\ reset_sent' = [reset_sent EXCEPT ![x] = TRUE]
  /\ pc' = "forward"
  /\ UNCHANGED <<pkt, buffer, cur, cnx_state, first_cnx, recvd, delivered, sent, command_length,
                 response_length, cnx_server, dns, answer, received, fails>>

\* The callback of an abort event allocates like any other, and may fail to.
AbortFails ==
  /\ pc = "deliver"
  /\ pkt.kind \in {"reset", "stop"}
  /\ cnx_state[pkt.cnx] = "open"
  /\ fails < MaxFail
  /\ fails' = fails + 1
  /\ LET x == FrameKey(pkt, 1) IN
       \/ /\ ~has_ctx[pkt.cnx]
          /\ cnx_state' = [cnx_state EXCEPT ![pkt.cnx] = "closed"]
          /\ UNCHANGED <<has_ctx, reset_sent>>
       \/ /\ status[x] = "absent"
          /\ has_ctx' = [has_ctx EXCEPT ![pkt.cnx] = TRUE]
          /\ reset_sent' = [reset_sent EXCEPT ![x] = TRUE]
          /\ UNCHANGED cnx_state
  /\ pc' = "forward"
  /\ UNCHANGED <<pkt, buffer, cur, first_cnx, recvd, delivered, sent, status, command_length,
                 response_length, cnx_server, dns, answer, received>>

\* close or application_close: the context is dropped (and leaked).
PeerCloses ==
  /\ pc = "deliver"
  /\ pkt.kind = "close"
  /\ cnx_state[pkt.cnx] = "open"
  /\ cnx_state' = [cnx_state EXCEPT ![pkt.cnx] = "closed"]
  /\ has_ctx' = [has_ctx EXCEPT ![pkt.cnx] = FALSE]
  /\ status' = [x \in Key |-> IF x[1] = pkt.cnx THEN "absent" ELSE status[x]]
  /\ command_length' = [x \in Key |-> IF x[1] = pkt.cnx THEN 0 ELSE command_length[x]]
  /\ response_length' = [x \in Key |-> IF x[1] = pkt.cnx THEN FALSE ELSE response_length[x]]
  /\ pc' = "forward"
  /\ UNCHANGED <<pkt, buffer, cur, first_cnx, recvd, delivered, reset_sent, sent,
                 cnx_server, dns, answer, received, fails>>

\* The engine has no more events for this packet.
DeliverDone ==
  /\ pc = "deliver"
  /\ cnx_state[pkt.cnx] = "open" => pkt.kind \in {"data", "stray"}
  /\ \A x \in Key : ~Deliverable(x)
  /\ pc' = "forward"
  /\ UNCHANGED <<pkt, buffer, cur, engine, contexts, cnx_server, dns, answer, received, fails>>

-----------------------------------------------------------------------------
(***************************************************************************)
(* Forwarding to the resolver.                                             *)
(***************************************************************************)

\* Byte 30 of buffer is 0x00: copy from byte 26 on; otherwise copy 80 bytes
\* from byte 30 on.  Byte 30 is the high byte of QDCOUNT when the query starts
\* at 26, and of the transaction id when it starts at 30.
ExtractAt30(b) ==                      \* faulty: without the copy from byte 26
  IF b.off = 30 THEN b.q ELSE None
Extract(b) ==
  IF b.off = 26 \/ (b.off = 30 /\ b.q \notin ZeroIdQuery \cup LongQuery) THEN b.q ELSE None

\* What is no query draws an error, or nothing.  recvfrom reads an error and
\* forgets it: when it comes makes no difference, and it comes at once.
Error(n) == [n |-> n, q |-> None, ok |-> FALSE]

\* sendto for every datagram received; cnx_server follows the first connection.
Forward ==
  /\ pc = "forward"
  /\ LET r == [n |-> received, q |-> Extract(buffer)] IN
       /\ forwarded' = forwarded \cup {r}
       /\ IF r.q = None
            THEN /\ \E sends \in ErrorReply : fd2' = IF sends THEN Append(fd2, Error(r.n)) ELSE fd2
                 /\ UNCHANGED upstream
            ELSE upstream' = upstream \cup {r} /\ UNCHANGED fd2
  /\ cnx_server' = IF first_cnx # None THEN first_cnx ELSE cnx_server
  /\ pc' = "send"
  /\ UNCHANGED <<pkt, buffer, cur, engine, contexts, answer, received, fails>>

\* The resolver responds to a query.
Resolve(r) ==
  /\ r \in upstream
  /\ upstream' = upstream \ {r}
  /\ fd2' = Append(fd2, [n |-> r.n, q |-> r.q, ok |-> r.q \in Query \ RefusedQuery])
  /\ UNCHANGED <<pc, pkt, buffer, cur, engine, contexts, cnx_server, forwarded, answer, received, fails>>

\* The query or its response is lost.
Drop(r) ==
  /\ r \in upstream
  /\ Lossy
  /\ upstream' = upstream \ {r}
  /\ UNCHANGED <<pc, pkt, buffer, cur, engine, contexts, cnx_server, fd2, forwarded, answer,
                 received, fails>>

-----------------------------------------------------------------------------
(***************************************************************************)
(* Sending, as long as a connection has to wake up.                        *)
(***************************************************************************)

Unsent(x) == answer[x] # {} /\ ~reset_sent[x] /\ ~sent[x] /\ cnx_state[x[1]] = "open"

\* picoquic_prepare_packet succeeded: the answers of the connection go out.
Send(c) ==
  /\ pc = "send"
  /\ \E s \in Stream : Unsent(<<c, s>>)
  /\ sent' = [x \in Key |-> sent[x] \/ (x[1] = c /\ Unsent(x))]
  /\ UNCHANGED <<pc, pkt, buffer, cur, cnx_state, first_cnx, recvd, delivered, reset_sent,
                 contexts, cnx_server, dns, answer, received, fails>>

\* PICOQUIC_ERROR_DISCONNECTED: leave the sending loop; the connection is not deleted.
SendDisconnected(c) ==
  /\ pc = "send"
  /\ cnx_state[c] = "closed"
  /\ cnx_server' = IF cnx_server = c THEN None ELSE cnx_server
  /\ pc' = "select"
  /\ pkt' = None
  /\ UNCHANGED <<buffer, cur, engine, contexts, dns, answer, received, fails>>

\* No packet buffer, or any other error of prepare_packet: the server ends.
SendError ==
  /\ pc = "send"
  /\ \E c \in Conn : cnx_state[c] # "idle"
  /\ fails < MaxFail
  /\ fails' = fails + 1
  /\ pc' = "exit"
  /\ UNCHANGED <<pkt, buffer, cur, engine, contexts, cnx_server, dns, answer, received>>

\* picoquic_get_earliest_cnx_to_wake returns NULL.
SendDone ==
  /\ pc = "send"
  /\ \A x \in Key : ~Unsent(x)
  /\ pc' = "select"
  /\ pkt' = None
  /\ UNCHANGED <<buffer, cur, engine, contexts, cnx_server, dns, answer, received, fails>>

Exited ==
  /\ pc = "exit"
  /\ UNCHANGED vars

-----------------------------------------------------------------------------

Callback(x) == ContextFails(x) \/ StreamContextFails(x) \/ Overrun(x) \/ Store(x)

Server ==
  \/ SelectTimeout \/ SelectError
  \/ \E x \in Key : Callback(x)
  \/ RecvTimeout \/ RecvOther \/ RecvResponse
  \/ PeerAborts \/ AbortFails \/ PeerCloses \/ DeliverDone
  \/ Forward
  \/ \E c \in Conn : Send(c) \/ SendDisconnected(c)
  \/ SendError \/ SendDone \/ Exited

Environment ==
  \/ \E p \in Packets : Arrive(p)
  \/ \E r \in upstream : Resolve(r) \/ Drop(r)

Next == Server \/ Environment

Spec == Init /\ [][Next]_vars

-----------------------------------------------------------------------------
(***************************************************************************)
(* Properties.                                                             *)
(***************************************************************************)

\* The request fits the buffer command[PICOQUIC_FIRST_COMMAND_MAX] with the
\* 0 that first_server_callback writes after it.
CommandFits == \A x \in Key : command_length[x] <= CommandMax - 1

\* One response of the resolver answers at most one stream: a datagram that
\* recvfrom returned is not used again for another request.
ResponseUsedOnce ==
  \A x, y \in Key : \A a \in answer[x], b \in answer[y] :
     a.n = b.n => x = y /\ a = b

\* The callback answers a stream once, although CR or LF in its data makes a
\* request complete before FIN makes it complete again.
AnsweredAtMostOnce == \A x \in Key : \A a, b \in answer[x] : a = b

\* What is put on a stream is a response with the flags 0x81 0x90 to a query
\* forwarded earlier, for an earlier datagram than the one being processed.
AnswersAreResponses ==
  \A x \in Key : \A a \in answer[x] :
    /\ a.q \in Query \ RefusedQuery
    /\ [n |-> a.n, q |-> a.q] \in forwarded

\* A finished stream keeps its status and its command as long as the
\* connection keeps its context.
FinishedIsFinal ==
  [][\A x \in Key : status[x] = "finished" /\ has_ctx'[x[1]] =>
        status'[x] = "finished" /\ command_length'[x] = command_length[x]]_vars

-----------------------------------------------------------------------------
(***************************************************************************)
(* The server implements the exchange of DnsExchange: the datagrams it     *)
(* forwards are the exchanges, answer is what the streams are given.       *)
(***************************************************************************)
Given == [x \in Key |-> {[n |-> a.n, q |-> a.q] : a \in answer[x]}]

Exchange == INSTANCE DnsExchange
              WITH Content <- Query \cup {None}, Positive <- Query \ RefusedQuery,
                   asked <- forwarded, given <- Given

\* Through reordering, duplication, aborts, failures and surplus datagrams, the
\* blocking callback gives a stream one answer, from an exchange of its own.
ImplementsExchange == Exchange!Spec
=============================================================================
