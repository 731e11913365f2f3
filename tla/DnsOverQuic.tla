---------------------------- MODULE DnsOverQuic ----------------------------
(***************************************************************************)
(* The whole path of a query: stub, client proxy, QUIC connection, server  *)
(* proxy, resolver, and back.  The client is extended, the server is an    *)
(* instance beside it; this module is the connection between them.         *)
(*                                                                         *)
(* The server forgets which query a stream carries, forwards every         *)
(* datagram, and takes the oldest response for the stream at hand.  The    *)
(* datagrams come as UDP and the engines make them: late, out of order,    *)
(* again when they are sent again, with the query where the other frames   *)
(* leave it.  QUIC puts in order only what the callback is given.          *)
(*                                                                         *)
(* External: the two engines, which bring all stream data across in the    *)
(* end and do not close the connection, the network and the resolver.      *)
(* Neither proxy runs out of memory or descriptors here.                   *)
(***************************************************************************)
EXTENDS DnsQuicClient

CONSTANTS
  Connection,     \* the client's connection
  ZeroIdQuery, LongQuery, RefusedQuery,
  Offset,         \* Offset[q]: where the data may start in a packet with the head of q
  LineEnds,       \* LineEnds[s, q]: the packets of stream s with CR or LF when it carries q
  NoiseSize,      \* sizes of the datagrams without stream data
  ErrorReply,     \* whether the resolver sends an error for what is no query
  Lossy,          \* TRUE: the path to the resolver may lose datagrams
  MaxNoise,       \* bound: datagrams without stream data
  MaxRepeats      \* bound: datagrams whose stream data the server has already

VARIABLES
  s_pc, s_pkt, buffer, cur, s_cnx_state, first_cnx, recvd, delivered, s_reset_sent, s_sent,
  has_ctx, status, command_length, response_length, cnx_server, fd2, upstream, forwarded,
  answer, received, s_fails,
  part,           \* the stream that the packet the client handles is about
  got,            \* which packets of the answer of each stream the client has received
  noise,          \* datagrams without stream data the server has received
  repeats         \* datagrams with stream data it had already

server == <<s_pc, s_pkt, buffer, cur, s_cnx_state, first_cnx, recvd, delivered, s_reset_sent,
            s_sent, has_ctx, status, command_length, response_length, cnx_server, fd2,
            upstream, forwarded, answer, received, s_fails>>
network == <<part, got, noise, repeats>>
allVars == <<vars, server, network>>

\* A stream carries one message for good (FirstQueryKept): to the server a
\* stream with its message is a stream of its own.
Carried == Stream \X Query

\* buffer_final is 1536 bytes of buffer, more than a packet holds: the query
\* and behind it what earlier datagrams have left, CR and LF included.
BufferFinal(x) ==
  [k \in 1 .. StreamPackets |-> [q |-> x[2], len |-> 2, crlf |-> k \in LineEnds[x]]]

DataPacket(x, k, off) ==
  [cnx |-> Connection, kind |-> "data", frames |-> <<<<x, k>>>>, off |-> off, size |-> 1200]

\* A packet of control frames, or a datagram that is not even that.
NoisePacket(n) ==
  [cnx |-> Connection, kind |-> IF n < 30 THEN "stray" ELSE "data", frames |-> <<>>,
   off |-> 0, size |-> n]

\* What the streams hold at the server, and what the client may send it.
Written == [x \in {Connection} \X Carried |-> BufferFinal(x[2])]
Datagrams ==
  {NoisePacket(n) : n \in NoiseSize} \cup
  UNION {{DataPacket(x, k, off) : off \in Offset[x[2]]} : x \in Carried, k \in 1 .. StreamPackets}

Server == INSTANCE DnsQuicServer WITH
  Conn <- {Connection}, Stream <- Carried, GetQuery <- {},
  Content <- Written, Packets <- Datagrams,
  CommandMax <- 9, Network <- "any",
  MaxPackets <- StreamPackets * Cardinality(Stream) + MaxNoise + MaxRepeats, MaxFail <- 0,
  pc <- s_pc, pkt <- s_pkt, cnx_state <- s_cnx_state, reset_sent <- s_reset_sent,
  sent <- s_sent, fails <- s_fails

ASSUME PathAssumption ==
  /\ IsFiniteSet(Stream)
  /\ Connection # None
  /\ ZeroIdQuery \cup LongQuery \cup RefusedQuery \subseteq Query
  /\ Offset \in [Query -> SUBSET Nat]
  /\ LineEnds \in [Carried -> SUBSET (1 .. StreamPackets)]
  /\ NoiseSize \subseteq {n \in Nat : n \notin (27 .. 29) \cup (31 .. 32)}
  /\ ErrorReply \in SUBSET BOOLEAN \ {{}}
  /\ Lossy \in BOOLEAN
  /\ MaxNoise \in Nat
  /\ MaxRepeats \in Nat

\* What the server knows as the stream.
AtServer(s) == <<Connection, <<s, queued[s]>>>>

PathInit ==
  /\ Init
  /\ Server!Init
  /\ part = None
  /\ got = [s \in Stream |-> {}]
  /\ noise = 0
  /\ repeats = 0

-----------------------------------------------------------------------------
(***************************************************************************)
(* From the client to the server: any packet of stream data the client's   *)
(* engine has transmitted, in any order and again, and datagrams that hold *)
(* none.                                                                   *)
(***************************************************************************)

DataArrives(s) ==
  /\ queued[s] \in Query
  /\ \E k \in 1 .. sent[s], off \in Offset[queued[s]] :
       /\ IF k \in recvd[AtServer(s)] THEN repeats < MaxRepeats /\ repeats' = repeats + 1
                                      ELSE UNCHANGED repeats
       /\ Server!Arrive(DataPacket(<<s, queued[s]>>, k, off))
  /\ UNCHANGED <<vars, part, got, noise>>

NoiseArrives ==
  /\ noise < MaxNoise
  /\ noise' = noise + 1
  /\ \E n \in NoiseSize : Server!Arrive(NoisePacket(n))
  /\ UNCHANGED <<vars, part, got, repeats>>

(***************************************************************************)
(* From the server to the client: the answer of a stream takes two         *)
(* packets, the DNS message is in the first, FIN in the second; or the     *)
(* server has reset the stream before its answer was sent.                 *)
(***************************************************************************)

AnswerArrives(s, k) ==
  /\ queued[s] \in Query /\ s_sent[AtServer(s)]
  /\ got' = [got EXCEPT ![s] = @ \cup {k}]
  /\ part' = s
  /\ \E a \in answer[AtServer(s)] : ReceiveServer(IF k = 1 THEN a.q ELSE None)
  /\ UNCHANGED <<server, noise, repeats>>

ResetByServer(s) == queued[s] \in Query /\ s_reset_sent[AtServer(s)] /\ ~s_sent[AtServer(s)]
ResetArrives(s) ==
  /\ ResetByServer(s)
  /\ part' = s
  /\ ReceiveServer(None)
  /\ UNCHANGED <<server, got, noise, repeats>>

OtherArrives ==
  /\ \/ ReceiveServer(None)
     \/ s_cnx_state[Connection] = "open" /\ ReceiveHandshake
  /\ part' = None
  /\ UNCHANGED <<server, got, noise, repeats>>

\* The engine calls back for FIN or for the reset before it returns.
FinDue(s) == pc = "engine" /\ part = s /\ got[s] = {1, 2} /\ rx[s] = "open"
ResetDue(s) == pc = "engine" /\ part = s /\ ResetByServer(s) /\ rx[s] = "open"
StreamEnds(s) ==
  /\ \/ FinDue(s) /\ (StreamFin(s) \/ (Unexpected(s) /\ rx'[s] = "fin"))
     \/ ResetDue(s) /\ (StreamReset(s) \/ (Unexpected(s) /\ rx'[s] = "reset"))
  /\ UNCHANGED <<server, network>>

-----------------------------------------------------------------------------

ClientSteps ==
  /\ Client
  /\ \A s \in Stream : ~FinDue(s) /\ ~ResetDue(s)
  /\ part' = IF pc' = "select" THEN None ELSE part
  /\ UNCHANGED <<server, got, noise, repeats>>

SendsStream(s) == SendStream(s) /\ UNCHANGED <<server, network>>

Asks == \E q \in Query : ReceiveStub(q) /\ part' = None /\ UNCHANGED <<server, got, noise, repeats>>
TimesOut == SelectTimeout /\ part' = None /\ UNCHANGED <<server, got, noise, repeats>>

ServerSteps == Server!Server /\ UNCHANGED <<vars, network>>
Resolves == (\E r \in upstream : Server!Resolve(r)) /\ UNCHANGED <<vars, network>>
Drops == (\E r \in upstream : Server!Drop(r)) /\ UNCHANGED <<vars, network>>

Returns(s) == (\E k \in 1 .. 2 : AnswerArrives(s, k)) \/ ResetArrives(s)
ClientSelects == (\E s \in Stream : Returns(s)) \/ OtherArrives \/ Asks \/ TimesOut
ClientPath == ClientSteps \/ \E s \in Stream : StreamEnds(s)

PathNext ==
  \/ ClientPath \/ ClientSelects
  \/ ServerSteps \/ Resolves \/ Drops
  \/ \E s \in Stream : DataArrives(s)
  \/ NoiseArrives

PathSpec == PathInit /\ [][PathNext]_allVars

(***************************************************************************)
(* Fairness: both threads run, the resolver answers; the network and the   *)
(* engines bring across, in either direction, something new whenever there *)
(* is something new again and again and the other side selects.  There is  *)
(* a bounded amount of it, so that all of it is brought across.            *)
(***************************************************************************)
SomethingNew ==
  \/ OtherArrives /\ cnx_state' # cnx_state
  \/ NoiseArrives /\ noise = 0
  \/ \E s \in Stream :
       \/ SendsStream(s)
       \/ DataArrives(s) /\ UNCHANGED repeats
       \/ Returns(s) /\ (got' # got \/ (ResetByServer(s) /\ rx[s] = "open"))

PathFairness ==
  /\ WF_allVars(ClientPath) /\ WF_allVars(ClientSelects)
  /\ WF_allVars(ServerSteps) /\ WF_allVars(Resolves)
  /\ SF_allVars(SomethingNew)

FairPathSpec == PathSpec /\ PathFairness

-----------------------------------------------------------------------------
(***************************************************************************)
(* Properties.                                                             *)
(***************************************************************************)

\* The server relates streams and responses by nothing but the order of its
\* queue, and the stub may ask again before it has an answer.  Still a stream is
\* answered with the response to another query than its own only when that
\* query has been forwarded more than once (a packet sent again, or one too
\* short to overwrite the last query), and the stream it belongs to has been
\* answered from another exchange.
OwnOrRepeated ==
  \A x \in {Connection} \X Carried : \A a \in answer[x] :
    a.q # x[2][2] =>
      \E y \in {Connection} \X Carried : \E b \in answer[y] :
        y[2][2] = a.q /\ b.q = a.q /\ b.n # a.n

\* The callback waits, and no response is there or will be: the loop that would
\* forward a query stands still.
Starved ==
  /\ s_pc = "wait"
  /\ \A r \in upstream : r.q \notin Query \ RefusedQuery
  /\ \A k \in DOMAIN fd2 : ~fd2[k].ok

\* A query begins where the loop looks for it, in whatever packet it comes.
Legible(q) == \A off \in Offset[q] : off = 26 \/ (off = 30 /\ q \notin ZeroIdQuery \cup LongQuery)

\* The query of the stream came with the packet that completes the request
\* (late, or with CR or LF in it): it is forwarded after the callback only.
HeadInHand == s_pkt.frames = <<<<cur[2], 1>>>>

Unanswered(r) == \A x \in {Connection} \X Carried : \A a \in answer[x] : a.n # r.n

\* The callback starves the server for one of these reasons only: the query of
\* the stream at hand is in the packet at hand, a query could not be read from
\* its packet, or one was forwarded and lost or refused.  In particular no
\* stream uses up the response of another one without leaving its own.
StarvesForCause ==
  Starved =>
    \/ HeadInHand
    \/ \E s \in Stream : queued[s] \in Query /\ ~Legible(queued[s])
    \/ \E r \in forwarded : r.q \in Query /\ Unanswered(r)

\* What a stream was answered has reached the stub, and the stream has ended.
Served(s) == rx[s] = "fin" /\ \E a \in answer[AtServer(s)] : a.q \in relayed

\* Every query a stream has taken is served in the end, unless the server resets
\* the stream or starves: through two loops that wait for each other, the
\* handshake, the blocking callback and the scenario, which opens the streams
\* that follow.
CarriedIsRelayed ==
  []<>(Starved \/ \A s \in Stream : queued[s] # None => Served(s) \/ rx[s] = "reset")
=============================================================================
