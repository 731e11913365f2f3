------------------------ MODULE DnsQuicServerProofs ------------------------
(***************************************************************************)
(* Theorems about DnsQuicServer, for every number of clients and streams,  *)
(* every content of the streams and every network.                         *)
(***************************************************************************)
EXTENDS DnsQuicServer, TLAPS

\* The parts of TypeOK the facts about single variables follow from.
LEMMA PacketFacts ==
  ASSUME NEW p \in Packets
  PROVE  /\ p.cnx \in Conn
         /\ p.kind \in {"data", "reset", "stop", "close", "stray"}
         /\ \A i \in DOMAIN p.frames :
              /\ FrameKey(p, i) \in Key
              /\ p.frames[i][2] \in Nat \ {0}
              /\ p.frames[i][2] \in DOMAIN Content[FrameKey(p, i)]
         /\ p.kind \in {"reset", "stop"} => 1 \in DOMAIN p.frames
<1>1. p \in Packet
  BY PacketsAssumption
<1>2. p.frames \in Seq(Stream \X (Nat \ {0}))
  BY <1>1 DEF Packet
<1>3. \A i \in DOMAIN p.frames : p.frames[i] \in Stream \X (Nat \ {0})
  BY <1>2
<1>4. \A i \in DOMAIN p.frames : p.frames[i][2] \in DOMAIN Content[<<p.cnx, p.frames[i][1]>>]
  BY PacketsAssumption
<1>5. p.kind \in {"reset", "stop"} => 1 \in DOMAIN p.frames
  <2>1. p.kind \in {"reset", "stop"} => Len(p.frames) = 1
    BY PacketsAssumption
  <2> QED
    BY <1>2, <2>1
<1> QED
  BY <1>1, <1>3, <1>4, <1>5 DEF Packet, FrameKey, Key

\* What buffer holds of a query after a datagram.
LEMMA ReceivedType ==
  ASSUME NEW p \in Packets, buffer \in Start
  PROVE  Received(p) \in Start
<1>1. CASE ~(p.kind = "data" /\ p.frames # <<>> /\ p.frames[1][2] = 1)
  BY <1>1 DEF Received, HeadOf, NoHead, Start
<1>2. CASE p.kind = "data" /\ p.frames # <<>> /\ p.frames[1][2] = 1
  <2>1. p.frames \in Seq(Stream \X (Nat \ {0})) /\ p.off \in Nat
    BY PacketsAssumption DEF Packet
  <2>2. 1 \in DOMAIN p.frames
    BY <1>2, <2>1
  <2> DEFINE x == FrameKey(p, 1)
  <2>3. x \in Key /\ p.frames[1][2] \in DOMAIN Content[x]
    BY <2>2, PacketFacts
  <2>4. Content[x] \in Seq(Chunk) /\ 1 \in DOMAIN Content[x]
    BY <1>2, <2>3, ContentAssumption
  <2>5. Content[x][1] \in Chunk
    BY <2>4
  <2>6. HeadOf(p) = [q |-> Content[x][1].q, off |-> p.off]
    BY <1>2 DEF HeadOf
  <2> QED
    BY <2>1, <2>5, <2>6 DEF Received, Chunk, Start
<1> QED
  BY <1>1, <1>2

\* What the loop cuts from buffer is a query or not.
LEMMA ExtractType == buffer \in Start => Extract(buffer) \in Query \cup {None}
BY DEF Start, Extract

\* The chunk a callback is about exists and has a length.
LEMMA NextChunkType ==
  ASSUME NEW x \in Key, delivered[x] + 1 \in DOMAIN Content[x]
  PROVE  NextChunk(x).len \in Nat
<1>1. Content[x] \in Seq(Chunk)
  BY ContentAssumption
<1>2. Content[x][delivered[x] + 1] \in Chunk
  BY <1>1
<1> QED
  BY <1>2 DEF NextChunk, Chunk

-----------------------------------------------------------------------------
\* The variables of the server have the values its code gives them: in
\* particular the callback only sees chunks that exist and a stream without a
\* context holds no bytes.
LEMMA InitType == Init => TypeOK
BY DEF Init, TypeOK, PC, Status, Key, Start, NoHead

LEMMA NextType == TypeOK /\ [Next]_vars => TypeOK'
<1> SUFFICES ASSUME TypeOK, [Next]_vars PROVE TypeOK'
  OBVIOUS
<1> USE BoundAssumption DEF PC, Status
<1>1. CASE SelectTimeout
  BY <1>1 DEF SelectTimeout, TypeOK, engine, contexts, dns
<1>2. CASE SelectError
  BY <1>2 DEF SelectError, TypeOK, engine, contexts, dns
<1>3. ASSUME NEW p \in Packets, Arrive(p) PROVE TypeOK'
  <2>1. /\ p.cnx \in Conn
        /\ \A i \in DOMAIN p.frames : /\ p.frames[i][2] \in Nat \ {0}
                                     /\ p.frames[i][2] \in DOMAIN Content[FrameKey(p, i)]
    BY PacketFacts
  <2>2. recvd' \in [Key -> SUBSET (Nat \ {0})]
    BY <1>3, <2>1, SMTT(20) DEF Arrive, TypeOK
  <2>3. \A x \in Key : recvd'[x] \subseteq DOMAIN Content[x]
    BY <1>3, <2>1, SMTT(20) DEF Arrive, TypeOK
  <2>4. cnx_state' \in [Conn -> {"idle", "open", "closed"}] /\ first_cnx' \in Conn \cup {None}
    BY <1>3, <2>1 DEF Arrive, TypeOK
  <2>5. received' \in Nat /\ pkt' \in Packets /\ pc' = "deliver" /\ buffer' \in Start
    BY <1>3, ReceivedType DEF Arrive, TypeOK
  <2>6. UNCHANGED <<cur, delivered, reset_sent, sent, contexts, cnx_server, dns, answer, fails>>
    BY <1>3 DEF Arrive
  <2> QED
    BY <2>2, <2>3, <2>4, <2>5, <2>6 DEF TypeOK, contexts, dns
<1>4. ASSUME NEW x \in Key, Callback(x) PROVE TypeOK'
  <2>0. Deliverable(x)
    BY <1>4 DEF Callback, ContextFails, StreamContextFails, Overrun, Store
  <2>1. pkt \in Packets /\ pkt.cnx \in Conn
    BY <2>0, PacketFacts DEF Deliverable, TypeOK
  <2>2. delivered[x] + 1 \in DOMAIN Content[x]
    BY <2>0 DEF Deliverable, TypeOK
  <2>3. NextChunk(x).len \in Nat
    BY <2>2, NextChunkType
  <2>4. StatusSeen(x) \in {"none", "finished"}
    BY DEF StatusSeen, TypeOK
  <2>5. CASE ContextFails(x)
    <3>1. cnx_state' \in [Conn -> {"idle", "open", "closed"}] /\ delivered' \in [Key -> Nat] /\ fails' \in Nat
      BY <2>1, <2>5, SMTT(20) DEF ContextFails, TypeOK
    <3> QED
      BY <2>5, <3>1 DEF ContextFails, TypeOK, contexts, dns
  <2>6. CASE StreamContextFails(x)
    BY <2>1, <2>6, SMTT(20) DEF StreamContextFails, TypeOK, dns
  <2>7. CASE Overrun(x)
    BY <2>1, <2>4, <2>7 DEF Overrun, TypeOK, dns
  <2>8. CASE Store(x)
    <3>1. command_length' \in [Key -> Nat] /\ delivered' \in [Key -> Nat]
      BY <2>3, <2>8, SMTT(20) DEF Store, TypeOK
    <3>2. status' \in [Key -> Status] /\ status'[x] # "absent"
      BY <2>4, <2>8 DEF Store, TypeOK
    <3>3. \A y \in Key : status'[y] = "absent" => command_length'[y] = 0 /\ ~response_length'[y]
      BY <2>8, <3>2 DEF Store, TypeOK
    <3>4. pc' \in PC /\ cur' \in Key \cup {None} /\ (pc' = "wait" => cur' \in Key)
      BY <2>0, <2>8 DEF Store, TypeOK, Deliverable
    <3> QED
      BY <2>0, <2>1, <2>8, <3>1, <3>2, <3>3, <3>4 DEF Store, TypeOK, Deliverable, dns
  <2> QED
    BY <1>4, <2>5, <2>6, <2>7, <2>8 DEF Callback
<1>5. CASE RecvTimeout
  BY <1>5 DEF RecvTimeout, vars, TypeOK, engine, contexts, dns
<1>6. ASSUME fd2 # <<>>, fd2' = Taken(fd2) PROVE fd2' \in Seq(Response) /\ Head(fd2) \in Response
  BY <1>6 DEF TypeOK, Taken
<1>7. CASE RecvOther
  BY <1>6, <1>7 DEF RecvOther, TypeOK, engine, contexts
<1>8. CASE RecvResponse
  <2>1. cur \in Key
    BY <1>8 DEF RecvResponse, TypeOK
  <2>2. fd2' \in Seq(Response) /\ Head(fd2) \in Response
    BY <1>6, <1>8 DEF RecvResponse
  <2>3. answer' \in [Key -> SUBSET Response]
    BY <1>8, <2>1, <2>2 DEF RecvResponse, TypeOK
  <2>4. /\ status' \in [Key -> Status]
        /\ response_length' \in [Key -> BOOLEAN]
        /\ \A y \in Key : status'[y] = "absent" => command_length'[y] = 0 /\ ~response_length'[y]
    BY <1>8, <2>1 DEF RecvResponse, TypeOK, Answered
  <2> QED
    BY <1>8, <2>2, <2>3, <2>4 DEF RecvResponse, TypeOK, engine
<1>9. CASE PeerAborts
  <2>1. pkt \in Packets /\ pkt.cnx \in Conn /\ FrameKey(pkt, 1) \in Key
    BY <1>9, PacketFacts DEF PeerAborts, TypeOK
  <2> QED
    BY <1>9, <2>1 DEF PeerAborts, TypeOK, dns
<1>20. CASE AbortFails
  <2>1. pkt \in Packets /\ pkt.cnx \in Conn /\ FrameKey(pkt, 1) \in Key
    BY <1>20, PacketFacts DEF AbortFails, TypeOK
  <2>2. /\ cnx_state' \in [Conn -> {"idle", "open", "closed"}]
        /\ has_ctx' \in [Conn -> BOOLEAN]
        /\ reset_sent' \in [Key -> BOOLEAN]
    BY <1>20, <2>1 DEF AbortFails, TypeOK
  <2> QED
    BY <1>20, <2>2 DEF AbortFails, TypeOK, dns
<1>10. CASE PeerCloses
  <2>1. pkt \in Packets /\ pkt.cnx \in Conn
    BY <1>10, PacketFacts DEF PeerCloses, TypeOK
  <2> QED
    BY <1>10, <2>1 DEF PeerCloses, TypeOK, dns
<1>11. CASE DeliverDone
  BY <1>11 DEF DeliverDone, TypeOK, engine, contexts, dns
<1>12. CASE Forward
  <2>1. [n |-> received, q |-> Extract(buffer)] \in Request /\ Error(received) \in Response
    BY <1>12, ExtractType DEF Forward, TypeOK, Request, Response, Error
  <2>2. fd2 \in Seq(Response)
    BY DEF TypeOK
  <2>3. fd2' \in {fd2, Append(fd2, Error(received))}
    BY <1>12 DEF Forward
  <2>4. fd2' \in Seq(Response)
    BY <2>1, <2>2, <2>3
  <2>5. upstream' \in SUBSET Request /\ forwarded' \in SUBSET Request
    BY <1>12, <2>1 DEF Forward, TypeOK
  <2> QED
    BY <1>12, <2>4, <2>5 DEF Forward, TypeOK, engine, contexts
<1>13. ASSUME NEW r \in upstream, Resolve(r) PROVE TypeOK'
  <2>1. [n |-> r.n, q |-> r.q, ok |-> r.q \in Query \ RefusedQuery] \in Response
    BY DEF TypeOK, Request, Response
  <2> QED
    BY <1>13, <2>1 DEF Resolve, TypeOK, engine, contexts
<1>14. ASSUME NEW r \in upstream, Drop(r) PROVE TypeOK'
  BY <1>14 DEF Drop, TypeOK, engine, contexts
<1>15. ASSUME NEW c \in Conn, Send(c) PROVE TypeOK'
  BY <1>15 DEF Send, TypeOK, Unsent, contexts, dns
<1>16. ASSUME NEW c \in Conn, SendDisconnected(c) PROVE TypeOK'
  BY <1>16 DEF SendDisconnected, TypeOK, engine, contexts, dns
<1>17. CASE SendError
  BY <1>17 DEF SendError, TypeOK, engine, contexts, dns
<1>18. CASE SendDone
  BY <1>18 DEF SendDone, TypeOK, engine, contexts, dns
<1>19. CASE UNCHANGED vars
  BY <1>19 DEF vars, TypeOK, engine, contexts, dns
<1> QED
  BY <1>1, <1>2, <1>3, <1>4, <1>5, <1>7, <1>8, <1>9, <1>10, <1>11, <1>12, <1>13, <1>14,
     <1>15, <1>16, <1>17, <1>18, <1>19, <1>20
     DEF Next, Server, Environment, Exited

\* Type correctness of the server, whatever clients and network do.
THEOREM TypeCorrect == Spec => []TypeOK
BY InitType, NextType, PTL DEF Spec

-----------------------------------------------------------------------------
\* The request and the 0 after it fit in stream_ctx->command: memcpy is
\* guarded by the sum, not by the length of the new bytes.
THEOREM CommandStaysInBuffer == Spec => []CommandFits
<1>1. Init => CommandFits
  BY BoundAssumption DEF Init, CommandFits
<1>2. TypeOK /\ TypeOK' /\ CommandFits /\ [Next]_vars => CommandFits'
  <2> SUFFICES ASSUME TypeOK, TypeOK', CommandFits, [Next]_vars, NEW y \in Key
               PROVE  command_length'[y] <= CommandMax - 1
    BY DEF CommandFits
  <2> USE BoundAssumption
  <2>1. ASSUME NEW x \in Key, Store(x) PROVE command_length'[y] <= CommandMax - 1
    <3>1. delivered[x] + 1 \in DOMAIN Content[x]
      BY <2>1 DEF Store, Deliverable, TypeOK
    <3>2. NextChunk(x).len \in Nat
      BY <3>1, NextChunkType
    <3>3. command_length[x] + NextChunk(x).len <= CommandMax - 1
      BY <2>1, <3>2, SMTT(20) DEF Store, TooLong, TypeOK
    <3> QED
      BY <2>1, <3>3, SMTT(20) DEF Store, CommandFits, TypeOK
  <2>2. CASE PeerCloses
    BY <2>2 DEF PeerCloses, CommandFits
  <2>3. CASE UNCHANGED command_length
    BY <2>3 DEF CommandFits
  <2> QED
    BY <2>1, <2>2, <2>3 DEF Next, Server, Environment, Callback, vars, contexts,
       SelectTimeout, SelectError, Arrive, ContextFails, StreamContextFails, Overrun, RecvTimeout,
       RecvOther, RecvResponse, PeerAborts, AbortFails, DeliverDone, Forward, Resolve, Drop, Send,
       SendDisconnected, SendError, SendDone, Exited
<1> QED
  BY <1>1, <1>2, TypeCorrect, PTL DEF Spec

-----------------------------------------------------------------------------
(***************************************************************************)
(* Where the responses are.  A datagram forwarded to the resolver has its  *)
(* own number; it is on its way, or its response is in the socket queue,   *)
(* or the response answers one stream, or it is gone.                      *)
(***************************************************************************)
RequestOf(d) == [n |-> d.n, q |-> d.q]

ForwardedInv ==
  /\ \A r \in forwarded : r.n <= received
  /\ pc \in {"deliver", "wait", "forward"} => \A r \in forwarded : r.n < received
  /\ \A r1, r2 \in forwarded : r1.n = r2.n => r1 = r2
  /\ upstream \subseteq forwarded

QueueHolds(queue, resolved) ==
  /\ \A i \in DOMAIN queue : /\ RequestOf(queue[i]) \in resolved
                             /\ queue[i].ok => queue[i].q \in Query \ RefusedQuery
  /\ \A i, j \in DOMAIN queue : queue[i].n = queue[j].n => i = j

QueueInv == QueueHolds(fd2, forwarded \ upstream)

AnswerInv ==
  /\ \A x \in Key : \A a \in answer[x] :
       /\ RequestOf(a) \in forwarded \ upstream
       /\ a.q \in Query \ RefusedQuery
       /\ \A i \in DOMAIN fd2 : fd2[i].n # a.n
  /\ ResponseUsedOnce

ResponseInv == ForwardedInv /\ QueueInv /\ AnswerInv

\* A response joins the queue when no other has its number.
LEMMA QueueAppend ==
  ASSUME NEW queue \in Seq(Response), NEW resolved, NEW more, QueueHolds(queue, resolved),
         resolved \subseteq more, NEW d \in Response, RequestOf(d) \in more,
         d.ok => d.q \in Query \ RefusedQuery, \A i \in DOMAIN queue : queue[i].n # d.n
  PROVE  QueueHolds(Append(queue, d), more)
<1> DEFINE longer == Append(queue, d)
<1>1. /\ DOMAIN longer = DOMAIN queue \cup {Len(queue) + 1}
      /\ longer[Len(queue) + 1] = d
      /\ \A i \in DOMAIN queue : longer[i] = queue[i]
  OBVIOUS
<1>2. ASSUME NEW i \in DOMAIN longer
      PROVE  /\ RequestOf(longer[i]) \in more
             /\ longer[i].ok => longer[i].q \in Query \ RefusedQuery
  <2>1. CASE i \in DOMAIN queue
    BY <1>1, <2>1 DEF QueueHolds
  <2>2. CASE i = Len(queue) + 1
    BY <1>1, <2>2
  <2> QED
    BY <1>1, <2>1, <2>2
<1>3. ASSUME NEW i \in DOMAIN longer, NEW j \in DOMAIN longer, longer[i].n = longer[j].n
      PROVE  i = j
  BY <1>1, <1>3 DEF QueueHolds
<1> QED
  BY <1>2, <1>3 DEF QueueHolds

\* Taking the first response leaves a queue without its number.
LEMMA QueueTail ==
  ASSUME NEW queue \in Seq(Response), NEW resolved, QueueHolds(queue, resolved), queue # <<>>
  PROVE  /\ QueueHolds(Tail(queue), resolved)
         /\ RequestOf(Head(queue)) \in resolved
         /\ Head(queue).ok => Head(queue).q \in Query \ RefusedQuery
         /\ \A i \in DOMAIN Tail(queue) : Tail(queue)[i].n # Head(queue).n
         /\ \A i \in DOMAIN Tail(queue) : \E j \in DOMAIN queue : Tail(queue)[i] = queue[j]
         /\ \E j \in DOMAIN queue : Head(queue) = queue[j]
<1> DEFINE rest == Tail(queue)
<1>1. /\ DOMAIN rest = 1 .. Len(queue) - 1
      /\ \A i \in DOMAIN rest : /\ i \in Nat
                                /\ i + 1 \in DOMAIN queue /\ i + 1 # 1
                                /\ rest[i] = queue[i + 1]
      /\ 1 \in DOMAIN queue /\ Head(queue) = queue[1]
  OBVIOUS
<1>2. \A i \in DOMAIN rest : /\ RequestOf(rest[i]) \in resolved
                             /\ rest[i].ok => rest[i].q \in Query \ RefusedQuery
                             /\ rest[i].n # Head(queue).n
                             /\ \E j \in DOMAIN queue : rest[i] = queue[j]
  BY <1>1 DEF QueueHolds
<1>3. ASSUME NEW i \in DOMAIN rest, NEW j \in DOMAIN rest, rest[i].n = rest[j].n PROVE i = j
  <2>1. i + 1 = j + 1
    BY <1>1, <1>3 DEF QueueHolds
  <2> QED
    BY <1>1, <2>1
<1>4. /\ RequestOf(Head(queue)) \in resolved
      /\ Head(queue).ok => Head(queue).q \in Query \ RefusedQuery
  BY <1>1 DEF QueueHolds
<1>5. QueueHolds(rest, resolved)
  BY <1>2, <1>3 DEF QueueHolds
<1> QED
  BY <1>1, <1>2, <1>4, <1>5

\* Steps that touch neither the datagrams nor the answers.
LEMMA ResponseFrame ==
  ASSUME ResponseInv, UNCHANGED <<fd2, upstream, forwarded, answer, received>>,
         pc' \in {"deliver", "wait", "forward"} => pc \in {"deliver", "wait", "forward"}
  PROVE  ResponseInv'
BY DEF ResponseInv, ForwardedInv, QueueInv, QueueHolds, AnswerInv, ResponseUsedOnce, RequestOf

LEMMA ResponseInit == Init => ResponseInv
BY DEF Init, ResponseInv, ForwardedInv, QueueInv, QueueHolds, AnswerInv, ResponseUsedOnce, Key

LEMMA ResponseStep == TypeOK /\ ResponseInv /\ [Next]_vars => ResponseInv'
<1> SUFFICES ASSUME TypeOK, ResponseInv, [Next]_vars PROVE ResponseInv'
  OBVIOUS
<1>1. ASSUME NEW p \in Packets, Arrive(p) PROVE ResponseInv'
  <2>1. \A r \in forwarded : r.n \in Nat /\ r.n < received'
    BY <1>1 DEF Arrive, ResponseInv, ForwardedInv, TypeOK, Request
  <2>2. ForwardedInv'
    BY <1>1, <2>1 DEF Arrive, ResponseInv, ForwardedInv, TypeOK, dns
  <2>3. QueueInv' /\ AnswerInv'
    BY <1>1 DEF Arrive, ResponseInv, QueueInv, QueueHolds, AnswerInv, ResponseUsedOnce, RequestOf, dns
  <2> QED
    BY <2>2, <2>3 DEF ResponseInv
<1>2. CASE Forward
  <2> DEFINE r == [n |-> received, q |-> Extract(buffer)]
  <2>1. /\ forwarded' = forwarded \cup {r} /\ UNCHANGED <<answer, received>> /\ pc' = "send"
        /\ \A f \in forwarded : f.n \in Nat /\ f.n < received
    BY <1>2 DEF Forward, ResponseInv, ForwardedInv, TypeOK, Request
  <2>2. \/ upstream' = upstream \cup {r} /\ fd2' = fd2
        \/ upstream' = upstream /\ r.q = None /\ (fd2' = fd2 \/ fd2' = Append(fd2, Error(r.n)))
    BY <1>2 DEF Forward
  <2>3. received \in Nat /\ fd2 \in Seq(Response)
    BY DEF TypeOK
  <2>4. r \notin forwarded /\ \A f \in forwarded : f.n # received
    BY <2>1, <2>3
  <2>5. /\ forwarded \ upstream \subseteq forwarded' \ upstream'
        /\ upstream' = upstream => r \in forwarded' \ upstream'
    BY <2>1, <2>2, <2>4 DEF ResponseInv, ForwardedInv
  <2>6. \A k \in DOMAIN fd2 : fd2[k].n # received
    BY <2>4 DEF ResponseInv, QueueInv, QueueHolds, RequestOf
  <2>7. \A x \in Key : \A a \in answer[x] : a.n # received
    BY <2>4 DEF ResponseInv, AnswerInv, RequestOf
  <2>8. ForwardedInv'
    BY <2>1, <2>2, <2>3, <2>4 DEF ResponseInv, ForwardedInv
  <2>9. CASE fd2' = fd2
    <3>1. QueueInv'
      BY <2>5, <2>9 DEF ResponseInv, QueueInv, QueueHolds
    <3>2. AnswerInv'
      BY <2>1, <2>5, <2>9 DEF ResponseInv, AnswerInv, ResponseUsedOnce, RequestOf
    <3> QED
      BY <2>8, <3>1, <3>2 DEF ResponseInv
  <2>10. CASE upstream' = upstream /\ r.q = None /\ fd2' = Append(fd2, Error(r.n))
    <3> DEFINE d == Error(received)
    <3>1. d \in Response /\ RequestOf(d) = r /\ ~d.ok /\ d.n = received
      BY <2>3, <2>10 DEF Error, Response, RequestOf
    <3>2. fd2' = Append(fd2, d)
      BY <2>10
    <3>3. /\ DOMAIN fd2' = DOMAIN fd2 \cup {Len(fd2) + 1}
          /\ fd2'[Len(fd2) + 1] = d
          /\ \A k \in DOMAIN fd2 : fd2'[k] = fd2[k]
      BY <2>3, <3>2
    <3> HIDE DEF d
    <3>4. QueueInv'
      <4>1. QueueHolds(fd2, forwarded \ upstream)
        BY DEF ResponseInv, QueueInv
      <4>2. RequestOf(d) \in forwarded' \ upstream'
        BY <2>5, <2>10, <3>1
      <4>3. \A k \in DOMAIN fd2 : fd2[k].n # d.n
        BY <2>6, <3>1
      <4>4. QueueHolds(Append(fd2, d), forwarded' \ upstream')
        BY <2>3, <2>5, <3>1, <4>1, <4>2, <4>3, QueueAppend
      <4> QED
        BY <3>2, <4>4 DEF QueueInv
    <3>5. AnswerInv'
      <4>1. \A x \in Key : \A a \in answer[x] :
              /\ RequestOf(a) \in forwarded' \ upstream'
              /\ a.q \in Query \ RefusedQuery
              /\ \A k \in DOMAIN fd2' : fd2'[k].n # a.n
        BY <2>5, <2>7, <3>1, <3>3 DEF ResponseInv, AnswerInv
      <4> QED
        BY <2>1, <4>1 DEF ResponseInv, AnswerInv, ResponseUsedOnce, RequestOf
    <3> QED
      BY <2>8, <3>4, <3>5 DEF ResponseInv
  <2> QED
    BY <2>2, <2>9, <2>10
<1>3. ASSUME NEW r \in upstream, Resolve(r) PROVE ResponseInv'
  <2> DEFINE d == [n |-> r.n, q |-> r.q, ok |-> r.q \in Query \ RefusedQuery]
  <2>1. /\ upstream' = upstream \ {r} /\ fd2' = Append(fd2, d)
        /\ UNCHANGED <<pc, forwarded, answer, received>>
    BY <1>3 DEF Resolve
  <2>2. r \in forwarded /\ r \in Request /\ RequestOf(d) = r
    BY DEF ResponseInv, ForwardedInv, TypeOK, Request, RequestOf
  <2>3. fd2 \in Seq(Response)
    BY DEF TypeOK
  <2>4. /\ DOMAIN fd2' = DOMAIN fd2 \cup {Len(fd2) + 1}
        /\ fd2'[Len(fd2) + 1] = d
        /\ \A i \in DOMAIN fd2 : fd2'[i] = fd2[i] /\ i # Len(fd2) + 1
    BY <2>1, <2>3
  <2>5. \A f \in forwarded \ upstream : f.n # r.n
    BY <2>2 DEF ResponseInv, ForwardedInv
  <2>6. \A i \in DOMAIN fd2 : fd2[i].n # r.n
    <3> SUFFICES ASSUME NEW i \in DOMAIN fd2 PROVE fd2[i].n # r.n
      OBVIOUS
    <3>1. RequestOf(fd2[i]) \in forwarded \ upstream
      BY DEF ResponseInv, QueueInv, QueueHolds
    <3> QED
      BY <2>5, <3>1 DEF RequestOf
  <2>7. \A x \in Key : \A a \in answer[x] : a.n # r.n
    <3> SUFFICES ASSUME NEW x \in Key, NEW a \in answer[x] PROVE a.n # r.n
      OBVIOUS
    <3>1. RequestOf(a) \in forwarded \ upstream
      BY DEF ResponseInv, AnswerInv
    <3> QED
      BY <2>5, <3>1 DEF RequestOf
  <2>8. ForwardedInv'
    BY <2>1 DEF ResponseInv, ForwardedInv
  <2>9. QueueInv'
    <3>1. d \in Response
      BY <2>2 DEF Request, Response
    <3>2. QueueHolds(Append(fd2, d), forwarded \ (upstream \ {r}))
      BY <2>2, <2>3, <2>6, <3>1, QueueAppend DEF ResponseInv, QueueInv
    <3> QED
      BY <2>1, <3>2 DEF QueueInv
  <2>10. AnswerInv'
    BY <2>1, <2>4, <2>7 DEF ResponseInv, AnswerInv, RequestOf, ResponseUsedOnce
  <2> QED
    BY <2>8, <2>9, <2>10 DEF ResponseInv
<1>4. ASSUME NEW r \in upstream, Drop(r) PROVE ResponseInv'
  BY <1>4 DEF Drop, ResponseInv, ForwardedInv, QueueInv, QueueHolds, AnswerInv, ResponseUsedOnce, RequestOf
<1>5. ASSUME fd2 # <<>>, fd2' = Taken(fd2), upstream' = upstream, forwarded' = forwarded
      PROVE  QueueInv'
  <2>1. QueueHolds(Tail(fd2), forwarded \ upstream)
    BY <1>5, QueueTail DEF ResponseInv, QueueInv, TypeOK
  <2> QED
    BY <1>5, <2>1 DEF QueueInv, Taken
<1>6. ASSUME fd2 # <<>>, fd2' = Taken(fd2)
      PROVE  /\ RequestOf(Head(fd2)) \in forwarded \ upstream
             /\ Head(fd2).ok => Head(fd2).q \in Query \ RefusedQuery
             /\ \A i \in DOMAIN fd2' : fd2'[i].n # Head(fd2).n
             /\ \A i \in DOMAIN fd2' : \E j \in DOMAIN fd2 : fd2'[i] = fd2[j]
             /\ \E j \in DOMAIN fd2 : Head(fd2) = fd2[j]
  <2>1. fd2 \in Seq(Response) /\ QueueHolds(fd2, forwarded \ upstream)
    BY DEF ResponseInv, QueueInv, TypeOK
  <2>2. fd2' = Tail(fd2)
    BY <1>6 DEF Taken
  <2> QED
    BY <1>6, <2>1, <2>2, QueueTail
<1>7. CASE RecvOther
  <2>1. ForwardedInv'
    BY <1>7 DEF RecvOther, ResponseInv, ForwardedInv
  <2>2. QueueInv'
    BY <1>5, <1>7 DEF RecvOther
  <2>3. AnswerInv'
    BY <1>6, <1>7 DEF RecvOther, ResponseInv, AnswerInv, ResponseUsedOnce, RequestOf
  <2> QED
    BY <2>1, <2>2, <2>3 DEF ResponseInv
<1>8. CASE RecvResponse
  <2> DEFINE d == Head(fd2)
  <2>1. /\ fd2 # <<>> /\ fd2' = Taken(fd2) /\ UNCHANGED <<upstream, forwarded, received>>
        /\ pc = "wait" /\ pc' = "deliver" /\ d.ok /\ cur \in Key
        /\ answer' = [answer EXCEPT ![cur] = @ \cup {d}]
    BY <1>8 DEF RecvResponse, IsResponse, TypeOK
  <2>2. /\ RequestOf(d) \in forwarded \ upstream /\ d.q \in Query \ RefusedQuery
        /\ \A i \in DOMAIN fd2' : fd2'[i].n # d.n
    BY <1>6, <2>1
  <2>3. \A x \in Key : \A a \in answer[x] : a.n # d.n
    BY <1>6, <2>1 DEF ResponseInv, AnswerInv
  <2>4. \A x \in Key : \A a \in answer'[x] : a \in answer[x] \/ (x = cur /\ a = d)
    BY <2>1 DEF TypeOK
  <2>5. ForwardedInv'
    BY <2>1 DEF ResponseInv, ForwardedInv
  <2>6. QueueInv'
    BY <1>5, <2>1
  <2>7. \A x \in Key : \A a \in answer'[x] :
          /\ RequestOf(a) \in forwarded \ upstream
          /\ a.q \in Query \ RefusedQuery
          /\ \A i \in DOMAIN fd2' : fd2'[i].n # a.n
    BY <1>6, <2>1, <2>2, <2>4 DEF ResponseInv, AnswerInv
  <2>8. ResponseUsedOnce'
    BY <2>3, <2>4 DEF ResponseInv, AnswerInv, ResponseUsedOnce
  <2>9. AnswerInv'
    BY <2>1, <2>7, <2>8 DEF AnswerInv, RequestOf
  <2> QED
    BY <2>5, <2>6, <2>9 DEF ResponseInv
<1>9. CASE /\ UNCHANGED <<fd2, upstream, forwarded, answer, received>>
           /\ pc' \in {"deliver", "wait", "forward"} => pc \in {"deliver", "wait", "forward"}
  BY <1>9, ResponseFrame
<1>10. ASSUME NEW x \in Key, Callback(x)
       PROVE  /\ UNCHANGED <<fd2, upstream, forwarded, answer, received>>
              /\ pc = "deliver"
  BY <1>10 DEF Callback, ContextFails, StreamContextFails, Overrun, Store, Deliverable, dns
<1> QED
  BY <1>1, <1>2, <1>3, <1>4, <1>7, <1>8, <1>9, <1>10 DEF Next, Server, Environment, vars, engine,
     dns, SelectTimeout, SelectError, RecvTimeout, PeerAborts, AbortFails,
     PeerCloses, DeliverDone, Send,
     SendDisconnected, SendError, SendDone, Exited

LEMMA ResponseInvariant == Spec => []ResponseInv
BY ResponseInit, ResponseStep, TypeCorrect, PTL DEF Spec

\* recvfrom hands each response to one request only: no two streams, of any
\* clients, are answered with the same datagram of the resolver.
THEOREM ResponsesUsedOnce == Spec => []ResponseUsedOnce
<1>1. ResponseInv => ResponseUsedOnce
  BY DEF ResponseInv, AnswerInv
<1> QED
  BY <1>1, ResponseInvariant, PTL

\* Every answer is a positive response of the resolver to something the loop
\* forwarded; the error responses to other datagrams never reach a stream.
THEOREM AnswersAreForwarded == Spec => []AnswersAreResponses
<1>1. ResponseInv => AnswersAreResponses
  BY DEF ResponseInv, AnswerInv, AnswersAreResponses, RequestOf
<1> QED
  BY <1>1, ResponseInvariant, PTL

-----------------------------------------------------------------------------
(***************************************************************************)
(* An answered stream is finished as long as its connection can deliver    *)
(* anything to it, and the stream a callback waits for is not finished.    *)
(***************************************************************************)
OnceInv ==
  /\ \A x \in Key : answer[x] # {} => status[x] = "finished" \/ cnx_state[x[1]] = "closed"
  /\ pc = "wait" => /\ cur[1] = pkt.cnx
                    /\ cnx_state[pkt.cnx] = "open"
                    /\ status[cur] = "none"
  /\ AnsweredAtMostOnce

LEMMA OnceInit == Init => OnceInv
BY DEF Init, OnceInv, AnsweredAtMostOnce

LEMMA OnceStep == TypeOK /\ OnceInv /\ [Next]_vars => OnceInv'
<1> SUFFICES ASSUME TypeOK, OnceInv, [Next]_vars PROVE OnceInv'
  OBVIOUS
<1> USE DEF OnceInv, AnsweredAtMostOnce
<1>1. ASSUME NEW p \in Packets, Arrive(p) PROVE OnceInv'
  <2>1. \A c \in Conn : cnx_state[c] = "closed" => cnx_state'[c] = "closed"
    BY <1>1, PacketFacts DEF Arrive, TypeOK
  <2>2. pc' # "wait" /\ UNCHANGED <<answer, status>>
    BY <1>1 DEF Arrive, contexts
  <2> QED
    BY <2>1, <2>2 DEF Key
<1>2. ASSUME NEW x \in Key, Callback(x) PROVE OnceInv'
  <2>1. /\ pkt \in Packets /\ pkt.cnx \in Conn
        /\ x[1] = pkt.cnx /\ cnx_state[pkt.cnx] = "open" /\ pc = "deliver"
    BY <1>2, PacketFacts DEF Callback, ContextFails, StreamContextFails, Overrun, Store,
       Deliverable, TypeOK
  <2>2. CASE ContextFails(x)
    BY <2>1, <2>2 DEF ContextFails, contexts, TypeOK, Key
  <2>3. CASE StreamContextFails(x)
    BY <2>1, <2>3 DEF StreamContextFails
  <2>4. CASE Overrun(x)
    <3>1. \A y \in Key : status[y] = "finished" => status'[y] = "finished"
      BY <2>4 DEF Overrun, StatusSeen, TypeOK
    <3> QED
      BY <2>1, <2>4, <3>1 DEF Overrun
  <2>5. CASE Store(x)
    <3>1. status[x] # "finished" /\ status'[x] = "none"
      BY <2>5 DEF Store, StatusSeen, TypeOK, Status
    <3>2. \A y \in Key : status[y] = "finished" => status'[y] = "finished"
      BY <2>5, <3>1 DEF Store, TypeOK
    <3>3. UNCHANGED <<answer, cnx_state, pkt>> /\ (pc' = "wait" => cur' = x)
      BY <2>1, <2>5 DEF Store
    <3> QED
      BY <2>1, <3>1, <3>2, <3>3
  <2> QED
    BY <1>2, <2>2, <2>3, <2>4, <2>5 DEF Callback
<1>3. CASE RecvResponse
  <2>1. /\ cur \in Key /\ answer[cur] = {} /\ pc' # "wait" /\ UNCHANGED cnx_state
    <3>1. /\ cur \in Key /\ pc = "wait" /\ pc' # "wait" /\ UNCHANGED cnx_state
      BY <1>3 DEF RecvResponse, TypeOK, engine
    <3> QED
      BY <3>1
  <2>2. \A y \in Key : /\ y # cur => answer'[y] = answer[y] /\ status'[y] = status[y]
                       /\ y = cur => answer'[y] = {Head(fd2)} /\ status'[y] = "finished"
    BY <1>3, <2>1 DEF RecvResponse, Answered, TypeOK
  <2>3. \A y \in Key : answer'[y] # {} => status'[y] = "finished" \/ cnx_state'[y[1]] = "closed"
    BY <2>1, <2>2
  <2>4. ASSUME NEW y \in Key, NEW a \in answer'[y], NEW b \in answer'[y] PROVE a = b
    <3>1. CASE y = cur
      <4>1. answer'[y] = {Head(fd2)}
        BY <2>2, <3>1
      <4> QED
        BY <2>4, <4>1
    <3>2. CASE y # cur
      <4>1. answer'[y] = answer[y]
        BY <2>2, <3>2
      <4> QED
        BY <2>4, <4>1
    <3> QED
      BY <3>1, <3>2
  <2>5. AnsweredAtMostOnce'
    BY <2>4
  <2>6. pc' # "wait"
    BY <2>1
  <2> QED
    BY <2>3, <2>5, <2>6
<1>4. CASE PeerAborts
  BY <1>4, PacketFacts DEF PeerAborts, TypeOK
<1>5. CASE AbortFails
  <2>1. /\ pc' # "wait" /\ UNCHANGED <<answer, status>>
        /\ \A c \in Conn : cnx_state[c] = "closed" => cnx_state'[c] = "closed"
    BY <1>5 DEF AbortFails, TypeOK
  <2> QED
    BY <2>1 DEF Key
<1>6. CASE PeerCloses
  BY <1>6, PacketFacts DEF PeerCloses, TypeOK, Key
<1>7. CASE /\ UNCHANGED <<answer, status, cnx_state>>
           /\ pc' = "wait" => pc = "wait" /\ UNCHANGED <<cur, pkt>>
  BY <1>7
<1> QED
  BY <1>1, <1>2, <1>3, <1>4, <1>5, <1>6, <1>7 DEF Next, Server, Environment, vars, engine,
     contexts, SelectTimeout, SelectError, RecvTimeout, RecvOther, DeliverDone, Forward, Resolve,
     Drop, Send, SendDisconnected, SendError, SendDone, Exited

\* The callback never puts two responses on one stream, although a CR or LF
\* and the FIN that follows it both complete the request.
THEOREM AnsweredOnce == Spec => []AnsweredAtMostOnce
<1>1. OnceInv => AnsweredAtMostOnce
  BY DEF OnceInv
<1> QED
  BY <1>1, OnceInit, OnceStep, TypeCorrect, PTL DEF Spec

-----------------------------------------------------------------------------
\* A step keeps what a finished stream has, or its connection loses its context.
LEMMA FinishedStep ==
  ASSUME TypeOK, [Next]_vars, NEW x \in Key, status[x] = "finished", has_ctx'[x[1]]
  PROVE  status'[x] = "finished" /\ command_length'[x] = command_length[x]
<1>1. ASSUME NEW y \in Key, Callback(y)
      PROVE  status'[x] = "finished" /\ command_length'[x] = command_length[x]
  BY <1>1 DEF Callback, ContextFails, StreamContextFails, Overrun, Store, StatusSeen, contexts,
     TypeOK
<1>2. CASE RecvResponse
  BY <1>2 DEF RecvResponse, Answered, TypeOK
<1>3. CASE PeerAborts
  BY <1>3, PacketFacts DEF PeerAborts, TypeOK
<1>4. CASE PeerCloses
  BY <1>4, PacketFacts DEF PeerCloses, TypeOK
<1>5. CASE UNCHANGED <<status, command_length>>
  BY <1>5
<1> QED
  BY <1>1, <1>2, <1>3, <1>4, <1>5 DEF Next, Server, Environment, vars, contexts, SelectTimeout,
     SelectError, Arrive, RecvTimeout, RecvOther, AbortFails, DeliverDone, Forward, Resolve, Drop,
     Send, SendDisconnected, SendError, SendDone, Exited

\* Neither data after FIN nor an abort nor a second answer changes the status
\* or the command of a finished stream.
THEOREM FinishedForGood == Spec => FinishedIsFinal
<1>1. TypeOK /\ [Next]_vars =>
        [\A x \in Key : status[x] = "finished" /\ has_ctx'[x[1]] =>
            status'[x] = "finished" /\ command_length'[x] = command_length[x]]_vars
  BY FinishedStep
<1> QED
  BY <1>1, TypeCorrect, PTL DEF Spec, FinishedIsFinal

-----------------------------------------------------------------------------
(***************************************************************************)
(* Refinement of DnsExchange: Forward begins an exchange, RecvResponse     *)
(* gives its response to a stream, every other step stutters.              *)
(***************************************************************************)
LEMMA ExchangeStep ==
  ASSUME TypeOK, ResponseInv, OnceInv, [Next]_vars
  PROVE  [Exchange!Next]_<<forwarded, Given>>
<1>1. CASE Forward
  <2> DEFINE e == [n |-> received, q |-> Extract(buffer)]
  <2>1. /\ forwarded' = forwarded \cup {e} /\ answer' = answer /\ pkt \in Packets
        /\ \A f \in forwarded : f.n \in Nat /\ f.n < received
    BY <1>1 DEF Forward, ResponseInv, ForwardedInv, TypeOK, Request
  <2>2. received \in Nat /\ e \in [n : Nat, q : Query \cup {None}]
    BY <2>1, ExtractType DEF TypeOK
  <2>3. (\A f \in forwarded : f.n # e.n) /\ e \in forwarded' \ forwarded
    BY <2>1, <2>2
  <2>4. Given' = Given
    BY <2>1 DEF Given
  <2>5. Exchange!Ask
    BY <2>1, <2>2, <2>3, <2>4 DEF Exchange!Ask
  <2> QED
    BY <2>5 DEF Exchange!Next
<1>2. CASE RecvResponse
  <2> DEFINE d == Head(fd2)
             e == RequestOf(d)
  <2>1. /\ fd2 # <<>> /\ d.ok /\ cur \in Key /\ forwarded' = forwarded
        /\ answer' = [answer EXCEPT ![cur] = @ \cup {d}] /\ pc = "wait"
    BY <1>2 DEF RecvResponse, IsResponse, TypeOK, dns
  <2>2. answer[cur] = {}
    BY <2>1 DEF OnceInv, PC
  <2>3. /\ e \in forwarded /\ d.q \in Query \ RefusedQuery
        /\ \E j \in DOMAIN fd2 : d = fd2[j]
    BY <2>1, QueueTail DEF ResponseInv, QueueInv, TypeOK
  <2>4. e.n = d.n /\ e.q = d.q
    BY DEF RequestOf
  <2>5. ASSUME NEW y \in Key PROVE e \notin Given[y]
    <3>1. \A a \in answer[y] : a.n # d.n
      BY <2>3 DEF ResponseInv, AnswerInv
    <3>2. Given[y] = {[n |-> a.n, q |-> a.q] : a \in answer[y]}
      BY DEF Given
    <3>3. ASSUME e \in Given[y] PROVE FALSE
      <4>1. PICK a \in answer[y] : e = [n |-> a.n, q |-> a.q]
        BY <3>2, <3>3
      <4>2. e.n = a.n
        BY <4>1
      <4> QED
        BY <2>4, <3>1, <4>2
    <3> QED
      BY <3>3
  <2>6. Given[cur] = {}
    BY <2>1, <2>2 DEF Given
  <2>7. Given' = [Given EXCEPT ![cur] = {e}]
    <3>1. \A y \in Key : answer'[y] = IF y = cur THEN {d} ELSE answer[y]
      BY <2>1, <2>2 DEF TypeOK
    <3>2. Given' = [y \in Key |-> {RequestOf(a) : a \in answer'[y]}]
      BY DEF Given, RequestOf
    <3>3. \A y \in Key : {RequestOf(a) : a \in answer'[y]} = IF y = cur THEN {e} ELSE Given[y]
      BY <3>1 DEF Given, RequestOf
    <3> QED
      BY <3>2, <3>3 DEF Given
  <2>8. Exchange!Give(cur, e)
    BY <2>1, <2>3, <2>4, <2>5, <2>6, <2>7 DEF Exchange!Give
  <2> QED
    BY <2>1, <2>3, <2>8 DEF Exchange!Next
<1>3. CASE UNCHANGED <<forwarded, answer>>
  BY <1>3 DEF Given
<1> QED
  BY <1>1, <1>2, <1>3 DEF Next, Server, Environment, vars, dns, SelectTimeout, SelectError,
     Arrive, Callback, ContextFails, StreamContextFails, Overrun, Store, RecvTimeout, RecvOther,
     PeerAborts, AbortFails, PeerCloses, DeliverDone, Resolve, Drop, Send, SendDisconnected,
     SendError, SendDone, Exited

\* Every behaviour of the server is one of DnsExchange: each answered stream
\* has the response of an exchange that answers no other stream.
THEOREM ServerImplementsExchange == Spec => ImplementsExchange
<1>1. Init => Exchange!Init
  BY DEF Init, Exchange!Init, Given
<1>2. TypeOK /\ ResponseInv /\ OnceInv /\ [Next]_vars => [Exchange!Next]_<<forwarded, Given>>
  BY ExchangeStep
<1>3. Spec => []OnceInv
  BY OnceInit, OnceStep, TypeCorrect, PTL DEF Spec
<1> QED
  BY <1>1, <1>2, <1>3, TypeCorrect, ResponseInvariant, PTL DEF Spec, ImplementsExchange, Exchange!Spec
============================================================================
