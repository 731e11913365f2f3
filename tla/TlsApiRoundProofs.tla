-------------------------- MODULE TlsApiRoundProofs --------------------------
(***************************************************************************)
(* Theorems about TlsApiRound: until the clock jumps for a stateless       *)
(* packet it never goes back, and the links keep their order even then,    *)
(* for any patterns, limits and wake times.  The lemmas about the two      *)
(* links are those of SimLinkProofs, once for each.                        *)
(***************************************************************************)
EXTENDS TlsApiRound, FiniteSetTheorems, TLAPS

ToServer == INSTANCE SimLinkProofs WITH
  link <- c_to_s_link, loss_mask <- Word("c_to_s"), Length <- [p \in Packet |-> p],
  Time <- Nat, Rate <- {Rate}, Latency <- {Latency}, DelayMax <- {DelayMax}, MaxSubmits <- 0

ToClient == INSTANCE SimLinkProofs WITH
  link <- s_to_c_link, loss_mask <- Word("s_to_c"), Length <- [p \in Packet |-> p],
  Time <- Nat, Rate <- {Rate}, Latency <- {Latency}, DelayMax <- {DelayMax}, MaxSubmits <- 0

-----------------------------------------------------------------------------
(***************************************************************************)
(* The link to the server.                                                 *)
(***************************************************************************)

LEMMA ToServerAssumed == ToServer!LinkAssumption
BY RoundAssumption DEF ToServer!LinkAssumption

LEMMA ToServerSame ==
  /\ c_to_s!TypeOK <=> ToServer!TypeOK
  /\ c_to_s!ArrivalsOrdered <=> ToServer!ArrivalsOrdered
  /\ \A t \in Nat : c_to_s!NextArrival(t) = ToServer!NextArrival(t)
  /\ \A t \in Nat : c_to_s!Dequeue(t) <=> ToServer!Dequeue(t)
  /\ \A p \in Packet, t \in Nat : c_to_s!Submit(p, t) <=> ToServer!Submit(p, t)
<1>1. c_to_s!TypeOK <=> ToServer!TypeOK
  BY DEF c_to_s!TypeOK, ToServer!TypeOK, c_to_s!Link, ToServer!Link, c_to_s!Queued, ToServer!Queued
<1>2. c_to_s!ArrivalsOrdered <=> ToServer!ArrivalsOrdered
  BY DEF c_to_s!ArrivalsOrdered, ToServer!ArrivalsOrdered
<1>3. \A t \in Nat : c_to_s!NextArrival(t) = ToServer!NextArrival(t)
  BY DEF c_to_s!NextArrival, ToServer!NextArrival
<1>4. \A t \in Nat : c_to_s!Dequeue(t) <=> ToServer!Dequeue(t)
  BY DEF c_to_s!Dequeue, ToServer!Dequeue, c_to_s!Due, ToServer!Due, c_to_s!Removed, ToServer!Removed
<1>5. \A p \in Packet, t \in Nat : c_to_s!Submit(p, t) <=> ToServer!Submit(p, t)
  BY DEF c_to_s!Submit, c_to_s!Accepts, c_to_s!QueueDelay, c_to_s!QueueTime, c_to_s!TransmitTime,
         c_to_s!Lost, c_to_s!Arriving, c_to_s!Congested, c_to_s!Rotate,
         ToServer!Submit, ToServer!Accepts, ToServer!QueueDelay, ToServer!QueueTime, ToServer!TransmitTime,
         ToServer!Lost, ToServer!Arriving, ToServer!Congested, ToServer!Rotate
<1> QED
  BY <1>1, <1>2, <1>3, <1>4, <1>5

LEMMA ToServerSubmit ==
  ASSUME c_to_s!TypeOK, c_to_s!ArrivalsOrdered, NEW p \in Packet, NEW t \in Nat, c_to_s!Submit(p, t)
  PROVE  /\ (c_to_s!TypeOK /\ c_to_s!ArrivalsOrdered)'
         /\ \A k \in DOMAIN c_to_s_link'.packets :
              \/ c_to_s_link'.packets[k].arrival_time \in Nat /\ c_to_s_link'.packets[k].arrival_time > t
              \/ k \in DOMAIN c_to_s_link.packets /\ c_to_s_link'.packets[k] = c_to_s_link.packets[k]
<1>1. ToServer!TypeOK /\ ToServer!ArrivalsOrdered /\ ToServer!Submit(p, t)
  BY ToServerSame
<1>2. (ToServer!TypeOK /\ ToServer!ArrivalsOrdered)'
  BY <1>1, ToServerAssumed, ToServer!SubmitStep
<1>3. (c_to_s!TypeOK /\ c_to_s!ArrivalsOrdered)'
  BY <1>2 DEF c_to_s!TypeOK, ToServer!TypeOK, c_to_s!Link, ToServer!Link, c_to_s!Queued, ToServer!Queued,
              c_to_s!ArrivalsOrdered, ToServer!ArrivalsOrdered
<1> DEFINE a == ToServer!Arriving(p, t)
<1>4. \/ c_to_s_link'.packets = c_to_s_link.packets
      \/ /\ c_to_s_link'.packets = Append(c_to_s_link.packets, a)
         /\ a.arrival_time \in Nat
         /\ a.arrival_time > t
  BY <1>1, ToServerAssumed, ToServer!SubmitLater
<1>5. c_to_s_link.packets \in Seq(c_to_s!Queued)
  BY DEF c_to_s!TypeOK, c_to_s!Link
<1> HIDE DEF a
<1> QED
  BY <1>3, <1>4, <1>5

LEMMA ToServerDequeue ==
  ASSUME c_to_s!TypeOK, c_to_s!ArrivalsOrdered, NEW t \in Nat, c_to_s!Dequeue(t)
  PROVE  /\ (c_to_s!TypeOK /\ c_to_s!ArrivalsOrdered)'
         /\ \A k \in DOMAIN c_to_s_link'.packets :
              k + 1 \in DOMAIN c_to_s_link.packets /\ c_to_s_link'.packets[k] = c_to_s_link.packets[k + 1]
<1>1. ToServer!TypeOK /\ ToServer!ArrivalsOrdered /\ ToServer!Dequeue(t)
  BY ToServerSame
<1>2. (ToServer!TypeOK /\ ToServer!ArrivalsOrdered)'
  BY <1>1, ToServerAssumed, ToServer!DequeueStep
<1>3. (c_to_s!TypeOK /\ c_to_s!ArrivalsOrdered)'
  BY <1>2 DEF c_to_s!TypeOK, ToServer!TypeOK, c_to_s!Link, ToServer!Link, c_to_s!Queued, ToServer!Queued,
              c_to_s!ArrivalsOrdered, ToServer!ArrivalsOrdered
<1>5. \A k \in DOMAIN c_to_s_link'.packets :
        k + 1 \in DOMAIN c_to_s_link.packets /\ c_to_s_link'.packets[k] = c_to_s_link.packets[k + 1]
  BY <1>1, ToServerAssumed, ToServer!DequeueLeaves
<1> QED
  BY <1>3, <1>5

LEMMA ToServerArrival ==
  ASSUME c_to_s!TypeOK, c_to_s!ArrivalsOrdered, NEW t \in Nat
  PROVE  /\ c_to_s!NextArrival(t) \in Nat /\ c_to_s!NextArrival(t) <= t
         /\ \/ c_to_s!NextArrival(t) = t
            \/ \E k \in DOMAIN c_to_s_link.packets : c_to_s!NextArrival(t) = c_to_s_link.packets[k].arrival_time
         /\ \A k \in DOMAIN c_to_s_link.packets : c_to_s!NextArrival(t) <= c_to_s_link.packets[k].arrival_time
BY ToServerSame, ToServerAssumed, ToServer!NextArrivalFirst

-----------------------------------------------------------------------------
(***************************************************************************)
(* The link to the client.                                                 *)
(***************************************************************************)

LEMMA ToClientAssumed == ToClient!LinkAssumption
BY RoundAssumption DEF ToClient!LinkAssumption

LEMMA ToClientSame ==
  /\ s_to_c!TypeOK <=> ToClient!TypeOK
  /\ s_to_c!ArrivalsOrdered <=> ToClient!ArrivalsOrdered
  /\ \A t \in Nat : s_to_c!NextArrival(t) = ToClient!NextArrival(t)
  /\ \A t \in Nat : s_to_c!Dequeue(t) <=> ToClient!Dequeue(t)
  /\ \A p \in Packet, t \in Nat : s_to_c!Submit(p, t) <=> ToClient!Submit(p, t)
<1>1. s_to_c!TypeOK <=> ToClient!TypeOK
  BY DEF s_to_c!TypeOK, ToClient!TypeOK, s_to_c!Link, ToClient!Link, s_to_c!Queued, ToClient!Queued
<1>2. s_to_c!ArrivalsOrdered <=> ToClient!ArrivalsOrdered
  BY DEF s_to_c!ArrivalsOrdered, ToClient!ArrivalsOrdered
<1>3. \A t \in Nat : s_to_c!NextArrival(t) = ToClient!NextArrival(t)
  BY DEF s_to_c!NextArrival, ToClient!NextArrival
<1>4. \A t \in Nat : s_to_c!Dequeue(t) <=> ToClient!Dequeue(t)
  BY DEF s_to_c!Dequeue, ToClient!Dequeue, s_to_c!Due, ToClient!Due, s_to_c!Removed, ToClient!Removed
<1>5. \A p \in Packet, t \in Nat : s_to_c!Submit(p, t) <=> ToClient!Submit(p, t)
  BY DEF s_to_c!Submit, s_to_c!Accepts, s_to_c!QueueDelay, s_to_c!QueueTime, s_to_c!TransmitTime,
         s_to_c!Lost, s_to_c!Arriving, s_to_c!Congested, s_to_c!Rotate,
         ToClient!Submit, ToClient!Accepts, ToClient!QueueDelay, ToClient!QueueTime, ToClient!TransmitTime,
         ToClient!Lost, ToClient!Arriving, ToClient!Congested, ToClient!Rotate
<1> QED
  BY <1>1, <1>2, <1>3, <1>4, <1>5

LEMMA ToClientSubmit ==
  ASSUME s_to_c!TypeOK, s_to_c!ArrivalsOrdered, NEW p \in Packet, NEW t \in Nat, s_to_c!Submit(p, t)
  PROVE  /\ (s_to_c!TypeOK /\ s_to_c!ArrivalsOrdered)'
         /\ \A k \in DOMAIN s_to_c_link'.packets :
              \/ s_to_c_link'.packets[k].arrival_time \in Nat /\ s_to_c_link'.packets[k].arrival_time > t
              \/ k \in DOMAIN s_to_c_link.packets /\ s_to_c_link'.packets[k] = s_to_c_link.packets[k]
<1>1. ToClient!TypeOK /\ ToClient!ArrivalsOrdered /\ ToClient!Submit(p, t)
  BY ToClientSame
<1>2. (ToClient!TypeOK /\ ToClient!ArrivalsOrdered)'
  BY <1>1, ToClientAssumed, ToClient!SubmitStep
<1>3. (s_to_c!TypeOK /\ s_to_c!ArrivalsOrdered)'
  BY <1>2 DEF s_to_c!TypeOK, ToClient!TypeOK, s_to_c!Link, ToClient!Link, s_to_c!Queued, ToClient!Queued,
              s_to_c!ArrivalsOrdered, ToClient!ArrivalsOrdered
<1> DEFINE a == ToClient!Arriving(p, t)
<1>4. \/ s_to_c_link'.packets = s_to_c_link.packets
      \/ /\ s_to_c_link'.packets = Append(s_to_c_link.packets, a)
         /\ a.arrival_time \in Nat
         /\ a.arrival_time > t
  BY <1>1, ToClientAssumed, ToClient!SubmitLater
<1>5. s_to_c_link.packets \in Seq(s_to_c!Queued)
  BY DEF s_to_c!TypeOK, s_to_c!Link
<1> HIDE DEF a
<1> QED
  BY <1>3, <1>4, <1>5

LEMMA ToClientDequeue ==
  ASSUME s_to_c!TypeOK, s_to_c!ArrivalsOrdered, NEW t \in Nat, s_to_c!Dequeue(t)
  PROVE  /\ (s_to_c!TypeOK /\ s_to_c!ArrivalsOrdered)'
         /\ \A k \in DOMAIN s_to_c_link'.packets :
              k + 1 \in DOMAIN s_to_c_link.packets /\ s_to_c_link'.packets[k] = s_to_c_link.packets[k + 1]
<1>1. ToClient!TypeOK /\ ToClient!ArrivalsOrdered /\ ToClient!Dequeue(t)
  BY ToClientSame
<1>2. (ToClient!TypeOK /\ ToClient!ArrivalsOrdered)'
  BY <1>1, ToClientAssumed, ToClient!DequeueStep
<1>3. (s_to_c!TypeOK /\ s_to_c!ArrivalsOrdered)'
  BY <1>2 DEF s_to_c!TypeOK, ToClient!TypeOK, s_to_c!Link, ToClient!Link, s_to_c!Queued, ToClient!Queued,
              s_to_c!ArrivalsOrdered, ToClient!ArrivalsOrdered
<1>5. \A k \in DOMAIN s_to_c_link'.packets :
        k + 1 \in DOMAIN s_to_c_link.packets /\ s_to_c_link'.packets[k] = s_to_c_link.packets[k + 1]
  BY <1>1, ToClientAssumed, ToClient!DequeueLeaves
<1> QED
  BY <1>3, <1>5

LEMMA ToClientArrival ==
  ASSUME s_to_c!TypeOK, s_to_c!ArrivalsOrdered, NEW t \in Nat
  PROVE  /\ s_to_c!NextArrival(t) \in Nat /\ s_to_c!NextArrival(t) <= t
         /\ \/ s_to_c!NextArrival(t) = t
            \/ \E k \in DOMAIN s_to_c_link.packets : s_to_c!NextArrival(t) = s_to_c_link.packets[k].arrival_time
         /\ \A k \in DOMAIN s_to_c_link.packets : s_to_c!NextArrival(t) <= s_to_c_link.packets[k].arrival_time
BY ToClientSame, ToClientAssumed, ToClient!NextArrivalFirst

-----------------------------------------------------------------------------
(***************************************************************************)
(* The word both may point to.                                             *)
(***************************************************************************)

PatternType == loss_mask \in Seq(BOOLEAN) /\ attached \subseteq LinkName

LEMMA WordType ==
  /\ \A l \in LinkName : PatternType => Word(l) \in Seq(BOOLEAN)
  /\ \A l \in LinkName : PatternType' => Word(l)' \in Seq(BOOLEAN)
<1>1. <<>> \in Seq(BOOLEAN)
  OBVIOUS
<1> QED
  BY <1>1 DEF PatternType, Word

LEMMA SubmittedType ==
  ASSUME PatternType, NEW l, Submitted(l)
  PROVE  PatternType' /\ attached' = attached
<1>1. c_to_s!Rotate(loss_mask) \in Seq(BOOLEAN)
  <2>1. CASE loss_mask = <<>>
    BY <2>1 DEF c_to_s!Rotate, PatternType
  <2>2. CASE loss_mask # <<>>
    <3>1. Tail(loss_mask) \in Seq(BOOLEAN) /\ Head(loss_mask) \in BOOLEAN
      BY <2>2 DEF PatternType
    <3> QED
      BY <2>2, <3>1 DEF c_to_s!Rotate
  <2> QED
    BY <2>1, <2>2
<1> QED
  BY <1>1 DEF Submitted, PatternType

-----------------------------------------------------------------------------
(***************************************************************************)
(* The clock.                                                              *)
(***************************************************************************)

\* The links' order is part of it: when the oldest packet of a link is taken,
\* the others of that link must not be earlier.
ClockInv ==
  /\ half \in {"send", "arrive"}
  /\ simulated_time \in Nat
  /\ next_wake_time \in [End -> Nat]
  /\ c_to_s!TypeOK /\ s_to_c!TypeOK /\ PatternType
  /\ LinksOrdered
  /\ stateless \in Nat /\ made \in Nat /\ (made = 0 => stateless = 0)
  /\ NothingLate

LEMMA Times ==
  ASSUME s_to_c!TypeOK, c_to_s!TypeOK, NEW l \in {c_to_s_link, s_to_c_link}, NEW k \in DOMAIN l.packets
  PROVE  l.packets[k].arrival_time \in Nat
<1>1. CASE l = c_to_s_link
  <2>1. l.packets \in Seq(c_to_s!Queued)
    BY <1>1 DEF c_to_s!TypeOK, c_to_s!Link
  <2>2. l.packets[k] \in c_to_s!Queued
    BY <2>1
  <2> QED
    BY <2>2 DEF c_to_s!Queued
<1>2. CASE l = s_to_c_link
  <2>1. l.packets \in Seq(s_to_c!Queued)
    BY <1>2 DEF s_to_c!TypeOK, s_to_c!Link
  <2>2. l.packets[k] \in s_to_c!Queued
    BY <2>1
  <2> QED
    BY <2>2 DEF s_to_c!Queued
<1> QED
  BY <1>1, <1>2

LEMMA CalledType ==
  ASSUME NEW es, NEW t \in Nat, next_wake_time \in [End -> Nat], Called(es, t)
  PROVE  next_wake_time' \in [End -> Nat]
<1>1. PICK d \in [End -> WakeDelay] :
        next_wake_time' = [e \in End |-> IF e \in es THEN t + d[e] ELSE next_wake_time[e]]
  BY DEF Called
<1>2. \A e \in End : d[e] \in Nat /\ next_wake_time[e] \in Nat
  BY RoundAssumption
<1>3. \A e \in End : (IF e \in es THEN t + d[e] ELSE next_wake_time[e]) \in Nat
  BY <1>2
<1> QED
  BY <1>1, <1>3

LEMMA NextTimeType ==
  ASSUME simulated_time \in Nat, next_wake_time \in [End -> Nat]
  PROVE  NextTime \in Nat /\ NextTime >= simulated_time + 5000
<1>1. Wake \in Nat
  BY DEF Wake, End
<1> QED
  BY <1>1 DEF NextTime

LEMMA NewLinkStart ==
  /\ c_to_s!NewLink(Rate, Latency, DelayMax, 0) \in c_to_s!Link
  /\ c_to_s!NewLink(Rate, Latency, DelayMax, 0).packets = <<>>
  /\ s_to_c!NewLink(Rate, Latency, DelayMax, 0) \in s_to_c!Link
  /\ s_to_c!NewLink(Rate, Latency, DelayMax, 0).packets = <<>>
BY RoundAssumption DEF c_to_s!NewLink, c_to_s!Link, s_to_c!NewLink, s_to_c!Link

LEMMA ClockInit == Init => ClockInv
<1> SUFFICES ASSUME Init PROVE ClockInv
  OBVIOUS
<1>1. c_to_s_link \in c_to_s!Link /\ s_to_c_link \in s_to_c!Link
      /\ c_to_s_link.packets = <<>> /\ s_to_c_link.packets = <<>>
  BY NewLinkStart DEF Init
<1>2. PatternType /\ \A l \in LinkName : Word(l) \in Seq(BOOLEAN)
  BY RoundAssumption, WordType DEF Init, PatternType
<1>3. LinksOrdered /\ NothingLate
  BY <1>1 DEF LinksOrdered, NothingLate, c_to_s!ArrivalsOrdered, s_to_c!ArrivalsOrdered
<1> QED
  BY <1>1, <1>2, <1>3 DEF Init, ClockInv, c_to_s!TypeOK, s_to_c!TypeOK, End, LinkName

LEMMA ClockStep ==
  ASSUME ClockInv, [Next]_vars
  PROVE  ClockInv' /\ (made = 0 => RoundTime' >= RoundTime)
<1> USE DEF ClockInv
<1>0. simulated_time \in Nat /\ c_to_s!TypeOK /\ s_to_c!TypeOK
      /\ c_to_s!ArrivalsOrdered /\ s_to_c!ArrivalsOrdered
  BY DEF LinksOrdered
<1>1. \A l \in {c_to_s_link, s_to_c_link} : \A k \in DOMAIN l.packets :
        l.packets[k].arrival_time \in Nat /\ (made = 0 => RoundTime <= l.packets[k].arrival_time)
  BY <1>0, Times DEF NothingLate
<1>2. CASE SendStateless
  <2>1. half = "send" /\ half' = "send" /\ simulated_time' = simulated_time + 100000
        /\ c_to_s_link' = c_to_s_link /\ stateless' = stateless - 1 /\ stateless > 0 /\ made' = made
        /\ next_wake_time' = next_wake_time
    BY <1>2 DEF SendStateless, Begins
  <2>2. PICK t \in Nat : t = simulated_time + 100000
    BY <1>0
  <2>3. PICK p \in Packet : SubmitToClient(p, t)
    BY <1>2, <2>2 DEF SendStateless
  <2>8. s_to_c!Submit(p, t) /\ PatternType' /\ (Word("c_to_s") \in Seq(BOOLEAN))'
    BY <2>3, SubmittedType, WordType DEF SubmitToClient, LinkName
  <2>4. (s_to_c!TypeOK /\ s_to_c!ArrivalsOrdered)'
    BY <1>0, <2>2, <2>3, <2>8, ToClientSubmit
  <2>5. (c_to_s!TypeOK /\ c_to_s!ArrivalsOrdered)'
    BY <1>0, <2>1, <2>8 DEF c_to_s!TypeOK, c_to_s!ArrivalsOrdered
  <2>6. made # 0 /\ NothingLate'
    BY <2>1 DEF NothingLate
  <2> QED
    BY <1>0, <2>1, <2>2, <2>4, <2>5, <2>6, <2>8 DEF LinksOrdered
<1>3. CASE SendClient
  <2>1. half = "send" /\ half' = "send" /\ simulated_time' = simulated_time
        /\ s_to_c_link' = s_to_c_link /\ stateless' = stateless /\ made' = made
    BY <1>3 DEF SendClient, Begins
  <2>2. PICK p \in Packet : SubmitToServer(p, simulated_time)
    BY <1>3 DEF SendClient
  <2>3. PICK t \in Nat : t = simulated_time
    BY <1>0
  <2>8. c_to_s!Submit(p, t) /\ PatternType' /\ (Word("s_to_c") \in Seq(BOOLEAN))'
    BY <2>2, <2>3, SubmittedType, WordType DEF SubmitToServer, LinkName
  <2>4. /\ (c_to_s!TypeOK /\ c_to_s!ArrivalsOrdered)'
        /\ \A k \in DOMAIN c_to_s_link'.packets :
             \/ c_to_s_link'.packets[k].arrival_time \in Nat /\ c_to_s_link'.packets[k].arrival_time > t
             \/ k \in DOMAIN c_to_s_link.packets /\ c_to_s_link'.packets[k] = c_to_s_link.packets[k]
    BY <1>0, <2>2, <2>3, <2>8, ToServerSubmit
  <2>5. (s_to_c!TypeOK /\ s_to_c!ArrivalsOrdered)'
    BY <1>0, <2>1, <2>8 DEF s_to_c!TypeOK, s_to_c!ArrivalsOrdered
  <2>6. NothingLate'
    BY <1>0, <1>1, <2>1, <2>3, <2>4 DEF NothingLate, RoundTime
  <2>7. next_wake_time' \in [End -> Nat]
    BY <1>3, <2>3, CalledType DEF SendClient
  <2> QED
    BY <1>0, <2>1, <2>4, <2>5, <2>6, <2>7, <2>8 DEF LinksOrdered, RoundTime
<1>4. CASE SendServer
  <2>1. half = "send" /\ half' = "send" /\ simulated_time' = simulated_time
        /\ c_to_s_link' = c_to_s_link /\ stateless' = stateless /\ made' = made
    BY <1>4 DEF SendServer, Begins
  <2>2. PICK p \in Packet : SubmitToClient(p, simulated_time)
    BY <1>4 DEF SendServer
  <2>3. PICK t \in Nat : t = simulated_time
    BY <1>0
  <2>8. s_to_c!Submit(p, t) /\ PatternType' /\ (Word("c_to_s") \in Seq(BOOLEAN))'
    BY <2>2, <2>3, SubmittedType, WordType DEF SubmitToClient, LinkName
  <2>4. /\ (s_to_c!TypeOK /\ s_to_c!ArrivalsOrdered)'
        /\ \A k \in DOMAIN s_to_c_link'.packets :
             \/ s_to_c_link'.packets[k].arrival_time \in Nat /\ s_to_c_link'.packets[k].arrival_time > t
             \/ k \in DOMAIN s_to_c_link.packets /\ s_to_c_link'.packets[k] = s_to_c_link.packets[k]
    BY <1>0, <2>2, <2>3, <2>8, ToClientSubmit
  <2>5. (c_to_s!TypeOK /\ c_to_s!ArrivalsOrdered)'
    BY <1>0, <2>1, <2>8 DEF c_to_s!TypeOK, c_to_s!ArrivalsOrdered
  <2>6. NothingLate'
    BY <1>0, <1>1, <2>1, <2>3, <2>4 DEF NothingLate, RoundTime
  <2>7. next_wake_time' \in [End -> Nat]
    BY <1>4, <2>3, CalledType DEF SendServer
  <2> QED
    BY <1>0, <2>1, <2>4, <2>5, <2>6, <2>7, <2>8 DEF LinksOrdered, RoundTime
<1>5. CASE SendNothing
  <2>1. half = "send" /\ half' = "arrive" /\ simulated_time' = simulated_time + 5000
        /\ c_to_s_link' = c_to_s_link /\ s_to_c_link' = s_to_c_link /\ loss_mask' = loss_mask
        /\ attached' = attached /\ stateless' = stateless
    BY <1>5 DEF SendNothing, Begins, links
  <2>2. PICK t \in Nat : t = simulated_time
    BY <1>0
  <2>3. made' = made
    BY <1>5 DEF SendNothing
  <2>4. next_wake_time' \in [End -> Nat]
    BY <1>5, <2>2, CalledType DEF SendNothing
  <2>5. RoundTime' = RoundTime
    BY <1>0, <2>1 DEF RoundTime
  <2>6. RoundTime \in Nat
    BY <1>0, <2>1 DEF RoundTime
  <2> QED
    BY <1>0, <2>1, <2>3, <2>4, <2>5, <2>6 DEF LinksOrdered, NothingLate, c_to_s!TypeOK, c_to_s!ArrivalsOrdered,
       s_to_c!TypeOK, s_to_c!ArrivalsOrdered, Word, PatternType
<1>6. ASSUME half = "arrive", Arrive
      PROVE  ClockInv' /\ (made = 0 => RoundTime' >= RoundTime)
  <2>1. PICK n \in Nat : n = NextTime /\ n >= simulated_time + 5000
    BY NextTimeType
  <2>2. /\ ClientArrival \in Nat /\ ClientArrival <= n
        /\ \/ ClientArrival = n
           \/ \E k \in DOMAIN s_to_c_link.packets : ClientArrival = s_to_c_link.packets[k].arrival_time
        /\ \A k \in DOMAIN s_to_c_link.packets : ClientArrival <= s_to_c_link.packets[k].arrival_time
    BY <1>0, <2>1, ToClientArrival DEF ClientArrival
  <2>3. /\ ServerArrival \in Nat /\ ServerArrival <= n
        /\ \/ ServerArrival = n
           \/ \E k \in DOMAIN c_to_s_link.packets : ServerArrival = c_to_s_link.packets[k].arrival_time
        /\ \A k \in DOMAIN c_to_s_link.packets : ServerArrival <= c_to_s_link.packets[k].arrival_time
    BY <1>0, <2>1, ToServerArrival DEF ServerArrival
  <2>4. RoundTime = simulated_time - 5000 /\ RoundTime \in Int /\ n >= RoundTime
    BY <1>0, <1>6, <2>1 DEF RoundTime
  <2>5. made = 0 => ClientArrival >= RoundTime /\ ServerArrival >= RoundTime
    BY <1>1, <2>2, <2>3, <2>4
  <2>6. CASE ArriveClient
    <3>1. PICK t \in Nat : t = ClientArrival
      BY <2>2
    <3>2. half' = "send" /\ simulated_time' = t /\ c_to_s_link' = c_to_s_link
          /\ stateless' = stateless /\ made' = made /\ Called({"client"}, t) /\ s_to_c!Dequeue(t)
          /\ UNCHANGED <<loss_mask, attached>>
      BY <2>6, <3>1 DEF ArriveClient, Incoming
    <3>3. /\ (s_to_c!TypeOK /\ s_to_c!ArrivalsOrdered)'
          /\ \A k \in DOMAIN s_to_c_link'.packets :
               k + 1 \in DOMAIN s_to_c_link.packets /\ s_to_c_link'.packets[k] = s_to_c_link.packets[k + 1]
      BY <1>0, <3>2, ToClientDequeue
    <3>4. t < ServerArrival
      BY <2>6, <3>1 DEF ArriveClient, ClientFirst
    <3>5. NothingLate'
      <4>1. \A k \in DOMAIN c_to_s_link'.packets : t <= c_to_s_link'.packets[k].arrival_time
        BY <1>1, <2>3, <3>2, <3>4
      <4>2. \A k \in DOMAIN s_to_c_link'.packets : t <= s_to_c_link'.packets[k].arrival_time
        BY <2>2, <3>1, <3>3
      <4> QED
        BY <3>2, <4>1, <4>2 DEF NothingLate, RoundTime
    <3>6. next_wake_time' \in [End -> Nat]
      BY <3>2, CalledType
    <3>7. (c_to_s!TypeOK /\ c_to_s!ArrivalsOrdered)' /\ PatternType'
      BY <1>0, <3>2 DEF c_to_s!TypeOK, c_to_s!ArrivalsOrdered, Word, PatternType
    <3>8. made = 0 => RoundTime' >= RoundTime
      BY <2>4, <2>5, <3>1, <3>2 DEF RoundTime
    <3> QED
      BY <3>1, <3>2, <3>3, <3>5, <3>6, <3>7, <3>8 DEF LinksOrdered
  <2>7. CASE ArriveServer
    <3>1. PICK t \in Nat : t = ServerArrival
      BY <2>3
    <3>2. half' = "send" /\ simulated_time' = t /\ s_to_c_link' = s_to_c_link
          /\ \/ stateless' = stateless /\ made' = made
             \/ stateless' = stateless + 1 /\ made' = made + 1
          /\ Called({"server"}, t) /\ c_to_s!Dequeue(t)
          /\ UNCHANGED <<loss_mask, attached>>
      BY <2>7, <3>1 DEF ArriveServer, Incoming
    <3>3. /\ (c_to_s!TypeOK /\ c_to_s!ArrivalsOrdered)'
          /\ \A k \in DOMAIN c_to_s_link'.packets :
               k + 1 \in DOMAIN c_to_s_link.packets /\ c_to_s_link'.packets[k] = c_to_s_link.packets[k + 1]
      BY <1>0, <3>2, ToServerDequeue
    <3>4. t <= ClientArrival
      BY <2>1, <2>2, <2>3, <2>7, <3>1 DEF ArriveServer, ServerFirst, ClientFirst
    <3>5. NothingLate'
      <4>1. \A k \in DOMAIN s_to_c_link'.packets : t <= s_to_c_link'.packets[k].arrival_time
        BY <1>1, <2>2, <3>2, <3>4
      <4>2. \A k \in DOMAIN c_to_s_link'.packets : t <= c_to_s_link'.packets[k].arrival_time
        BY <2>3, <3>1, <3>3
      <4> QED
        BY <3>2, <4>1, <4>2 DEF NothingLate, RoundTime
    <3>6. next_wake_time' \in [End -> Nat]
      BY <3>2, CalledType
    <3>7. (s_to_c!TypeOK /\ s_to_c!ArrivalsOrdered)' /\ PatternType'
      BY <1>0, <3>2 DEF s_to_c!TypeOK, s_to_c!ArrivalsOrdered, Word, PatternType
    <3>8. made = 0 => RoundTime' >= RoundTime
      BY <2>4, <2>5, <3>1, <3>2 DEF RoundTime
    <3> QED
      BY <3>1, <3>2, <3>3, <3>5, <3>6, <3>7, <3>8 DEF LinksOrdered
  <2>8. CASE ArriveNothing
    <3>1. half' = "send" /\ simulated_time' = n /\ UNCHANGED <<links, engine>>
      BY <2>1, <2>8 DEF ArriveNothing
    <3>2. n <= ClientArrival /\ n <= ServerArrival
      BY <2>1, <2>2, <2>3, <2>8 DEF ArriveNothing, ClientFirst, ServerFirst
    <3>3. NothingLate'
      BY <1>1, <2>2, <2>3, <3>1, <3>2 DEF NothingLate, RoundTime, links
    <3>4. RoundTime' >= RoundTime
      BY <2>4, <3>1 DEF RoundTime
    <3> QED
      BY <1>0, <3>1, <3>3, <3>4 DEF links, engine, LinksOrdered, c_to_s!TypeOK, c_to_s!ArrivalsOrdered,
         s_to_c!TypeOK, s_to_c!ArrivalsOrdered, Word, PatternType
  <2> QED
    BY <1>6, <2>6, <2>7, <2>8 DEF Arrive
<1>7. ASSUME UNCHANGED <<half, simulated_time, next_wake_time, stateless, made, c_to_s_link, s_to_c_link>>,
             loss_mask' = loss_mask, attached' \subseteq LinkName
      PROVE  ClockInv' /\ (made = 0 => RoundTime' >= RoundTime)
  <2>1. RoundTime' = RoundTime /\ RoundTime \in Int
    BY <1>0, <1>7 DEF RoundTime
  <2>2. NothingLate'
    BY <1>7, <2>1 DEF NothingLate
  <2>3. PatternType' /\ (Word("c_to_s") \in Seq(BOOLEAN))' /\ (Word("s_to_c") \in Seq(BOOLEAN))'
    BY <1>7, WordType DEF PatternType, LinkName
  <2> QED
    BY <1>0, <1>7, <2>1, <2>2, <2>3 DEF LinksOrdered, c_to_s!TypeOK, c_to_s!ArrivalsOrdered,
       s_to_c!TypeOK, s_to_c!ArrivalsOrdered
<1>8. CASE Close
  <2>1. attached' \subseteq LinkName
    BY <1>8 DEF Close, PatternType
  <2> QED
    BY <1>7, <1>8, <2>1 DEF Close
<1>9. CASE ConnectFails \/ Crash \/ Closed \/ Ended \/ UNCHANGED vars
  BY <1>7, <1>9 DEF ConnectFails, Crash, Closed, Ended, vars, links, engine, PatternType
<1>10. CASE Arrive
  BY <1>6, <1>10 DEF Arrive, ArriveClient, ArriveServer, ArriveNothing, Incoming
<1> QED
  BY <1>2, <1>3, <1>4, <1>5, <1>8, <1>9, <1>10 DEF Next, Send

\* Until there is a stateless packet the packets of both links are taken in the
\* order of arrival: none waits in a link when its time is past.
THEOREM RoundsOnTime == Spec => []NothingLate
<1>1. ClockInv /\ [Next]_vars => ClockInv'
  BY ClockStep
<1>2. ClockInv => NothingLate
  BY DEF ClockInv
<1> QED
  BY <1>1, <1>2, ClockInit, PTL DEF Spec

\* With or without stateless packets each link keeps the order of its packets.
THEOREM LinksKeepOrder == Spec => []LinksOrdered
<1>1. ClockInv /\ [Next]_vars => ClockInv'
  BY ClockStep
<1>2. ClockInv => LinksOrdered
  BY DEF ClockInv
<1> QED
  BY <1>1, <1>2, ClockInit, PTL DEF Spec

\* Until there is a stateless packet the clock the engines see never goes back.
THEOREM ClockGoesOn == Spec => ClockNeverBack
<1>1. ClockInv /\ [Next]_vars => ClockInv' /\ (made = 0 => RoundTime' >= RoundTime)
  BY ClockStep
<1> QED
  BY <1>1, ClockInit, PTL DEF Spec, ClockNeverBack

-----------------------------------------------------------------------------
(***************************************************************************)
(* The loops: their counters, and what is known when cnx_server is used.   *)
(***************************************************************************)

\* A round that has begun in the connection loop found nb_inactive below its
\* limit; the closing loop is entered with both ends ready or at a limit.
LoopInv ==
  /\ pc \in {"connect", "close", "end", "crash"}
  /\ half \in {"send", "arrive"}
  /\ ret \in {0, -1}
  /\ nb_trials \in 0 .. TrialLimit
  /\ nb_inactive \in 0 .. InactiveLimit
  /\ nb_rounds \in 0 .. CloseLimit
  /\ pattern \in Mask
  /\ cnx_state \in [End -> State \cup {None}] /\ cnx_state["client"] # None
  /\ stateless \in Nat /\ made \in Nat /\ stateless <= made /\ made <= MaxStateless
  /\ half = "arrive" => pc \in {"connect", "close"}
  /\ half = "arrive" /\ pc = "connect" => nb_inactive < InactiveLimit
  /\ pc \in {"close", "crash"} =>
       cnx_state["server"] # None \/ nb_trials = TrialLimit \/ nb_inactive = InactiveLimit
  /\ pc = "crash" => ret = 0 /\ cnx_state["server"] = None

\* The engine never forgets a connection.
LEMMA CalledStates ==
  ASSUME NEW es, NEW t, cnx_state \in [End -> State \cup {None}], Called(es, t)
  PROVE  /\ cnx_state' \in [End -> State \cup {None}]
         /\ \A e \in End : cnx_state[e] # None => cnx_state'[e] # None
<1>1. /\ cnx_state' \in [End -> State \cup {None}]
      /\ \A e \in End : cnx_state'[e] \in After(cnx_state[e]) \/ cnx_state'[e] = cnx_state[e]
  BY DEF Called
<1>2. \A s \in State : None \notin After(s)
  BY RoundAssumption DEF After, State
<1> QED
  BY <1>1, <1>2

\* The head of a loop.
LEMMA BeginsCounts ==
  ASSUME LoopInv, Begins
  PROVE  /\ nb_trials' \in 0 .. TrialLimit /\ nb_rounds' \in 0 .. CloseLimit
         /\ half = "send" /\ pc \in {"connect", "close"}
         /\ pc = "connect" => nb_inactive < InactiveLimit
         /\ pc = "close" => nb_trials' = nb_trials
<1>1. CASE Connecting
  BY <1>1, RoundAssumption DEF LoopInv, Begins, Connecting
<1>2. CASE ~Connecting
  BY <1>2, RoundAssumption DEF LoopInv, Begins, Closing
<1> QED
  BY <1>1, <1>2

LEMMA LoopInit == Init => LoopInv
BY RoundAssumption DEF Init, LoopInv, End, State

LEMMA LoopStep == LoopInv /\ [Next]_vars => LoopInv'
<1> SUFFICES ASSUME LoopInv, [Next]_vars PROVE LoopInv'
  OBVIOUS
<1>0. /\ "client" \in End /\ "server" \in End
      /\ TrialLimit \in Nat /\ InactiveLimit \in Nat /\ CloseLimit \in Nat /\ MaxStateless \in Nat
  BY RoundAssumption DEF End
<1>1. CASE SendStateless
  BY <1>0, <1>1, BeginsCounts DEF SendStateless, Active, LoopInv
<1>2. CASE SendClient
  <2>1. /\ cnx_state' \in [End -> State \cup {None}]
        /\ \A e \in End : cnx_state[e] # None => cnx_state'[e] # None
    BY <1>2, CalledStates DEF SendClient, LoopInv
  <2> QED
    BY <1>0, <1>2, <2>1, BeginsCounts DEF SendClient, Active, LoopInv
<1>3. CASE SendServer
  <2>1. /\ cnx_state' \in [End -> State \cup {None}]
        /\ \A e \in End : cnx_state[e] # None => cnx_state'[e] # None
    BY <1>3, CalledStates DEF SendServer, LoopInv
  <2> QED
    BY <1>0, <1>3, <2>1, BeginsCounts DEF SendServer, Active, LoopInv
<1>4. CASE SendNothing
  <2>1. /\ cnx_state' \in [End -> State \cup {None}]
        /\ \A e \in End : cnx_state[e] # None => cnx_state'[e] # None
    BY <1>4, CalledStates DEF SendNothing, LoopInv
  <2> QED
    BY <1>0, <1>4, <2>1, BeginsCounts DEF SendNothing, LoopInv
<1>5. ASSUME NEW e \in End, NEW t, Incoming(e, t),
             UNCHANGED <<stateless, made>> \/ (made < MaxStateless /\ made' = made + 1 /\ stateless' = stateless + 1)
      PROVE  LoopInv'
  <2>1. /\ cnx_state' \in [End -> State \cup {None}]
        /\ \A d \in End : cnx_state[d] # None => cnx_state'[d] # None
    BY <1>5, CalledStates DEF Incoming, LoopInv
  <2> QED
    BY <1>0, <1>5, <2>1 DEF Incoming, Active, LoopInv
<1>6. CASE ArriveClient
  BY <1>0, <1>5, <1>6 DEF ArriveClient
<1>7. CASE ArriveServer
  BY <1>0, <1>5, <1>7 DEF ArriveServer
<1>8. CASE ArriveNothing
  BY <1>0, <1>8 DEF ArriveNothing, Active, LoopInv, engine
<1>9. CASE Close
  <2>1. nb_trials = TrialLimit \/ nb_inactive = InactiveLimit \/ cnx_state["server"] = "ready"
    BY <1>0, <1>9 DEF Close, Connecting, BothReady, LoopInv
  <2> QED
    BY <1>0, <1>9, <2>1, RoundAssumption DEF Close, LoopInv, counts, State
<1>10. CASE Crash
  BY <1>0, <1>10 DEF Crash, Dereferences, LoopInv, counts, engine
<1>11. CASE ConnectFails \/ Closed
  BY <1>0, <1>11 DEF ConnectFails, Closed, LoopInv, counts, engine
<1>12. CASE UNCHANGED vars
  BY <1>12 DEF vars, LoopInv, counts, engine
<1> QED
  BY <1>1, <1>2, <1>3, <1>4, <1>6, <1>7, <1>8, <1>9, <1>10, <1>11, <1>12 DEF Next, Send, Arrive, Ended

\* The counters of the loops stay within their limits, for any limits, and the
\* variables of the simulated network keep their types.
THEOREM RoundTypeCorrect == Spec => []TypeOK
<1>1. ClockInv /\ [Next]_vars => ClockInv'
  BY ClockStep
<1>2. ClockInv /\ LoopInv => TypeOK
  BY RoundAssumption DEF ClockInv, LoopInv, TypeOK, PatternType
<1> QED
  BY <1>1, <1>2, ClockInit, LoopInit, LoopStep, PTL DEF Spec

\* The loops use a NULL cnx_server only after the connection loop has come to
\* one of its limits, whatever the engine does.
THEOREM CrashesNeedLimit == Spec => []CrashNeedsLimit
<1>1. LoopInv => CrashNeedsLimit
  BY DEF LoopInv, CrashNeedsLimit
<1> QED
  BY <1>1, LoopInit, LoopStep, PTL DEF Spec

-----------------------------------------------------------------------------
(***************************************************************************)
(* Waking up.                                                              *)
(***************************************************************************)

LEMMA WakeFirst ==
  ASSUME NEW e \in End, Connected(e), next_wake_time \in [End -> Nat], simulated_time \in Nat
  PROVE  Wake \in Nat /\ next_wake_time[e] \in Nat /\ Wake <= next_wake_time[e]
BY DEF Wake, End

\* The clock does not jump over the wake time of an endpoint that is connected,
\* for any wake times and any packets under way.
THEOREM NobodyOversleeps == Spec => NoOversleep
<1>1. ASSUME ClockInv, [Next]_vars, half = "arrive", half' = "send", NEW e \in End, Connected(e)
      PROVE  simulated_time' <= simulated_time + 5000 \/ simulated_time' <= next_wake_time[e]
  <2>0. simulated_time \in Nat /\ next_wake_time \in [End -> Nat]
        /\ c_to_s!TypeOK /\ s_to_c!TypeOK /\ c_to_s!ArrivalsOrdered /\ s_to_c!ArrivalsOrdered
    BY <1>1 DEF ClockInv, LinksOrdered
  <2>1. Wake \in Nat /\ next_wake_time[e] \in Nat /\ Wake <= next_wake_time[e]
    BY <1>1, <2>0, WakeFirst
  <2>2. PICK n \in Nat : n = NextTime
    BY <2>0, NextTimeType
  <2>3. n <= simulated_time + 5000 \/ n <= next_wake_time[e]
    BY <2>0, <2>1, <2>2 DEF NextTime
  <2>4. ClientArrival \in Nat /\ ClientArrival <= n /\ ServerArrival \in Nat /\ ServerArrival <= n
    BY <2>0, <2>2, ToClientArrival, ToServerArrival DEF ClientArrival, ServerArrival
  <2>5. ~Send /\ ~Close /\ ~ConnectFails /\ ~Crash /\ ~Closed /\ ~UNCHANGED vars
    BY <1>1 DEF Send, SendStateless, SendClient, SendServer, SendNothing, Begins, Close, ConnectFails,
       Crash, Closed, vars
  <2>6. Arrive
    BY <1>1, <2>5 DEF Next, Ended
  <2>7. simulated_time' \in {ClientArrival, ServerArrival, n}
    BY <2>2, <2>6 DEF Arrive, ArriveClient, ArriveServer, ArriveNothing, Incoming
  <2> QED
    BY <2>0, <2>1, <2>3, <2>4, <2>7
<1>2. ClockInv /\ [Next]_vars => ClockInv'
  BY ClockStep
<1>3. ClockInv /\ [Next]_vars =>
        (half = "arrive" /\ half' = "send" =>
           \A e \in End : Connected(e) =>
             simulated_time' <= simulated_time + 5000 \/ simulated_time' <= next_wake_time[e])
  BY <1>1
<1> QED
  BY <1>2, <1>3, ClockInit, PTL DEF Spec, NoOversleep

-----------------------------------------------------------------------------
(***************************************************************************)
(* Losses, of links without a bound of the queue.                          *)
(***************************************************************************)

LEMMA SubmitsCounted ==
  ASSUME c_to_s!TypeOK, s_to_c!TypeOK, PatternType,
         c_to_s_link.queue_delay_max = 0, s_to_c_link.queue_delay_max = 0,
         NEW p \in Packet, NEW t \in Nat,
         \/ SubmitToServer(p, t) /\ s_to_c_link' = s_to_c_link
         \/ SubmitToClient(p, t) /\ c_to_s_link' = c_to_s_link
  PROVE  /\ c_to_s_link'.queue_delay_max = 0 /\ s_to_c_link'.queue_delay_max = 0
         /\ attached' = attached
         /\ Taken \in Nat /\ Taken' = Taken + 1
         /\ attached = {} => c_to_s_link'.packets_dropped = c_to_s_link.packets_dropped
                               /\ s_to_c_link'.packets_dropped = s_to_c_link.packets_dropped
         /\ c_to_s_link.packets_dropped + s_to_c_link.packets_dropped \in Nat
         /\ attached = LinkName =>
              /\ loss_mask' = IF loss_mask = <<>> THEN loss_mask ELSE Append(Tail(loss_mask), Head(loss_mask))
              /\ c_to_s_link'.packets_dropped + s_to_c_link'.packets_dropped
                   = c_to_s_link.packets_dropped + s_to_c_link.packets_dropped
                       + IF loss_mask # <<>> /\ loss_mask[1] THEN 1 ELSE 0
<1>0. attached' = attached
  BY SubmittedType DEF SubmitToServer, SubmitToClient
<1>1. /\ c_to_s_link.packets_dropped \in Nat /\ c_to_s_link.packets_sent \in Nat
      /\ s_to_c_link.packets_dropped \in Nat /\ s_to_c_link.packets_sent \in Nat
  BY DEF c_to_s!TypeOK, c_to_s!Link, s_to_c!TypeOK, s_to_c!Link
<1>2. CASE SubmitToServer(p, t) /\ s_to_c_link' = s_to_c_link
  <2>1. /\ ToServer!TypeOK /\ ToServer!Submit(p, t)
        /\ attached = LinkName => Word("c_to_s") = loss_mask /\ Word("c_to_s")' = loss_mask'
        /\ attached = {} => Word("c_to_s") = <<>>
    BY <1>0, <1>2, ToServerSame DEF SubmitToServer, Word, LinkName
  <2> DEFINE d == IF ToServer!Lost THEN 1 ELSE 0
  <2>2. /\ c_to_s_link'.queue_delay_max = 0
        /\ Word("c_to_s")' = ToServer!Rotate(Word("c_to_s"))
        /\ c_to_s_link'.packets_dropped = c_to_s_link.packets_dropped + d
        /\ c_to_s_link'.packets_sent = c_to_s_link.packets_sent + (1 - d)
    BY <2>1, ToServerAssumed, ToServer!SubmitCounts
  <2>3. d \in {0, 1} /\ (d = 1 <=> ToServer!Lost)
    OBVIOUS
  <2> HIDE DEF d
  <2>4. /\ Taken \in Nat /\ Taken' = Taken + 1
        /\ c_to_s_link.packets_dropped + s_to_c_link.packets_dropped \in Nat
        /\ c_to_s_link'.packets_dropped + s_to_c_link'.packets_dropped
             = c_to_s_link.packets_dropped + s_to_c_link.packets_dropped + d
        /\ d = 0 => c_to_s_link'.packets_dropped = c_to_s_link.packets_dropped
                      /\ s_to_c_link'.packets_dropped = s_to_c_link.packets_dropped
    BY <1>1, <1>2, <2>2, <2>3 DEF Taken
  <2>5. d = IF Word("c_to_s") # <<>> /\ Word("c_to_s")[1] THEN 1 ELSE 0
    BY <2>3 DEF ToServer!Lost
  <2>6. attached = {} => d = 0
    BY <2>1, <2>5
  <2>7. attached = LinkName =>
          /\ d = IF loss_mask # <<>> /\ loss_mask[1] THEN 1 ELSE 0
          /\ loss_mask' = IF loss_mask = <<>> THEN loss_mask ELSE Append(Tail(loss_mask), Head(loss_mask))
    BY <2>1, <2>2, <2>5 DEF ToServer!Rotate
  <2> QED
    BY <1>0, <1>2, <2>2, <2>4, <2>6, <2>7
<1>3. CASE SubmitToClient(p, t) /\ c_to_s_link' = c_to_s_link
  <2>1. /\ ToClient!TypeOK /\ ToClient!Submit(p, t)
        /\ attached = LinkName => Word("s_to_c") = loss_mask /\ Word("s_to_c")' = loss_mask'
        /\ attached = {} => Word("s_to_c") = <<>>
    BY <1>0, <1>3, ToClientSame DEF SubmitToClient, Word, LinkName
  <2> DEFINE d == IF ToClient!Lost THEN 1 ELSE 0
  <2>2. /\ s_to_c_link'.queue_delay_max = 0
        /\ Word("s_to_c")' = ToClient!Rotate(Word("s_to_c"))
        /\ s_to_c_link'.packets_dropped = s_to_c_link.packets_dropped + d
        /\ s_to_c_link'.packets_sent = s_to_c_link.packets_sent + (1 - d)
    BY <2>1, ToClientAssumed, ToClient!SubmitCounts
  <2>3. d \in {0, 1} /\ (d = 1 <=> ToClient!Lost)
    OBVIOUS
  <2> HIDE DEF d
  <2>4. /\ Taken \in Nat /\ Taken' = Taken + 1
        /\ c_to_s_link.packets_dropped + s_to_c_link.packets_dropped \in Nat
        /\ c_to_s_link'.packets_dropped + s_to_c_link'.packets_dropped
             = c_to_s_link.packets_dropped + s_to_c_link.packets_dropped + d
        /\ d = 0 => c_to_s_link'.packets_dropped = c_to_s_link.packets_dropped
                      /\ s_to_c_link'.packets_dropped = s_to_c_link.packets_dropped
    BY <1>1, <1>3, <2>2, <2>3 DEF Taken
  <2>5. d = IF Word("s_to_c") # <<>> /\ Word("s_to_c")[1] THEN 1 ELSE 0
    BY <2>3 DEF ToClient!Lost
  <2>6. attached = {} => d = 0
    BY <2>1, <2>5
  <2>7. attached = LinkName =>
          /\ d = IF loss_mask # <<>> /\ loss_mask[1] THEN 1 ELSE 0
          /\ loss_mask' = IF loss_mask = <<>> THEN loss_mask ELSE Append(Tail(loss_mask), Head(loss_mask))
    BY <2>1, <2>2, <2>5 DEF ToClient!Rotate
  <2> QED
    BY <1>0, <1>3, <2>2, <2>4, <2>6, <2>7
<1> QED
  BY <1>2, <1>3

LEMMA DequeuesCounted ==
  ASSUME c_to_s!TypeOK, s_to_c!TypeOK, NEW t \in Nat,
         \/ c_to_s!Dequeue(t) /\ s_to_c_link' = s_to_c_link
         \/ s_to_c!Dequeue(t) /\ c_to_s_link' = c_to_s_link
  PROVE  /\ c_to_s_link'.queue_delay_max = c_to_s_link.queue_delay_max
         /\ s_to_c_link'.queue_delay_max = s_to_c_link.queue_delay_max
         /\ c_to_s_link'.packets_dropped = c_to_s_link.packets_dropped
         /\ s_to_c_link'.packets_dropped = s_to_c_link.packets_dropped
         /\ Taken' = Taken
<1>1. CASE c_to_s!Dequeue(t) /\ s_to_c_link' = s_to_c_link
  <2>1. ToServer!TypeOK /\ ToServer!Dequeue(t)
    BY <1>1, ToServerSame
  <2>2. /\ c_to_s_link'.queue_delay_max = c_to_s_link.queue_delay_max
        /\ c_to_s_link'.packets_dropped = c_to_s_link.packets_dropped
        /\ c_to_s_link'.packets_sent = c_to_s_link.packets_sent
    BY <2>1, ToServerAssumed, ToServer!DequeueCounts
  <2> QED
    BY <1>1, <2>2 DEF Taken
<1>2. CASE s_to_c!Dequeue(t) /\ c_to_s_link' = c_to_s_link
  <2>1. ToClient!TypeOK /\ ToClient!Dequeue(t)
    BY <1>2, ToClientSame
  <2>2. /\ s_to_c_link'.queue_delay_max = s_to_c_link.queue_delay_max
        /\ s_to_c_link'.packets_dropped = s_to_c_link.packets_dropped
        /\ s_to_c_link'.packets_sent = s_to_c_link.packets_sent
    BY <2>1, ToClientAssumed, ToClient!DequeueCounts
  <2> QED
    BY <1>2, <2>2 DEF Taken
<1> QED
  BY <1>1, <1>2

\* What a step does to the links, in the terms of losses.
LossStep ==
  \/ /\ half = "send" /\ pc' = pc
     /\ c_to_s_link'.queue_delay_max = 0 /\ s_to_c_link'.queue_delay_max = 0
     /\ attached' = attached
     /\ Taken \in Nat /\ Taken' = Taken + 1
     /\ attached = {} => c_to_s_link'.packets_dropped = c_to_s_link.packets_dropped
                           /\ s_to_c_link'.packets_dropped = s_to_c_link.packets_dropped
     /\ c_to_s_link.packets_dropped + s_to_c_link.packets_dropped \in Nat
     /\ attached = LinkName =>
          /\ loss_mask' = IF loss_mask = <<>> THEN loss_mask ELSE Append(Tail(loss_mask), Head(loss_mask))
          /\ c_to_s_link'.packets_dropped + s_to_c_link'.packets_dropped
               = c_to_s_link.packets_dropped + s_to_c_link.packets_dropped
                   + IF loss_mask # <<>> /\ loss_mask[1] THEN 1 ELSE 0
  \/ /\ c_to_s_link'.queue_delay_max = c_to_s_link.queue_delay_max
     /\ s_to_c_link'.queue_delay_max = s_to_c_link.queue_delay_max
     /\ c_to_s_link'.packets_dropped = c_to_s_link.packets_dropped
     /\ s_to_c_link'.packets_dropped = s_to_c_link.packets_dropped
     /\ Taken' = Taken
     /\ \/ pc' = pc /\ UNCHANGED <<loss_mask, attached>>
        \/ pc' = "close" /\ attached' = {}
        \/ pc' \in {"end", "crash"}

Unbounded == c_to_s_link.queue_delay_max = 0 /\ s_to_c_link.queue_delay_max = 0

\* Steps that leave the links alone.
LEMMA QuietLoses ==
  ASSUME UNCHANGED <<c_to_s_link, s_to_c_link>>,
         \/ pc' = pc /\ UNCHANGED <<loss_mask, attached>>
         \/ pc' = "close" /\ attached' = {}
         \/ pc' \in {"end", "crash"}
  PROVE  LossStep
BY DEF LossStep, Taken

LEMMA StepLoses ==
  ASSUME ClockInv, Unbounded, [Next]_vars
  PROVE  LossStep /\ pattern' = pattern
<1>0. simulated_time \in Nat /\ c_to_s!TypeOK /\ s_to_c!TypeOK /\ PatternType
  BY DEF ClockInv
<1>1. ASSUME half = "send", UNCHANGED <<pc, pattern>>, NEW t \in Nat, NEW p \in Packet,
             \/ SubmitToServer(p, t) /\ s_to_c_link' = s_to_c_link
             \/ SubmitToClient(p, t) /\ c_to_s_link' = c_to_s_link
      PROVE  LossStep /\ pattern' = pattern
  BY <1>0, <1>1, SubmitsCounted DEF LossStep, Unbounded
<1>2. CASE SendStateless
  <2>1. half = "send" /\ UNCHANGED <<pc, pattern, c_to_s_link>>
    BY <1>2 DEF SendStateless, Begins
  <2>2. PICK t \in Nat : t = simulated_time + 100000
    BY <1>0
  <2>3. PICK p \in Packet : SubmitToClient(p, t)
    BY <1>2, <2>2 DEF SendStateless
  <2> QED
    BY <1>1, <2>1, <2>3
<1>3. CASE SendClient
  <2>1. half = "send" /\ UNCHANGED <<pc, pattern, s_to_c_link>>
    BY <1>3 DEF SendClient, Begins
  <2>2. PICK p \in Packet : SubmitToServer(p, simulated_time)
    BY <1>3 DEF SendClient
  <2> QED
    BY <1>0, <1>1, <2>1, <2>2
<1>4. CASE SendServer
  <2>1. half = "send" /\ UNCHANGED <<pc, pattern, c_to_s_link>>
    BY <1>4 DEF SendServer, Begins
  <2>2. PICK p \in Packet : SubmitToClient(p, simulated_time)
    BY <1>4 DEF SendServer
  <2> QED
    BY <1>0, <1>1, <2>1, <2>2
<1>5. ClientArrival \in Nat /\ ServerArrival \in Nat
  BY <1>0, NextTimeType, ToClientArrival, ToServerArrival DEF ClientArrival, ServerArrival, ClockInv, LinksOrdered
<1>6. CASE ArriveClient
  <2>1. UNCHANGED <<pc, pattern, c_to_s_link, loss_mask, attached>> /\ s_to_c!Dequeue(ClientArrival)
    BY <1>6 DEF ArriveClient, Incoming
  <2> QED
    BY <1>0, <1>5, <2>1, DequeuesCounted DEF LossStep
<1>7. CASE ArriveServer
  <2>1. UNCHANGED <<pc, pattern, s_to_c_link, loss_mask, attached>> /\ c_to_s!Dequeue(ServerArrival)
    BY <1>7 DEF ArriveServer, Incoming
  <2> QED
    BY <1>0, <1>5, <2>1, DequeuesCounted DEF LossStep
<1>8. CASE SendNothing
  BY <1>8, QuietLoses DEF SendNothing, links
<1>9. CASE ArriveNothing
  BY <1>9, QuietLoses DEF ArriveNothing, links
<1>10. CASE Close
  <2>1. attached \ Detached = {}
    BY <1>0 DEF Detached, PatternType
  <2> QED
    BY <1>10, <2>1, QuietLoses DEF Close
<1>11. CASE ConnectFails \/ Crash \/ Closed
  BY <1>11, QuietLoses DEF ConnectFails, Crash, Closed, links
<1>12. CASE UNCHANGED vars
  BY <1>12, QuietLoses DEF vars, links
<1> QED
  BY <1>2, <1>3, <1>4, <1>6, <1>7, <1>8, <1>9, <1>10, <1>11, <1>12 DEF Next, Send, Arrive, Ended

CloseInv == Unbounded /\ (pc = "close" => attached = {})

LEMMA CloseInit == DelayMax = 0 /\ Init => CloseInv
BY DEF Init, CloseInv, Unbounded, c_to_s!NewLink, s_to_c!NewLink

LEMMA CloseStep ==
  ASSUME ClockInv, CloseInv, [Next]_vars
  PROVE  /\ CloseInv'
         /\ pc = "close" => c_to_s_link'.packets_dropped = c_to_s_link.packets_dropped
                              /\ s_to_c_link'.packets_dropped = s_to_c_link.packets_dropped
<1>1. LossStep
  BY StepLoses DEF CloseInv
<1> QED
  BY <1>1 DEF CloseInv, Unbounded, LossStep

\* From the call of picoquic_close on nothing is lost on either link, whatever
\* the pattern was and however far the two have rotated it: both are detached.
THEOREM ClosesWithoutLoss == DelayMax = 0 => (Spec => CloseLossless)
<1> SUFFICES ASSUME DelayMax = 0 PROVE Spec => CloseLossless
  OBVIOUS
<1>1. Init => CloseInv
  BY CloseInit
<1>2. ClockInv /\ CloseInv /\ [Next]_vars => ClockInv' /\ CloseInv'
  BY ClockStep, CloseStep
<1>3. ClockInv /\ CloseInv /\ [Next]_vars =>
        (pc = "close" => c_to_s_link'.packets_dropped = c_to_s_link.packets_dropped
                           /\ s_to_c_link'.packets_dropped = s_to_c_link.packets_dropped)
  BY CloseStep
<1> QED
  BY <1>1, <1>2, <1>3, ClockInit, PTL DEF Spec, CloseLossless

-----------------------------------------------------------------------------
(***************************************************************************)
(* One pattern for both links.                                             *)
(***************************************************************************)

\* The pattern as it is after n packets.
Rotated(n) == [k \in DOMAIN pattern |-> FromPattern(n + k - 1)]

LEMMA RotatedOnce ==
  ASSUME pattern \in Seq(BOOLEAN), NEW n \in Nat
  PROVE  /\ Rotated(n) = <<>> <=> pattern = <<>>
         /\ pattern # <<>> => /\ Rotated(n)[1] = FromPattern(n)
                              /\ Append(Tail(Rotated(n)), Head(Rotated(n))) = Rotated(n + 1)
<1>1. \A j \in Nat : Rotated(j) = ToServer!Rotated(pattern, j)
  BY DEF Rotated, FromPattern, ToServer!Rotated
<1>2. /\ ToServer!Rotated(pattern, n) = <<>> <=> pattern = <<>>
      /\ pattern # <<>> => ToServer!Rotated(pattern, n)[1] = pattern[(n % Len(pattern)) + 1]
      /\ ToServer!Rotate(ToServer!Rotated(pattern, n)) = ToServer!Rotated(pattern, n + 1)
  BY ToServerAssumed, ToServer!RotatedOnce
<1>3. CASE pattern # <<>>
  <2> DEFINE m == Rotated(n)
             r == Rotated(n + 1)
  <2>1. ToServer!Rotate(m) = r /\ m # <<>> /\ m[1] = FromPattern(n)
    <3>1. n + 1 \in Nat
      OBVIOUS
    <3> QED
      BY <1>1, <1>2, <1>3, <3>1 DEF FromPattern
  <2> HIDE DEF m, r
  <2>2. Append(Tail(m), Head(m)) = r
    BY <2>1 DEF ToServer!Rotate
  <2> QED
    BY <1>1, <1>2, <1>3, <2>1, <2>2 DEF m, r
<1> QED
  BY <1>1, <1>2, <1>3

NamedBefore(n) == {k \in 0 .. n - 1 : FromPattern(k)}

LEMMA NamedGrows ==
  ASSUME NEW n \in Nat
  PROVE  /\ Cardinality(NamedBefore(n)) \in Nat
         /\ Cardinality(NamedBefore(n + 1)) = Cardinality(NamedBefore(n)) + IF FromPattern(n) THEN 1 ELSE 0
<1>1. IsFiniteSet(0 .. n - 1)
  BY FS_Interval
<1>2. IsFiniteSet(NamedBefore(n)) /\ Cardinality(NamedBefore(n)) \in Nat
  BY <1>1, FS_Subset, FS_CardinalityType DEF NamedBefore
<1>3. CASE FromPattern(n)
  <2>1. NamedBefore(n + 1) = NamedBefore(n) \cup {n} /\ n \notin NamedBefore(n)
    BY <1>3 DEF NamedBefore
  <2> QED
    BY <1>2, <1>3, <2>1, FS_AddElement
<1>4. CASE ~FromPattern(n)
  <2>1. NamedBefore(n + 1) = NamedBefore(n)
    BY <1>4 DEF NamedBefore
  <2> QED
    BY <1>2, <1>4, <2>1
<1> QED
  BY <1>3, <1>4

PatternInv ==
  /\ Unbounded
  /\ pattern \in Seq(BOOLEAN)
  /\ Taken \in Nat
  /\ pc = "connect" =>
       /\ c_to_s_link.packets_dropped + s_to_c_link.packets_dropped = Cardinality(NamedBefore(Taken))
       /\ loss_mask = Rotated(Taken) /\ attached = LinkName

LEMMA PatternInit == DelayMax = 0 /\ Init => PatternInv
<1> SUFFICES ASSUME DelayMax = 0, Init PROVE PatternInv
  OBVIOUS
<1>1. Unbounded /\ Taken = 0 /\ c_to_s_link.packets_dropped + s_to_c_link.packets_dropped = 0
  BY DEF Init, Unbounded, Taken, c_to_s!NewLink, s_to_c!NewLink
<1>2. pattern \in Seq(BOOLEAN) /\ loss_mask = pattern
  BY RoundAssumption DEF Init
<1>3. NamedBefore(0) = {}
  BY DEF NamedBefore
<1>4. pattern = Rotated(0)
  BY <1>2, ToServerAssumed, ToServer!RotatedNone DEF Rotated, FromPattern, ToServer!Rotated
<1> QED
  BY <1>1, <1>2, <1>3, <1>4, FS_EmptySet DEF PatternInv, Init

LEMMA PatternStep == ClockInv /\ PatternInv /\ [Next]_vars => PatternInv'
<1> SUFFICES ASSUME ClockInv, PatternInv, [Next]_vars PROVE PatternInv'
  OBVIOUS
<1>1. LossStep /\ pattern' = pattern
  BY StepLoses DEF PatternInv
<1>2. Unbounded' /\ pattern' \in Seq(BOOLEAN) /\ Taken' \in Nat
  BY <1>1 DEF PatternInv, Unbounded, LossStep
<1>3. \A n \in Nat : (Rotated(n))' = Rotated(n) /\ (NamedBefore(n))' = NamedBefore(n)
  BY <1>1 DEF Rotated, NamedBefore, FromPattern
<1>4. ASSUME pc = "connect", pc' = "connect" PROVE PatternInv'
  <2>1. /\ c_to_s_link.packets_dropped + s_to_c_link.packets_dropped = Cardinality(NamedBefore(Taken))
        /\ loss_mask = Rotated(Taken) /\ attached = LinkName /\ Taken \in Nat /\ pattern \in Seq(BOOLEAN)
    BY <1>4 DEF PatternInv
  <2>2. CASE Taken' = Taken + 1
    <3>1. /\ attached' = attached
          /\ loss_mask' = IF loss_mask = <<>> THEN loss_mask ELSE Append(Tail(loss_mask), Head(loss_mask))
          /\ c_to_s_link'.packets_dropped + s_to_c_link'.packets_dropped
               = c_to_s_link.packets_dropped + s_to_c_link.packets_dropped
                   + IF loss_mask # <<>> /\ loss_mask[1] THEN 1 ELSE 0
      BY <1>1, <2>1, <2>2 DEF LossStep
    <3>2. loss_mask # <<>> /\ loss_mask[1] <=> FromPattern(Taken)
      BY <2>1, RotatedOnce DEF FromPattern
    <3>3. loss_mask' = Rotated(Taken + 1)
      <4>1. CASE pattern = <<>>
        BY <2>1, <3>1, <4>1, RotatedOnce DEF Rotated
      <4>2. CASE pattern # <<>>
        BY <2>1, <3>1, <4>2, RotatedOnce
      <4> QED
        BY <4>1, <4>2
    <3>4. c_to_s_link'.packets_dropped + s_to_c_link'.packets_dropped = Cardinality(NamedBefore(Taken + 1))
      BY <2>1, <3>1, <3>2, NamedGrows
    <3> QED
      BY <1>2, <1>3, <2>1, <2>2, <3>1, <3>3, <3>4 DEF PatternInv
  <2>3. CASE Taken' # Taken + 1
    <3>1. /\ loss_mask' = loss_mask /\ attached' = attached /\ Taken' = Taken
          /\ c_to_s_link'.packets_dropped = c_to_s_link.packets_dropped
          /\ s_to_c_link'.packets_dropped = s_to_c_link.packets_dropped
      BY <1>1, <1>4, <2>3 DEF LossStep
    <3> QED
      BY <1>2, <1>3, <2>1, <3>1 DEF PatternInv
  <2> QED
    BY <2>2, <2>3
<1>5. CASE pc' # "connect"
  BY <1>2, <1>5 DEF PatternInv
<1>6. pc' = "connect" => pc = "connect"
  BY <1>1 DEF LossStep
<1> QED
  BY <1>4, <1>5, <1>6

\* Both links lose what one pattern names, in the order of sending on either,
\* for patterns of any length and any number of packets.
THEOREM PatternIsShared == DelayMax = 0 => (Spec => []PatternShared)
<1> SUFFICES ASSUME DelayMax = 0 PROVE Spec => []PatternShared
  OBVIOUS
<1>1. Init => PatternInv
  BY PatternInit
<1>2. ClockInv /\ [Next]_vars => ClockInv'
  BY ClockStep
<1>3. PatternInv => PatternShared
  BY DEF PatternInv, PatternShared, NamedBefore, Rotated
<1> QED
  BY <1>1, <1>2, <1>3, ClockInit, PatternStep, PTL DEF Spec
-----------------------------------------------------------------------------
(***************************************************************************)
(* Giving up for inactivity.                                               *)
(***************************************************************************)

\* M: the longest time a packet takes to transmit.  A row of InactiveLimit rounds
\* of 10 ms is longer than the queue that TrialLimit packets can make on a link,
\* the latency, and the 100 ms a stateless packet sets the clock ahead: in the
\* code 5.12 s, against 1024 packets of less than 1.3 ms (1536 bytes at 10
\* Mbit/s), 10 ms and 100 ms.
SilenceOutlasts(M) ==
  /\ \A p \in Packet : (Rate * p) \div 1048576 <= M
  /\ 10000 * InactiveLimit > 100000 + Latency + TrialLimit * M

LongSilence == \E M \in Nat \ {0} : SilenceOutlasts(M)

Slowest == CHOOSE M \in Nat \ {0} : SilenceOutlasts(M)

LEMMA SlowestType == LongSilence => Slowest \in Nat \ {0} /\ SilenceOutlasts(Slowest)
BY DEF LongSilence, Slowest

Both == {c_to_s_link, s_to_c_link}

\* The transmission of the packets of the rounds so far.
Backlog == nb_trials * Slowest

\* The clock may be ahead of a packet by the 100 ms of a stateless packet, and
\* falls back when that packet is taken, but not in a row of inactive rounds; a
\* link's queue is ahead of the clock, and of any packet the clock may fall back
\* to, by no more than the backlog.
QuietInv ==
  pc = "connect" =>
    /\ stateless \in {0, 1} /\ (half = "arrive" => stateless = 0)
    /\ \A l \in Both : l.picosec_per_byte = Rate /\ l.microsec_latency = Latency
    /\ \A m \in Both : \A k \in DOMAIN m.packets :
         /\ RoundTime <= m.packets[k].arrival_time + 100000
         /\ stateless > 0 \/ nb_inactive > 0 => RoundTime <= m.packets[k].arrival_time
         /\ \A l \in Both : l.queue_time <= m.packets[k].arrival_time + 100000 + Backlog
    /\ \A l \in Both : l.queue_time + 10000 * nb_inactive <= RoundTime + 100000 + Backlog

LEMMA ToServerTime ==
  ASSUME LongSilence, c_to_s!TypeOK, NEW p \in Packet, NEW t \in Nat, c_to_s!Submit(p, t),
         c_to_s_link.picosec_per_byte = Rate
  PROVE  /\ c_to_s_link'.picosec_per_byte = Rate
         /\ c_to_s_link'.microsec_latency = c_to_s_link.microsec_latency
         /\ \/ c_to_s_link'.queue_time <= c_to_s_link.queue_time + Slowest
            \/ c_to_s_link'.queue_time <= t + Slowest
<1>1. ToServer!TypeOK /\ ToServer!Submit(p, t) /\ c_to_s_link.queue_time \in Nat
  BY ToServerSame DEF c_to_s!TypeOK, c_to_s!Link
<1> DEFINE d == ToServer!TransmitTime(p)
<1>2. d \in Nat \ {0}
  BY <1>1, ToServerAssumed, ToServer!TransmitPositive
<1>3. /\ c_to_s_link'.picosec_per_byte = Rate
      /\ c_to_s_link'.microsec_latency = c_to_s_link.microsec_latency
      /\ \/ c_to_s_link'.queue_time = c_to_s_link.queue_time
         \/ c_to_s_link'.queue_time = c_to_s_link.queue_time + d
         \/ c_to_s_link'.queue_time = t + d
  BY <1>1, ToServerAssumed, ToServer!SubmitTime
<1>4. Slowest \in Nat \ {0} /\ (Rate * p) \div 1048576 <= Slowest
  BY SlowestType DEF SilenceOutlasts
<1>5. d <= Slowest
  <2> DEFINE n == (Rate * p) \div 1048576
  <2>1. d = IF n = 0 THEN 1 ELSE n
    BY DEF ToServer!TransmitTime
  <2> HIDE DEF n, d
  <2>2. n <= Slowest
    BY <1>4 DEF n
  <2> QED
    BY <1>2, <1>4, <2>1, <2>2
<1> HIDE DEF d
<1> QED
  BY <1>1, <1>2, <1>3, <1>4, <1>5

LEMMA ToClientTime ==
  ASSUME LongSilence, s_to_c!TypeOK, NEW p \in Packet, NEW t \in Nat, s_to_c!Submit(p, t),
         s_to_c_link.picosec_per_byte = Rate
  PROVE  /\ s_to_c_link'.picosec_per_byte = Rate
         /\ s_to_c_link'.microsec_latency = s_to_c_link.microsec_latency
         /\ \/ s_to_c_link'.queue_time <= s_to_c_link.queue_time + Slowest
            \/ s_to_c_link'.queue_time <= t + Slowest
<1>1. ToClient!TypeOK /\ ToClient!Submit(p, t) /\ s_to_c_link.queue_time \in Nat
  BY ToClientSame DEF s_to_c!TypeOK, s_to_c!Link
<1> DEFINE d == ToClient!TransmitTime(p)
<1>2. d \in Nat \ {0}
  BY <1>1, ToClientAssumed, ToClient!TransmitPositive
<1>3. /\ s_to_c_link'.picosec_per_byte = Rate
      /\ s_to_c_link'.microsec_latency = s_to_c_link.microsec_latency
      /\ \/ s_to_c_link'.queue_time = s_to_c_link.queue_time
         \/ s_to_c_link'.queue_time = s_to_c_link.queue_time + d
         \/ s_to_c_link'.queue_time = t + d
  BY <1>1, ToClientAssumed, ToClient!SubmitTime
<1>4. Slowest \in Nat \ {0} /\ (Rate * p) \div 1048576 <= Slowest
  BY SlowestType DEF SilenceOutlasts
<1>5. d <= Slowest
  <2> DEFINE n == (Rate * p) \div 1048576
  <2>1. d = IF n = 0 THEN 1 ELSE n
    BY DEF ToClient!TransmitTime
  <2> HIDE DEF n, d
  <2>2. n <= Slowest
    BY <1>4 DEF n
  <2> QED
    BY <1>2, <1>4, <2>1, <2>2
<1> HIDE DEF d
<1> QED
  BY <1>1, <1>2, <1>3, <1>4, <1>5

LEMMA QueueTimes ==
  ASSUME c_to_s!TypeOK, s_to_c!TypeOK, NEW l \in Both
  PROVE  l.queue_time \in Nat
BY DEF Both, c_to_s!TypeOK, c_to_s!Link, s_to_c!TypeOK, s_to_c!Link

LEMMA QueueTimesNext ==
  ASSUME c_to_s!TypeOK', s_to_c!TypeOK', NEW l \in Both'
  PROVE  l.queue_time \in Nat
BY DEF Both, c_to_s!TypeOK, c_to_s!Link, s_to_c!TypeOK, s_to_c!Link

\* A round is one more trial.
LEMMA BacklogGrows ==
  ASSUME LongSilence, LoopInv
  PROVE  /\ Backlog \in Nat
         /\ nb_trials' = nb_trials => Backlog' = Backlog
         /\ nb_trials' = nb_trials + 1 => Backlog' = Backlog + Slowest
         /\ Backlog <= TrialLimit * Slowest
<1>1. Slowest \in Nat /\ nb_trials \in Nat /\ TrialLimit \in Nat /\ nb_trials <= TrialLimit
  BY SlowestType, RoundAssumption DEF LoopInv
<1>2. \A n, s \in Nat : n * s \in Nat /\ (n + 1) * s = n * s + s
  OBVIOUS
<1>3. PICK d \in Nat : TrialLimit = nb_trials + d
  <2>1. TrialLimit - nb_trials \in Nat /\ TrialLimit = nb_trials + (TrialLimit - nb_trials)
    BY <1>1
  <2> QED
    BY <2>1
<1>4. TrialLimit * Slowest = nb_trials * Slowest + d * Slowest
  BY <1>1, <1>3
<1>5. nb_trials * Slowest \in Nat /\ d * Slowest \in Nat
  BY <1>1, <1>2
<1>6. nb_trials' = nb_trials => Backlog' = Backlog
  BY DEF Backlog
<1>7. nb_trials' = nb_trials + 1 => Backlog' = Backlog + Slowest
  BY <1>1, <1>2 DEF Backlog
<1> QED
  BY <1>4, <1>5, <1>6, <1>7 DEF Backlog

\* An endpoint sends at time t: link l becomes l2, o is the other one.
SendsAt(t) ==
  /\ pc = "connect" /\ half = "send" /\ half' = "send"
  /\ simulated_time' = t /\ simulated_time <= t
  /\ \A m \in Both : \A k \in DOMAIN m.packets : t <= m.packets[k].arrival_time + 100000
  /\ nb_inactive' = 0 /\ nb_trials' = nb_trials + 1 /\ stateless' = 0
SendsOn(l, l2, o, t) ==
  /\ Both = {l, o} /\ Both' = {l2, o}
  /\ l2.picosec_per_byte = Rate /\ l2.microsec_latency = l.microsec_latency
  /\ l2.queue_time <= l.queue_time + Slowest \/ l2.queue_time <= t + Slowest
  /\ \A k \in DOMAIN l2.packets :
       \/ l2.packets[k].arrival_time \in Nat /\ l2.packets[k].arrival_time > t
       \/ k \in DOMAIN l.packets /\ l2.packets[k] = l.packets[k]

LEMMA SendQuiet ==
  ASSUME LongSilence, ClockInv, LoopInv, ClockInv', LoopInv', QuietInv,
         NEW t \in Nat, SendsAt(t), NEW l, NEW l2, NEW o, SendsOn(l, l2, o, t)
  PROVE  QuietInv'
<1> USE DEF SendsAt, SendsOn
<1>1. l.queue_time \in Nat /\ l2.queue_time \in Nat /\ o.queue_time \in Nat
  BY QueueTimes, QueueTimesNext DEF ClockInv
<1>2. \A m \in Both : \A k \in DOMAIN m.packets : m.packets[k].arrival_time \in Nat
  BY Times DEF ClockInv, Both
<1>3. \A m \in Both' : \A k \in DOMAIN m.packets :
        m.packets[k].arrival_time \in Nat
        /\ (m.packets[k].arrival_time >= t
            \/ \E n \in Both : \E j \in DOMAIN n.packets : m.packets[k].arrival_time = n.packets[j].arrival_time)
  BY <1>2
<1>4. /\ Backlog \in Nat /\ Backlog' = Backlog + Slowest /\ Slowest \in Nat
      /\ nb_inactive \in Nat /\ simulated_time \in Nat /\ RoundTime = simulated_time /\ RoundTime' = t
  BY BacklogGrows, SlowestType, RoundAssumption DEF LoopInv, ClockInv, RoundTime
<1>5. \A m \in Both : m.queue_time + 10000 * nb_inactive <= simulated_time + 100000 + Backlog
  BY <1>4 DEF QuietInv
<1>6. \A m \in Both : m.queue_time \in Nat /\ m.queue_time <= t + 100000 + Backlog
  BY <1>1, <1>4, <1>5
<1>7. \A m \in Both' : m.queue_time \in Nat /\ m.queue_time + 10000 * 0 <= t + 100000 + Backlog'
  BY <1>1, <1>4, <1>6
<1>8. \A n \in Both : \A j \in DOMAIN n.packets : \A m \in Both' :
        m.queue_time <= n.packets[j].arrival_time + 100000 + Backlog'
  <2> TAKE n \in Both
  <2> TAKE j \in DOMAIN n.packets
  <2> TAKE m \in Both'
  <2>1. /\ n.packets[j].arrival_time \in Nat /\ t <= n.packets[j].arrival_time + 100000
        /\ l.queue_time <= n.packets[j].arrival_time + 100000 + Backlog
        /\ o.queue_time <= n.packets[j].arrival_time + 100000 + Backlog
    BY <1>2 DEF QuietInv
  <2> QED
    BY <1>1, <1>4, <2>1
<1>9. \A m \in Both' : \A k \in DOMAIN m.packets :
        /\ t <= m.packets[k].arrival_time + 100000
        /\ \A n \in Both' : n.queue_time <= m.packets[k].arrival_time + 100000 + Backlog'
  BY <1>3, <1>4, <1>7, <1>8
<1>10. \A m \in Both' : m.picosec_per_byte = Rate /\ m.microsec_latency = Latency
  BY DEF QuietInv
<1> QED
  BY <1>4, <1>7, <1>9, <1>10 DEF QuietInv

\* The second half of a round: the clock goes to t, the links keep some of their
\* packets.
ArrivesAt(t) ==
  /\ pc = "connect" /\ half = "arrive" /\ half' = "send"
  /\ simulated_time' = t
  /\ \A m \in Both : \A k \in DOMAIN m.packets : t <= m.packets[k].arrival_time
  /\ nb_trials' = nb_trials /\ stateless' \in {0, 1}
  /\ \/ /\ nb_inactive' = 0
        /\ \E m \in Both : \E k \in DOMAIN m.packets : t = m.packets[k].arrival_time
     \/ nb_inactive' = nb_inactive + 1 /\ t >= RoundTime + 10000
LinksKept ==
  \A m \in Both' : \E n \in Both :
    /\ m.picosec_per_byte = n.picosec_per_byte /\ m.microsec_latency = n.microsec_latency
    /\ m.queue_time = n.queue_time
    /\ \A k \in DOMAIN m.packets : \E j \in DOMAIN n.packets : m.packets[k] = n.packets[j]

LEMMA ArriveQuiet ==
  ASSUME LongSilence, ClockInv, LoopInv, ClockInv', LoopInv', QuietInv,
         NEW t \in Nat, ArrivesAt(t), LinksKept
  PROVE  QuietInv'
<1> USE DEF ArrivesAt, LinksKept
<1>1. \A m \in Both : m.queue_time \in Nat /\ \A k \in DOMAIN m.packets : m.packets[k].arrival_time \in Nat
  BY Times, QueueTimes DEF ClockInv, Both
<1>2. /\ Backlog \in Nat /\ Backlog' = Backlog
      /\ nb_inactive \in Nat /\ simulated_time \in Nat /\ RoundTime \in Int /\ RoundTime' = t
  BY BacklogGrows, RoundAssumption DEF LoopInv, ClockInv, RoundTime
<1>3. \A l \in Both : l.queue_time + 10000 * nb_inactive <= RoundTime + 100000 + Backlog
  BY DEF QuietInv
<1>4. \A l, m \in Both : \A k \in DOMAIN m.packets : l.queue_time <= m.packets[k].arrival_time + 100000 + Backlog
  BY DEF QuietInv
<1>5. \A l \in Both : l.queue_time + 10000 * nb_inactive' <= t + 100000 + Backlog
  <2>1. CASE nb_inactive' = 0 /\ \E m \in Both : \E k \in DOMAIN m.packets : t = m.packets[k].arrival_time
    BY <1>1, <1>4, <2>1
  <2>2. CASE nb_inactive' = nb_inactive + 1 /\ t >= RoundTime + 10000
    BY <1>1, <1>2, <1>3, <2>2
  <2> QED
    BY <2>1, <2>2
<1>6. \A m \in Both' : \A k \in DOMAIN m.packets :
        /\ t <= m.packets[k].arrival_time /\ m.packets[k].arrival_time \in Nat
        /\ \A l \in Both' : l.queue_time <= m.packets[k].arrival_time + 100000 + Backlog
  <2> TAKE m \in Both'
  <2>1. PICK n \in Both : \A k \in DOMAIN m.packets : \E j \in DOMAIN n.packets : m.packets[k] = n.packets[j]
    OBVIOUS
  <2>2. \A l \in Both' : \E h \in Both : l.queue_time = h.queue_time
    OBVIOUS
  <2> QED
    BY <1>1, <1>4, <2>1, <2>2
<1>7. \A m \in Both' : m.picosec_per_byte = Rate /\ m.microsec_latency = Latency
  BY DEF QuietInv
<1>8. \A l \in Both' : l.queue_time + 10000 * nb_inactive' <= t + 100000 + Backlog
  BY <1>5
<1>9. half' # "arrive"
  OBVIOUS
<1> QED
  BY <1>2, <1>6, <1>7, <1>8, <1>9 DEF QuietInv

\* The first step keeps the links and the clock between the rounds.
LEMMA IdleQuiet ==
  ASSUME LongSilence, ClockInv, LoopInv, QuietInv, pc = "connect",
         UNCHANGED <<c_to_s_link, s_to_c_link, nb_inactive, stateless>>, RoundTime' = RoundTime,
         nb_trials' \in {nb_trials, nb_trials + 1}, half' = "arrive" => stateless = 0
  PROVE  QuietInv'
<1>1. \A m \in Both : m.queue_time \in Nat /\ \A k \in DOMAIN m.packets : m.packets[k].arrival_time \in Nat
  BY Times, QueueTimes DEF ClockInv, Both
<1>2. Backlog \in Nat /\ Backlog' \in Nat /\ Backlog <= Backlog' /\ RoundTime \in Int /\ nb_inactive \in Nat
  BY BacklogGrows, SlowestType, RoundAssumption DEF LoopInv, ClockInv, RoundTime
<1>3. Both' = Both
  BY DEF Both
<1>4. \A l \in Both : l.queue_time + 10000 * nb_inactive <= RoundTime + 100000 + Backlog'
  BY <1>1, <1>2 DEF QuietInv
<1>5. \A l, m \in Both : \A k \in DOMAIN m.packets :
        l.queue_time <= m.packets[k].arrival_time + 100000 + Backlog'
  BY <1>1, <1>2 DEF QuietInv
<1> QED
  BY <1>3, <1>4, <1>5 DEF QuietInv

LEMMA QuietInit == LongSilence /\ Init => QuietInv
<1> SUFFICES ASSUME LongSilence, Init PROVE QuietInv
  OBVIOUS
<1>1. \A l \in Both : l.picosec_per_byte = Rate /\ l.microsec_latency = Latency
        /\ l.packets = <<>> /\ l.queue_time = 0
  BY DEF Init, Both, c_to_s!NewLink, s_to_c!NewLink
<1>2. RoundTime = 0 /\ Backlog = 0 * Slowest /\ nb_inactive = 0
  BY DEF Init, RoundTime, Backlog
<1>3. stateless = 0 /\ half = "send" /\ Backlog \in {0}
  BY <1>2, SlowestType DEF Init
<1>4. \A l \in Both : DOMAIN l.packets = {}
  BY <1>1
<1> QED
  BY <1>1, <1>2, <1>3, <1>4 DEF QuietInv

\* The connection loop is not entered again.
LEMMA ConnectsOnce == [Next]_vars /\ pc' = "connect" => pc = "connect"
<1> SUFFICES ASSUME [Next]_vars, pc' = "connect" PROVE pc = "connect"
  OBVIOUS
<1>1. CASE Send
  <2>1. CASE SendStateless
    BY <2>1 DEF SendStateless
  <2>2. CASE SendClient
    BY <2>2 DEF SendClient
  <2>3. CASE SendServer
    BY <2>3 DEF SendServer
  <2>4. CASE SendNothing
    BY <2>4 DEF SendNothing
  <2> QED
    BY <1>1, <2>1, <2>2, <2>3, <2>4 DEF Send
<1>2. CASE Arrive
  <2>1. CASE ArriveClient
    BY <2>1 DEF ArriveClient, Incoming
  <2>2. CASE ArriveServer
    BY <2>2 DEF ArriveServer, Incoming
  <2>3. CASE ArriveNothing
    BY <2>3 DEF ArriveNothing
  <2> QED
    BY <1>2, <2>1, <2>2, <2>3 DEF Arrive
<1>3. CASE Close \/ ConnectFails \/ Crash \/ Closed
  BY <1>3 DEF Close, ConnectFails, Crash, Closed
<1>4. CASE UNCHANGED vars
  BY <1>4 DEF vars
<1> QED
  BY <1>1, <1>2, <1>3, <1>4 DEF Next, Ended

LEMMA QuietStep ==
  ASSUME LongSilence, ClockInv, LoopInv, QuietInv, [Next]_vars
  PROVE  QuietInv'
<1>0. /\ ClockInv' /\ LoopInv'
      /\ simulated_time \in Nat /\ c_to_s!TypeOK /\ s_to_c!TypeOK
      /\ c_to_s!ArrivalsOrdered /\ s_to_c!ArrivalsOrdered
      /\ Both = {c_to_s_link, s_to_c_link} /\ Both' = {c_to_s_link', s_to_c_link'}
  BY ClockStep, LoopStep DEF ClockInv, LinksOrdered, Both
<1>1. CASE pc' # "connect"
  BY <1>1 DEF QuietInv
<1> SUFFICES ASSUME pc' = "connect" PROVE QuietInv'
  BY <1>1
<1>2. /\ stateless \in {0, 1} /\ (half = "arrive" => stateless = 0)
      /\ \A l \in Both : l.picosec_per_byte = Rate
      /\ \A m \in Both : \A k \in DOMAIN m.packets :
           /\ m.packets[k].arrival_time \in Nat
           /\ RoundTime <= m.packets[k].arrival_time + 100000
           /\ stateless > 0 => RoundTime <= m.packets[k].arrival_time
      /\ pc = "connect"
  <2>1. pc = "connect"
    BY ConnectsOnce
  <2>2. \A m \in Both : \A k \in DOMAIN m.packets : m.packets[k].arrival_time \in Nat
    BY <1>0, Times
  <2> QED
    BY <2>1, <2>2 DEF QuietInv
<1>3. ASSUME Begins PROVE half = "send" /\ nb_trials' = nb_trials + 1 /\ RoundTime = simulated_time
  BY <1>2, <1>3 DEF Begins, Closing, RoundTime
<1>4. CASE SendStateless
  <2>1. /\ half = "send" /\ half' = "send" /\ simulated_time' = simulated_time + 100000 /\ nb_inactive' = 0
        /\ c_to_s_link' = c_to_s_link /\ stateless' = 0 /\ stateless > 0 /\ nb_trials' = nb_trials + 1
        /\ RoundTime = simulated_time
    BY <1>2, <1>3, <1>4 DEF SendStateless, Active
  <2>2. PICK t \in Nat : t = simulated_time + 100000
    BY <1>0
  <2>3. PICK p \in Packet : s_to_c!Submit(p, t)
    BY <1>4, <2>2 DEF SendStateless, SubmitToClient
  <2>4. \A k \in DOMAIN s_to_c_link'.packets :
          \/ s_to_c_link'.packets[k].arrival_time \in Nat /\ s_to_c_link'.packets[k].arrival_time > t
          \/ k \in DOMAIN s_to_c_link.packets /\ s_to_c_link'.packets[k] = s_to_c_link.packets[k]
    BY <1>0, <2>3, ToClientSubmit
  <2>5. /\ s_to_c_link'.picosec_per_byte = Rate
        /\ s_to_c_link'.microsec_latency = s_to_c_link.microsec_latency
        /\ \/ s_to_c_link'.queue_time <= s_to_c_link.queue_time + Slowest
           \/ s_to_c_link'.queue_time <= t + Slowest
    BY <1>0, <1>2, <2>3, ToClientTime
  <2>6. /\ simulated_time <= t /\ simulated_time' = t
        /\ \A m \in Both : \A k \in DOMAIN m.packets : t <= m.packets[k].arrival_time + 100000
    BY <1>0, <1>2, <2>1, <2>2
  <2>7. pc = "connect" /\ Both = {s_to_c_link, c_to_s_link} /\ Both' = {s_to_c_link', c_to_s_link}
        /\ ClockInv' /\ LoopInv' /\ half = "send" /\ half' = "send" /\ nb_inactive' = 0 /\ stateless' = 0
        /\ nb_trials' = nb_trials + 1
    BY <1>0, <1>2, <2>1
  <2>8. SendsAt(t) /\ SendsOn(s_to_c_link, s_to_c_link', c_to_s_link, t)
    BY <2>4, <2>5, <2>6, <2>7 DEF SendsAt, SendsOn
  <2> QED
    BY <2>7, <2>8, SendQuiet
<1>5. CASE SendClient
  <2>1. /\ half = "send" /\ half' = "send" /\ simulated_time' = simulated_time /\ nb_inactive' = 0
        /\ s_to_c_link' = s_to_c_link /\ stateless' = 0 /\ nb_trials' = nb_trials + 1
        /\ RoundTime = simulated_time
    BY <1>2, <1>3, <1>5 DEF SendClient, Active
  <2>2. PICK t \in Nat : t = simulated_time
    BY <1>0
  <2>3. PICK p \in Packet : c_to_s!Submit(p, t)
    BY <1>5, <2>2 DEF SendClient, SubmitToServer
  <2>4. \A k \in DOMAIN c_to_s_link'.packets :
          \/ c_to_s_link'.packets[k].arrival_time \in Nat /\ c_to_s_link'.packets[k].arrival_time > t
          \/ k \in DOMAIN c_to_s_link.packets /\ c_to_s_link'.packets[k] = c_to_s_link.packets[k]
    BY <1>0, <2>3, ToServerSubmit
  <2>5. /\ c_to_s_link'.picosec_per_byte = Rate
        /\ c_to_s_link'.microsec_latency = c_to_s_link.microsec_latency
        /\ \/ c_to_s_link'.queue_time <= c_to_s_link.queue_time + Slowest
           \/ c_to_s_link'.queue_time <= t + Slowest
    BY <1>0, <1>2, <2>3, ToServerTime
  <2>6. /\ simulated_time <= t /\ simulated_time' = t
        /\ \A m \in Both : \A k \in DOMAIN m.packets : t <= m.packets[k].arrival_time + 100000
    BY <1>0, <1>2, <2>1, <2>2
  <2>7. Both = {c_to_s_link, s_to_c_link} /\ Both' = {c_to_s_link', s_to_c_link} /\ ClockInv' /\ LoopInv' /\ pc = "connect"
    BY <1>0, <1>2, <2>1
  <2>8. SendsAt(t) /\ SendsOn(c_to_s_link, c_to_s_link', s_to_c_link, t)
    BY <2>1, <2>4, <2>5, <2>6, <2>7 DEF SendsAt, SendsOn
  <2> QED
    BY <2>7, <2>8, SendQuiet
<1>6. CASE SendServer
  <2>1. /\ half = "send" /\ half' = "send" /\ simulated_time' = simulated_time /\ nb_inactive' = 0
        /\ c_to_s_link' = c_to_s_link /\ stateless' = 0 /\ nb_trials' = nb_trials + 1
        /\ RoundTime = simulated_time
    BY <1>2, <1>3, <1>6 DEF SendServer, Active
  <2>2. PICK t \in Nat : t = simulated_time
    BY <1>0
  <2>3. PICK p \in Packet : s_to_c!Submit(p, t)
    BY <1>6, <2>2 DEF SendServer, SubmitToClient
  <2>4. \A k \in DOMAIN s_to_c_link'.packets :
          \/ s_to_c_link'.packets[k].arrival_time \in Nat /\ s_to_c_link'.packets[k].arrival_time > t
          \/ k \in DOMAIN s_to_c_link.packets /\ s_to_c_link'.packets[k] = s_to_c_link.packets[k]
    BY <1>0, <2>3, ToClientSubmit
  <2>5. /\ s_to_c_link'.picosec_per_byte = Rate
        /\ s_to_c_link'.microsec_latency = s_to_c_link.microsec_latency
        /\ \/ s_to_c_link'.queue_time <= s_to_c_link.queue_time + Slowest
           \/ s_to_c_link'.queue_time <= t + Slowest
    BY <1>0, <1>2, <2>3, ToClientTime
  <2>6. /\ simulated_time <= t /\ simulated_time' = t
        /\ \A m \in Both : \A k \in DOMAIN m.packets : t <= m.packets[k].arrival_time + 100000
    BY <1>0, <1>2, <2>1, <2>2
  <2>7. Both = {s_to_c_link, c_to_s_link} /\ Both' = {s_to_c_link', c_to_s_link} /\ ClockInv' /\ LoopInv' /\ pc = "connect"
    BY <1>0, <1>2, <2>1
  <2>8. SendsAt(t) /\ SendsOn(s_to_c_link, s_to_c_link', c_to_s_link, t)
    BY <2>1, <2>4, <2>5, <2>6, <2>7 DEF SendsAt, SendsOn
  <2> QED
    BY <2>7, <2>8, SendQuiet
<1>7. CASE SendNothing
  <2>1. /\ half = "send" /\ half' = "arrive" /\ simulated_time' = simulated_time + 5000 /\ stateless = 0
        /\ UNCHANGED <<c_to_s_link, s_to_c_link, nb_inactive, stateless>> /\ nb_trials' = nb_trials + 1
    BY <1>3, <1>7 DEF SendNothing, links
  <2>2. RoundTime' = RoundTime
    BY <1>0, <2>1 DEF RoundTime
  <2> QED
    BY <1>2, <2>1, <2>2, IdleQuiet
<1>8. ASSUME half = "arrive", Arrive PROVE QuietInv'
  <2>1. PICK n \in Nat : n = NextTime /\ n >= simulated_time + 5000
    BY NextTimeType DEF ClockInv
  <2>2. /\ ClientArrival \in Nat /\ ClientArrival <= n
        /\ \/ ClientArrival = n
           \/ \E k \in DOMAIN s_to_c_link.packets : ClientArrival = s_to_c_link.packets[k].arrival_time
        /\ \A k \in DOMAIN s_to_c_link.packets : ClientArrival <= s_to_c_link.packets[k].arrival_time
    BY <1>0, <2>1, ToClientArrival DEF ClientArrival
  <2>3. /\ ServerArrival \in Nat /\ ServerArrival <= n
        /\ \/ ServerArrival = n
           \/ \E k \in DOMAIN c_to_s_link.packets : ServerArrival = c_to_s_link.packets[k].arrival_time
        /\ \A k \in DOMAIN c_to_s_link.packets : ServerArrival <= c_to_s_link.packets[k].arrival_time
    BY <1>0, <2>1, ToServerArrival DEF ServerArrival
  <2>4. RoundTime = simulated_time - 5000 /\ stateless = 0
    BY <1>2, <1>8 DEF RoundTime
  <2>5. CASE ArriveClient
    <3>1. PICK t \in Nat : t = ClientArrival
      BY <2>2
    <3>2. /\ half' = "send" /\ simulated_time' = t /\ c_to_s_link' = c_to_s_link /\ nb_inactive' = 0
          /\ stateless' = 0 /\ nb_trials' = nb_trials /\ s_to_c!Dequeue(t)
          /\ t < ServerArrival /\ t < n
      BY <1>2, <2>1, <2>4, <2>5, <3>1 DEF ArriveClient, Incoming, Active, ClientFirst
    <3>3. ToClient!TypeOK /\ ToClient!Dequeue(t)
      BY <1>0, <3>2, ToClientSame
    <3>4. /\ s_to_c_link'.picosec_per_byte = s_to_c_link.picosec_per_byte
          /\ s_to_c_link'.microsec_latency = s_to_c_link.microsec_latency
          /\ s_to_c_link'.queue_time = s_to_c_link.queue_time
      BY <3>3, ToClientAssumed, ToClient!DequeueTime
    <3>5. \A k \in DOMAIN s_to_c_link'.packets : \E j \in DOMAIN s_to_c_link.packets :
            s_to_c_link'.packets[k] = s_to_c_link.packets[j]
      BY <1>0, <3>2, ToClientDequeue
    <3>6. \A m \in Both : \A k \in DOMAIN m.packets : t <= m.packets[k].arrival_time
      BY <1>0, <1>2, <2>2, <2>3, <3>1, <3>2
    <3>7. \E m \in Both : \E k \in DOMAIN m.packets : t = m.packets[k].arrival_time
      BY <1>0, <2>2, <3>1, <3>2
    <3>8. \A m \in Both' : \E o \in Both :
           /\ m.picosec_per_byte = o.picosec_per_byte /\ m.microsec_latency = o.microsec_latency
           /\ m.queue_time = o.queue_time
           /\ \A k \in DOMAIN m.packets : \E j \in DOMAIN o.packets : m.packets[k] = o.packets[j]
      BY <1>0, <3>2, <3>4, <3>5
    <3>9. ArrivesAt(t) /\ LinksKept
      BY <1>2, <1>8, <3>2, <3>6, <3>7, <3>8 DEF ArrivesAt, LinksKept
    <3> QED
      BY <1>0, <1>2, <3>9, ArriveQuiet
  <2>6. CASE ArriveServer
    <3>1. PICK t \in Nat : t = ServerArrival
      BY <2>3
    <3>2. /\ half' = "send" /\ simulated_time' = t /\ s_to_c_link' = s_to_c_link /\ nb_inactive' = 0
          /\ stateless' \in {0, 1} /\ nb_trials' = nb_trials /\ c_to_s!Dequeue(t)
          /\ t <= ClientArrival /\ t < n
      BY <1>2, <2>1, <2>2, <2>3, <2>4, <2>6, <3>1 DEF ArriveServer, Incoming, Active, ServerFirst, ClientFirst
    <3>3. ToServer!TypeOK /\ ToServer!Dequeue(t)
      BY <1>0, <3>2, ToServerSame
    <3>4. /\ c_to_s_link'.picosec_per_byte = c_to_s_link.picosec_per_byte
          /\ c_to_s_link'.microsec_latency = c_to_s_link.microsec_latency
          /\ c_to_s_link'.queue_time = c_to_s_link.queue_time
      BY <3>3, ToServerAssumed, ToServer!DequeueTime
    <3>5. \A k \in DOMAIN c_to_s_link'.packets : \E j \in DOMAIN c_to_s_link.packets :
            c_to_s_link'.packets[k] = c_to_s_link.packets[j]
      BY <1>0, <3>2, ToServerDequeue
    <3>6. \A m \in Both : \A k \in DOMAIN m.packets : t <= m.packets[k].arrival_time
      BY <1>0, <1>2, <2>2, <2>3, <3>1, <3>2
    <3>7. \E m \in Both : \E k \in DOMAIN m.packets : t = m.packets[k].arrival_time
      BY <1>0, <2>3, <3>1, <3>2
    <3>8. \A m \in Both' : \E o \in Both :
           /\ m.picosec_per_byte = o.picosec_per_byte /\ m.microsec_latency = o.microsec_latency
           /\ m.queue_time = o.queue_time
           /\ \A k \in DOMAIN m.packets : \E j \in DOMAIN o.packets : m.packets[k] = o.packets[j]
      BY <1>0, <3>2, <3>4, <3>5
    <3>9. ArrivesAt(t) /\ LinksKept
      BY <1>2, <1>8, <3>2, <3>6, <3>7, <3>8 DEF ArrivesAt, LinksKept
    <3> QED
      BY <1>0, <1>2, <3>9, ArriveQuiet
  <2>7. CASE ArriveNothing
    <3>1. half' = "send" /\ simulated_time' = n /\ nb_inactive' = nb_inactive + 1 /\ nb_trials' = nb_trials
          /\ stateless' = 0 /\ Both' = Both
      BY <1>0, <1>2, <2>1, <2>4, <2>7 DEF ArriveNothing, Active, links, engine
    <3>2. n <= ClientArrival /\ n <= ServerArrival
      BY <2>1, <2>2, <2>3, <2>7 DEF ArriveNothing, ClientFirst, ServerFirst
    <3>3. \A m \in Both : \A k \in DOMAIN m.packets : n <= m.packets[k].arrival_time
      BY <1>0, <1>2, <2>2, <2>3, <3>2
    <3>4. n >= RoundTime + 10000
      BY <1>0, <2>1, <2>4
    <3>5. ArrivesAt(n)
      BY <1>2, <1>8, <3>1, <3>3, <3>4 DEF ArrivesAt
    <3>6. LinksKept
      BY <3>1 DEF LinksKept
    <3> QED
      BY <1>0, <1>2, <3>5, <3>6, ArriveQuiet
  <2> QED
    BY <1>8, <2>5, <2>6, <2>7 DEF Arrive
<1>9. CASE Arrive
  BY <1>8, <1>9 DEF Arrive, ArriveClient, ArriveServer, ArriveNothing, Incoming
<1>10. CASE UNCHANGED vars
  <2>1. UNCHANGED <<c_to_s_link, s_to_c_link, nb_inactive, stateless, nb_trials, half, simulated_time>>
    BY <1>10 DEF vars, links, counts, engine
  <2>2. RoundTime' = RoundTime
    BY <2>1 DEF RoundTime
  <2> QED
    BY <1>2, <2>1, <2>2, IdleQuiet
<1>11. ~Close /\ ~ConnectFails /\ ~Crash /\ ~Closed
  <2>1. ~Close
    BY <1>2 DEF Close
  <2> QED
    BY <2>1 DEF ConnectFails, Crash, Closed
<1> QED
  BY <1>4, <1>5, <1>6, <1>7, <1>9, <1>10, <1>11 DEF Next, Send, Ended

\* When the connection loop gives up for inactivity no packet is under way, for
\* any engine, any pattern and any wakes, stateless packets included, if its limit
\* outlasts what the links can hold.
THEOREM QuietIsEmpty == LongSilence => (Spec => []QuietMeansEmpty)
<1> SUFFICES ASSUME LongSilence PROVE Spec => []QuietMeansEmpty
  OBVIOUS
<1>1. ASSUME ClockInv, LoopInv, QuietInv, pc = "connect", half = "send", nb_inactive = InactiveLimit,
             NEW l \in Both, NEW k \in DOMAIN l.packets
      PROVE  FALSE
  <2>1. /\ l.packets[k].arrival_time \in Nat /\ l.queue_time \in Nat /\ l.microsec_latency = Latency
        /\ l.packets[k].arrival_time <= l.queue_time + Latency
    BY <1>1, Times, QueueTimes DEF ClockInv, LinksOrdered, QuietInv, Both, c_to_s!ArrivalsOrdered, s_to_c!ArrivalsOrdered
  <2>2. Slowest \in Nat /\ 10000 * InactiveLimit > 100000 + Latency + TrialLimit * Slowest
    BY SlowestType DEF SilenceOutlasts
  <2>3. Backlog \in Nat /\ Backlog <= TrialLimit * Slowest
    BY <1>1, BacklogGrows
  <2> DEFINE all == TrialLimit * Slowest
  <2>4. all \in Nat /\ Latency \in Nat /\ InactiveLimit \in Nat /\ RoundTime \in Int
    BY <1>1, <2>2, RoundAssumption DEF ClockInv, RoundTime
  <2> HIDE DEF all
  <2>5. InactiveLimit > 0
    BY <2>2, <2>4 DEF all
  <2>6. RoundTime <= l.packets[k].arrival_time
    BY <1>1, <2>5 DEF QuietInv
  <2>7. l.queue_time + 10000 * InactiveLimit <= RoundTime + 100000 + Backlog
    BY <1>1 DEF QuietInv
  <2> QED
    BY <2>1, <2>2, <2>3, <2>4, <2>6, <2>7 DEF all
<1>2. ASSUME ClockInv, LoopInv, QuietInv PROVE QuietMeansEmpty
  <2> SUFFICES ASSUME pc = "connect", half = "send", nb_inactive = InactiveLimit
               PROVE  c_to_s_link.packets = <<>> /\ s_to_c_link.packets = <<>>
    BY DEF QuietMeansEmpty
  <2>1. \A l \in Both : DOMAIN l.packets = {}
    BY <1>1, <1>2
  <2>2. c_to_s_link.packets \in Seq(c_to_s!Queued) /\ s_to_c_link.packets \in Seq(s_to_c!Queued)
    BY <1>2 DEF ClockInv, c_to_s!TypeOK, c_to_s!Link, s_to_c!TypeOK, s_to_c!Link
  <2>3. DOMAIN c_to_s_link.packets = {} /\ DOMAIN s_to_c_link.packets = {}
    BY <2>1 DEF Both
  <2>4. \A S, q : q \in Seq(S) /\ DOMAIN q = {} => q = <<>>
    OBVIOUS
  <2> QED
    BY <2>2, <2>3, <2>4
<1>3. ClockInv /\ LoopInv /\ QuietInv /\ [Next]_vars => ClockInv' /\ LoopInv' /\ QuietInv'
  BY ClockStep, LoopStep, QuietStep
<1> QED
  BY <1>2, <1>3, ClockInit, LoopInit, QuietInit, PTL DEF Spec
=============================================================================
