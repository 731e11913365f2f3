------------------------- MODULE SimLinkTestProofs -------------------------
(***************************************************************************)
(* Theorems about SimLinkTest, for any number of packets, patterns of any  *)
(* length, rates, latencies and bounds of the queue.                       *)
(***************************************************************************)
EXTENDS SimLinkTest, SimLinkProofs

-----------------------------------------------------------------------------
(***************************************************************************)
(* The loop: what has left, what is on the link and when it arrives.       *)
(***************************************************************************)

\* At least the time the link takes for a packet.
Slot(p) == (link.picosec_per_byte * Length[p]) \div 1048576 + 1

\* The packets leave on time, and the link is never further behind than if each
\* had been as long as the longest.  The loop ends with an empty link: that is
\* why the bound is needed, as a packet that arrived after Forever would be left.
TestInv ==
  /\ TypeOK /\ ArrivalsOrdered
  /\ link.picosec_per_byte \in Rate /\ link.microsec_latency \in Latency
  /\ pattern \in Mask
  /\ running \in BOOLEAN
  /\ current_time \in Nat /\ departure_time \in Nat
  /\ queued \in 0 .. NbPackets /\ dequeued \in Nat /\ dequeued + Len(link.packets) <= queued
  /\ received \in Seq(Packet)
  /\ queued < NbPackets => departure_time = Interval * queued
  /\ queued = 0 => link.queue_time = 0
  /\ queued > 0 => \E p \in Packet : link.queue_time <= queued * (Interval + Slot(p))
  /\ ~running => queued = NbPackets /\ link.packets = <<>>

LEMMA SlotType ==
  ASSUME TypeOK, NEW p \in Packet
  PROVE  Slot(p) \in Nat /\ TransmitTime(p) \in Nat /\ TransmitTime(p) <= Slot(p)
<1>1. link.picosec_per_byte \in Nat /\ Length[p] \in Nat
  BY LinkAssumption DEF TypeOK, Link
<1>2. link.picosec_per_byte * Length[p] \in Nat
  BY <1>1
<1> DEFINE t == (link.picosec_per_byte * Length[p]) \div 1048576
<1>3. t \in Nat
  BY <1>2
<1>4. TransmitTime(p) = (IF t = 0 THEN 1 ELSE t) /\ Slot(p) = t + 1
  BY DEF TransmitTime, Slot
<1> HIDE DEF t
<1> QED
  BY <1>3, <1>4

LEMMA SlotTerm ==
  ASSUME TypeOK, NEW p \in Packet
  PROVE  (link.picosec_per_byte * Length[p]) \div 1048576 \in Nat
<1>1. link.picosec_per_byte \in Nat /\ Length[p] \in Nat
  BY LinkAssumption DEF TypeOK, Link
<1>2. link.picosec_per_byte * Length[p] \in Nat
  BY <1>1
<1> QED
  BY <1>2

LEMMA Products ==
  ASSUME NEW m \in Nat, NEW n \in Nat, NEW a \in Nat, NEW b \in Nat, m <= n, a <= b
  PROVE  /\ m * a \in Nat /\ n * b \in Nat /\ m * a <= n * b
         /\ (m + 1) * a = m * a + a
<1>1. PICK d \in Nat : n = m + d
  <2>1. n - m \in Nat /\ n = m + (n - m)
    OBVIOUS
  <2> QED
    BY <2>1
<1>2. PICK e \in Nat : b = a + e
  <2>1. b - a \in Nat /\ b = a + (b - a)
    OBVIOUS
  <2> QED
    BY <2>1
<1>3. n * b = m * a + m * e + d * a + d * e
  BY <1>1, <1>2
<1>4. m * a \in Nat /\ m * e \in Nat /\ d * a \in Nat /\ d * e \in Nat
  BY <1>1, <1>2
<1> QED
  BY <1>3, <1>4

LEMMA DepartureType ==
  ASSUME TestInv
  PROVE  /\ Departure \in Nat /\ ClockOf(Departure) \in Nat
         /\ queued < NbPackets => Departure = Interval * queued
         /\ NbPackets \in Nat
<1>1. Departure \in Nat /\ NbPackets \in Nat
  BY TestAssumption, LinkAssumption DEF TestInv, Departure, NbPackets
<1>2. ClockOf(Departure) \in Nat
  BY <1>1, NextArrivalFirst DEF TestInv, ClockOf
<1> QED
  BY <1>1, <1>2 DEF TestInv, Departure

\* No packet arrives after Forever.
LEMMA ArrivesInTime ==
  ASSUME TestInv, NEW k \in DOMAIN link.packets
  PROVE  link.packets[k].arrival_time \in Nat /\ link.packets[k].arrival_time <= Forever
<1>1. /\ link.packets \in Seq(Queued) /\ link.queue_time \in Nat /\ link.microsec_latency \in Nat
      /\ queued \in Nat /\ NbPackets \in Nat /\ queued <= NbPackets /\ dequeued \in Nat
  BY LinkAssumption DEF TestInv, TypeOK, Link, NbPackets
<1>2. link.packets[k] \in Queued /\ Len(link.packets) \in Nat \ {0}
  BY <1>1
<1>3. link.packets[k].arrival_time \in Nat
  BY <1>2 DEF Queued
<1>4. link.packets[k].arrival_time <= link.queue_time + link.microsec_latency
  BY DEF TestInv, ArrivalsOrdered
<1>5. queued > 0
  BY <1>1, <1>2 DEF TestInv
<1>6. PICK p \in Packet : link.queue_time <= queued * (Interval + Slot(p))
  BY <1>5 DEF TestInv
<1>7. Slot(p) \in Nat /\ Interval \in Nat /\ Interval + Slot(p) \in Nat
  BY SlotType, TestAssumption DEF TestInv
<1>8. queued * (Interval + Slot(p)) <= NbPackets * (Interval + Slot(p))
      /\ queued * (Interval + Slot(p)) \in Nat /\ NbPackets * (Interval + Slot(p)) \in Nat
  BY <1>1, <1>7, Products, SMTT(20)
<1>9. NbPackets * (Interval + Slot(p)) + link.microsec_latency <= Forever
  <2> DEFINE t == (link.picosec_per_byte * Length[p]) \div 1048576
  <2>1. NbPackets * (Interval + t + 1) + link.microsec_latency <= Forever
    BY TestAssumption DEF TestInv
  <2>2. t \in Int
    BY <1>7, SlotTerm DEF TestInv
  <2>3. Interval + t + 1 = Interval + Slot(p)
    BY <1>7, <2>2 DEF Slot
  <2> QED
    BY <2>1, <2>3
<1>10. Forever \in Nat
  BY TestAssumption
<1> DEFINE some == queued * (Interval + Slot(p))
           all == NbPackets * (Interval + Slot(p))
<1>11. some <= all /\ some \in Nat /\ all \in Nat /\ all + link.microsec_latency <= Forever /\ link.queue_time <= some
  BY <1>6, <1>8, <1>9
<1> HIDE DEF some, all
<1> QED
  BY <1>1, <1>3, <1>4, <1>10, <1>11

LEMMA TestInvInit == TestInit => TestInv
<1> SUFFICES ASSUME TestInit PROVE TestInv
  OBVIOUS
<1>1. PICK rate \in Rate, latency \in Latency, max \in DelayMax : link = NewLink(rate, latency, max, 0)
  BY DEF TestInit
<1>2. link \in Link
  BY <1>1, NewLinkType, LinkAssumption
<1>3. link.packets = <<>> /\ link.queue_time = 0 /\ link.picosec_per_byte = rate /\ link.microsec_latency = latency
  BY <1>1 DEF NewLink
<1>4. TypeOK /\ ArrivalsOrdered
  BY <1>2, <1>3, LinkAssumption DEF TestInit, TypeOK, ArrivalsOrdered
<1>5. NbPackets \in Nat /\ Interval \in Nat
  BY LinkAssumption, TestAssumption DEF NbPackets
<1>6. queued < NbPackets => departure_time = Interval * queued
  <2>1. Interval * 0 = 0
    BY <1>5
  <2> QED
    BY <2>1 DEF TestInit
<1> QED
  BY <1>1, <1>3, <1>4, <1>5, <1>6 DEF TestInit, TestInv

\* The parameters of the link stay, and with them the time for each packet.
LEMMA SlotSame ==
  ASSUME link'.picosec_per_byte = link.picosec_per_byte, NEW p \in Packet
  PROVE  Slot(p)' = Slot(p) /\ TransmitTime(p)' = TransmitTime(p)
BY DEF Slot, TransmitTime

\* An arrival: the head of the link is received.
LEMMA ArrivalStep ==
  ASSUME TestInv, Arrival
  PROVE  /\ TestInv'
         /\ link.packets # <<>> /\ link'.packets = Tail(link.packets)
         /\ received' = Append(received, Head(link.packets).packet)
         /\ UNCHANGED <<pattern, loss_mask, queued>>
         /\ link'.queue_delay_max = link.queue_delay_max
         /\ link'.microsec_latency = link.microsec_latency
         /\ link'.picosec_per_byte = link.picosec_per_byte
<1>1. PICK t \in Nat : t = ClockOf(Departure)
  BY DepartureType
<1>2. /\ current_time' = t /\ Dequeue(t) /\ running /\ running' = running /\ UNCHANGED <<pattern, queued>>
      /\ dequeued' = dequeued + 1 /\ departure_time' = Departure
      /\ received' = Append(received, Head(link.packets).packet)
  BY <1>1 DEF Arrival, Tick
<1>3. TypeOK /\ ArrivalsOrdered /\ link.packets \in Seq(Queued) /\ link \in Link
  BY DEF TestInv, TypeOK, Link
<1>4. (TypeOK /\ ArrivalsOrdered)'
  BY <1>2, <1>3, DequeueStep
<1>5. /\ link'.picosec_per_byte = link.picosec_per_byte
      /\ link'.microsec_latency = link.microsec_latency
      /\ link'.queue_delay_max = link.queue_delay_max
      /\ link'.queue_time = link.queue_time
  BY <1>2, <1>3, DequeueTime
<1>6. link.packets # <<>> /\ link'.packets = Tail(link.packets) /\ loss_mask' = loss_mask
  BY <1>2, <1>3 DEF Dequeue, Due, Removed, Link
<1>7. Len(link'.packets) = Len(link.packets) - 1 /\ Len(link.packets) \in Nat /\ Head(link.packets) \in Queued
  BY <1>3, <1>6
<1>8. received' \in Seq(Packet)
  <2>1. Head(link.packets).packet \in Packet /\ received \in Seq(Packet)
    BY <1>7 DEF Queued, TestInv
  <2> QED
    BY <1>2, <2>1
<1>9. queued' < NbPackets => departure_time' = Interval * queued'
  BY <1>2, DepartureType
<1>10. queued' > 0 => \E p \in Packet : link'.queue_time <= queued' * (Interval + Slot(p)')
  <2> SUFFICES ASSUME queued > 0
               PROVE  \E p \in Packet : link'.queue_time <= queued' * (Interval + Slot(p)')
    BY <1>2
  <2>1. PICK p \in Packet : link.queue_time <= queued * (Interval + Slot(p))
    BY DEF TestInv
  <2>2. Slot(p)' = Slot(p)
    BY <1>5, SlotSame
  <2> QED
    BY <1>2, <1>5, <2>1, <2>2
<1>11. /\ queued' \in 0 .. NbPackets /\ dequeued' \in Nat /\ dequeued' + Len(link'.packets) <= queued'
       /\ queued' = 0 => link'.queue_time = 0
  <2>1. /\ queued \in 0 .. NbPackets /\ dequeued \in Nat /\ dequeued + Len(link.packets) <= queued
        /\ queued = 0 => link.queue_time = 0
    BY DEF TestInv
  <2>2. NbPackets \in Nat
    BY DepartureType
  <2>3. queued' = queued /\ dequeued' = dequeued + 1 /\ link'.queue_time = link.queue_time
    BY <1>2, <1>5
  <2> DEFINE m == Len(link.packets)
             n == Len(link'.packets)
  <2>4. m \in Nat /\ n = m - 1 /\ dequeued + m <= queued /\ queued \in Nat /\ dequeued \in Nat
    BY <1>7, <2>1, <2>2
  <2> HIDE DEF m, n
  <2>5. dequeued' \in Nat /\ dequeued' + n <= queued'
    BY <2>3, <2>4
  <2> QED
    BY <2>1, <2>3, <2>5 DEF n
<1>12. pattern' \in Mask /\ running' = TRUE /\ current_time' \in Nat /\ departure_time' \in Nat
       /\ link'.picosec_per_byte \in Rate /\ link'.microsec_latency \in Latency
  BY <1>2, <1>5, DepartureType DEF TestInv
<1>13. TestInv'
  BY <1>4, <1>8, <1>9, <1>10, <1>11, <1>12 DEF TestInv
<1> QED
  BY <1>2, <1>5, <1>6, <1>13

\* A departure: the next packet is submitted at Interval * queued.
LEMMA DepartsStep ==
  ASSUME TestInv, Departs
  PROVE  /\ TestInv'
         /\ queued < NbPackets /\ queued + 1 \in Packet /\ Interval * queued \in Nat
         /\ Submit(queued + 1, Interval * queued)
         /\ queued' = queued + 1
         /\ UNCHANGED <<pattern, received, running>>
         /\ link'.queue_delay_max = link.queue_delay_max
         /\ link'.microsec_latency = link.microsec_latency
         /\ link'.picosec_per_byte = link.picosec_per_byte
<1>1. /\ queued < NbPackets /\ queued \in Nat /\ NbPackets \in Nat /\ Departure = Interval * queued
      /\ Departure \in Nat /\ ClockOf(Departure) \in Nat /\ Interval \in Nat
  BY DepartureType, TestAssumption DEF Departs, TestInv
<1>2. queued + 1 \in Packet
  <2>1. queued + 1 \in 1 .. NbPackets
    BY <1>1
  <2> QED
    BY <2>1, TestAssumption
<1>3. PICK n \in Packet : n = queued + 1
  BY <1>2
<1>4. PICK t \in Nat : t = Interval * queued
  BY <1>1
<1>5. /\ Submit(n, t) /\ queued' = n /\ departure_time' = t + Interval /\ running /\ running' = running
      /\ UNCHANGED <<pattern, received, dequeued>> /\ current_time' = ClockOf(Departure)
  BY <1>1, <1>3, <1>4 DEF Departs, Tick
<1>6. TypeOK /\ ArrivalsOrdered /\ link.packets \in Seq(Queued) /\ link \in Link /\ link.queue_time \in Nat
  BY DEF TestInv, TypeOK, Link
<1>7. (TypeOK /\ ArrivalsOrdered)'
  BY <1>5, <1>6, SubmitStep
<1>8. /\ link'.picosec_per_byte = link.picosec_per_byte
      /\ link'.microsec_latency = link.microsec_latency
      /\ link'.queue_delay_max = link.queue_delay_max
      /\ \/ link'.queue_time = link.queue_time
         \/ link'.queue_time = link.queue_time + TransmitTime(n)
         \/ link'.queue_time = t + TransmitTime(n)
  BY <1>5, <1>6, SubmitTime
<1>9. link'.packets = link.packets \/ link'.packets = Append(link.packets, Arriving(n, t))
  BY <1>5, <1>6, SubmitLater
<1>10. Len(link'.packets) \in Nat /\ Len(link'.packets) <= Len(link.packets) + 1 /\ Len(link.packets) \in Nat
  BY <1>6, <1>9
<1>11. \E p \in Packet : link'.queue_time <= queued' * (Interval + Slot(p)')
  <2>1. \A p \in Packet : Slot(p) \in Nat /\ Interval + Slot(p) \in Nat /\ Slot(p)' = Slot(p)
    BY <1>1, <1>6, <1>8, SlotType, SlotSame
  <2>2. PICK p \in Packet : Slot(n) <= Slot(p) /\ link.queue_time <= queued * (Interval + Slot(p))
    <3>1. CASE queued = 0
      <4>1. queued * (Interval + Slot(n)) = 0 /\ link.queue_time = 0
        BY <1>1, <2>1, <3>1 DEF TestInv
      <4> QED
        BY <2>1, <4>1
    <3>2. CASE queued > 0
      <4>1. PICK m \in Packet : link.queue_time <= queued * (Interval + Slot(m))
        BY <3>2 DEF TestInv
      <4>2. CASE Slot(n) <= Slot(m)
        BY <4>1, <4>2
      <4>3. CASE Slot(m) <= Slot(n)
        <5>1. /\ queued * (Interval + Slot(m)) <= queued * (Interval + Slot(n))
              /\ queued * (Interval + Slot(m)) \in Nat /\ queued * (Interval + Slot(n)) \in Nat
          BY <1>1, <2>1, <4>3, Products
        <5> QED
          BY <1>6, <2>1, <4>1, <5>1
      <4> QED
        BY <2>1, <4>2, <4>3
    <3> QED
      BY <1>1, <3>1, <3>2
  <2>3. TransmitTime(n) \in Nat /\ TransmitTime(n) <= Slot(p)
    BY <1>6, <2>1, <2>2, SlotType
  <2> DEFINE s == Interval + Slot(p)
  <2>4. s \in Nat /\ Slot(p) \in Nat /\ Interval <= s /\ Slot(p) <= s
    BY <1>1, <2>1
  <2>5. t <= queued * s /\ queued * s \in Nat
    <3>1. queued * Interval <= queued * s /\ queued * s \in Nat
      BY <1>1, <2>4, Products
    <3>2. queued * Interval = Interval * queued
      BY <1>1
    <3> QED
      BY <1>4, <3>1, <3>2
  <2>6. (queued + 1) * s = queued * s + s
    BY <1>1, <2>4, Products
  <2>7. link.queue_time <= queued * s
    BY <2>2
  <2> DEFINE all == queued * s
  <2>8. all \in Nat /\ t <= all /\ link.queue_time <= all /\ (queued + 1) * s = all + s
    BY <2>5, <2>6, <2>7
  <2> HIDE DEF all, s
  <2>9. link'.queue_time <= all + s
    BY <1>6, <1>8, <2>3, <2>4, <2>8
  <2>10. link'.queue_time <= (queued + 1) * s
    BY <2>8, <2>9
  <2> QED
    BY <1>3, <1>5, <2>1, <2>10 DEF s
<1>12. queued' < NbPackets => departure_time' = Interval * queued'
  <2>1. Interval * (queued + 1) = Interval * queued + Interval
    BY <1>1
  <2> QED
    BY <1>3, <1>4, <1>5, <2>1
<1>13. /\ queued' \in 0 .. NbPackets /\ queued' # 0 /\ dequeued' \in Nat
       /\ dequeued' + Len(link'.packets) <= queued'
  BY <1>1, <1>3, <1>5, <1>10 DEF TestInv
<1>14. pattern' \in Mask /\ running' = TRUE /\ current_time' \in Nat /\ departure_time' \in Nat
       /\ link'.picosec_per_byte \in Rate /\ link'.microsec_latency \in Latency
       /\ received' \in Seq(Packet)
  <2>1. /\ pattern \in Mask /\ link.picosec_per_byte \in Rate /\ link.microsec_latency \in Latency
        /\ received \in Seq(Packet)
    BY DEF TestInv
  <2> QED
    BY <1>1, <1>4, <1>5, <1>8, <2>1
<1>15. TestInv'
  BY <1>7, <1>11, <1>12, <1>13, <1>14 DEF TestInv
<1> QED
  BY <1>1, <1>2, <1>3, <1>4, <1>5, <1>8, <1>15

\* The loop ends when no packet is left: the link is empty.
LEMMA EndsStep ==
  ASSUME TestInv, Ends
  PROVE  TestInv' /\ UNCHANGED <<link, loss_mask, pattern, queued, received>>
<1>1. /\ queued = NbPackets /\ Departure = Forever /\ ClockOf(Departure) \in Nat /\ NbPackets \in Nat
      /\ Departure \in Nat
  BY DepartureType DEF Ends, TestInv, Departure
<1>2. PICK t \in Nat : t = ClockOf(Departure)
  BY <1>1
<1>3. ~Due(t) /\ running' = FALSE /\ departure_time' = Departure /\ current_time' = t
      /\ UNCHANGED <<link, loss_mask, pattern, queued, dequeued, received>>
  BY <1>2 DEF Ends, Tick
<1>4. link.packets \in Seq(Queued)
  BY DEF TestInv, TypeOK, Link
<1>5. link.packets = <<>>
  <2> SUFFICES ASSUME link.packets # <<>> PROVE FALSE
    OBVIOUS
  <2>1. 1 \in DOMAIN link.packets /\ Head(link.packets) = link.packets[1]
    BY <1>4
  <2>2. Head(link.packets).arrival_time \in Nat /\ Head(link.packets).arrival_time <= Forever
    BY <2>1, ArrivesInTime
  <2>3. t = IF Head(link.packets).arrival_time < Forever THEN Head(link.packets).arrival_time ELSE Forever
    BY <1>1, <1>2 DEF ClockOf, NextArrival
  <2>4. ~ (Head(link.packets).arrival_time <= t)
    BY <1>3 DEF Due
  <2> QED
    BY <1>1, <2>2, <2>3, <2>4
<1>6. TypeOK' /\ ArrivalsOrdered'
  BY <1>3 DEF TestInv, TypeOK, ArrivalsOrdered
<1>7. \A p \in Packet : Slot(p)' = Slot(p)
  BY <1>3 DEF Slot
<1>8. TestInv'
  <2>1. link' = link /\ queued' = queued /\ dequeued' = dequeued /\ received' = received /\ pattern' = pattern
        /\ running' = FALSE /\ current_time' \in Nat /\ departure_time' \in Nat
    BY <1>1, <1>2, <1>3
  <2>2. queued' > 0 => \E p \in Packet : link'.queue_time <= queued' * (Interval + Slot(p)')
    BY <1>7, <2>1 DEF TestInv
  <2>3. /\ link'.picosec_per_byte \in Rate /\ link'.microsec_latency \in Latency
        /\ pattern' \in Mask /\ queued' \in 0 .. NbPackets /\ dequeued' \in Nat
        /\ dequeued' + Len(link'.packets) <= queued' /\ received' \in Seq(Packet)
        /\ queued' = 0 => link'.queue_time = 0
    BY <2>1 DEF TestInv
  <2>4. queued' = NbPackets /\ link'.packets = <<>> /\ ~ (queued' < NbPackets)
    BY <1>1, <1>5, <2>1
  <2> QED
    BY <1>6, <2>1, <2>2, <2>3, <2>4 DEF TestInv
<1> QED
  BY <1>3, <1>8

LEMMA TestInvSame ==
  ASSUME TestInv, UNCHANGED testvars
  PROVE  TestInv'
<1>1. \A p \in Packet : Slot(p)' = Slot(p)
  BY DEF Slot, testvars
<1> QED
  BY <1>1 DEF TestInv, testvars, TypeOK, ArrivalsOrdered

LEMMA TestInvStep == TestInv /\ [TestNext]_testvars => TestInv'
BY ArrivalStep, DepartsStep, EndsStep, TestInvSame DEF TestNext

\* Every packet that is taken has left, and has not been taken before: for any
\* number of packets and any queue the counters agree with the link.
THEOREM TestTypeCorrect == TestSpec => []TestTypeOK
<1>1. TestInv => TestTypeOK
  <2> SUFFICES ASSUME TestInv PROVE TestTypeOK
    OBVIOUS
  <2>1. Len(link.packets) \in Nat /\ queued \in Nat /\ NbPackets \in Nat /\ dequeued \in Nat
    BY DepartureType DEF TestInv, TypeOK, Link
  <2>2. dequeued \in 0 .. queued
    BY <2>1 DEF TestInv
  <2> QED
    BY <2>2 DEF TestInv, TestTypeOK
<1> QED
  BY <1>1, TestInvInit, TestInvStep, PTL DEF TestSpec
-----------------------------------------------------------------------------
(***************************************************************************)
(* Losses.                                                                 *)
(***************************************************************************)

\* The numbers received, and those of the packets on the link.
Came == {received[k] : k \in DOMAIN received}
Under == {link.packets[k].packet : k \in DOMAIN link.packets}
Kept(n) == {k \in 1 .. n : ~LostByPattern(k)}

\* The numbers grow from the first packet received to the last one on the link.
\* Without a bound of the queue the pattern goes round once for each packet.
LossInv ==
  /\ Came \subseteq 1 .. queued /\ Under \subseteq 1 .. queued
  /\ \A k, l \in DOMAIN received : k < l => received[k] < received[l]
  /\ \A k, l \in DOMAIN link.packets : k < l => link.packets[k].packet < link.packets[l].packet
  /\ \A m \in Came, n \in Under : m < n
  /\ link.queue_delay_max = 0 =>
       /\ loss_mask = Rotated(pattern, queued)
       /\ Came \cup Under = Kept(queued)

LEMMA LossInit == TestInit => LossInv
<1> SUFFICES ASSUME TestInit PROVE LossInv
  OBVIOUS
<1>1. link.packets = <<>> /\ received = <<>> /\ queued = 0
  BY DEF TestInit, NewLink
<1>2. Came = {} /\ Under = {}
  BY <1>1 DEF Came, Under
<1>3. Kept(0) = {}
  BY DEF Kept
<1>4. loss_mask = Rotated(pattern, 0)
  BY RotatedNone, LinkAssumption DEF TestInit
<1> QED
  BY <1>1, <1>2, <1>3, <1>4 DEF LossInv

\* A sequence and one more element; a sequence without its first element.
LEMMA Appended ==
  ASSUME NEW S, NEW q \in Seq(S), NEW e \in S
  PROVE  /\ Append(q, e) \in Seq(S) /\ Len(q) \in Nat
         /\ DOMAIN Append(q, e) = DOMAIN q \cup {Len(q) + 1}
         /\ Append(q, e)[Len(q) + 1] = e
         /\ \A k \in DOMAIN q : Append(q, e)[k] = q[k] /\ k \in Nat /\ k < Len(q) + 1
OBVIOUS

LEMMA Shortened ==
  ASSUME NEW S, NEW q \in Seq(S), q # <<>>
  PROVE  /\ Head(q) = q[1] /\ 1 \in DOMAIN q
         /\ \A k \in DOMAIN Tail(q) : k \in Nat /\ 1 < k + 1 /\ k + 1 \in DOMAIN q /\ Tail(q)[k] = q[k + 1]
         /\ \A k \in DOMAIN q : k \in Nat /\ (k = 1 \/ (1 < k /\ k - 1 \in DOMAIN Tail(q) /\ Tail(q)[k - 1] = q[k]))
OBVIOUS

LEMMA LossArrival ==
  ASSUME TestInv, LossInv, Arrival
  PROVE  LossInv'
<1> DEFINE q == link.packets
           r == link'.packets
           e == Head(link.packets).packet
           c == received
           d == received'
<1>1. /\ q # <<>> /\ r = Tail(q) /\ d = Append(c, e)
      /\ UNCHANGED <<pattern, loss_mask, queued>>
      /\ link'.queue_delay_max = link.queue_delay_max
  BY ArrivalStep
<1>2. q \in Seq(Queued) /\ c \in Seq(Packet) /\ Head(q) \in Queued /\ e \in Packet
  <2>1. q \in Seq(Queued) /\ c \in Seq(Packet)
    BY DEF TestInv, TypeOK, Link
  <2>2. Head(q) \in Queued
    BY <1>1, <2>1
  <2> QED
    BY <2>1, <2>2 DEF Queued
<1>3. /\ Head(q) = q[1] /\ 1 \in DOMAIN q
      /\ \A k \in DOMAIN r : k \in Nat /\ 1 < k + 1 /\ k + 1 \in DOMAIN q /\ r[k] = q[k + 1]
      /\ \A k \in DOMAIN q : k \in Nat /\ (k = 1 \/ (1 < k /\ k - 1 \in DOMAIN r /\ r[k - 1] = q[k]))
  BY <1>1, <1>2, Shortened
<1>4. /\ DOMAIN d = DOMAIN c \cup {Len(c) + 1} /\ d[Len(c) + 1] = e /\ Len(c) \in Nat
      /\ \A k \in DOMAIN c : d[k] = c[k] /\ k \in Nat /\ k < Len(c) + 1
  BY <1>1, <1>2, Appended
<1>5. /\ Came = {c[k] : k \in DOMAIN c} /\ Came' = {d[k] : k \in DOMAIN d}
      /\ Under = {q[k].packet : k \in DOMAIN q} /\ Under' = {r[k].packet : k \in DOMAIN r}
      /\ e = q[1].packet
  BY <1>3 DEF Came, Under
<1>6. /\ Came \subseteq 1 .. queued /\ Under \subseteq 1 .. queued
      /\ \A k, l \in DOMAIN c : k < l => c[k] < c[l]
      /\ \A k, l \in DOMAIN q : k < l => q[k].packet < q[l].packet
      /\ \A m \in Came, n \in Under : m < n
      /\ queued \in Nat
  BY DepartureType DEF LossInv, TestInv
<1> HIDE DEF q, r, c, d, e
<1>7. Came' = Came \cup {e}
  BY <1>4, <1>5
<1>8. Under = Under' \cup {e}
  BY <1>3, <1>5
<1>9. \A n \in Under' : e < n
  <2>1. \A k \in DOMAIN r : 1 < k + 1 /\ k + 1 \in DOMAIN q /\ r[k].packet = q[k + 1].packet
    BY <1>3
  <2>2. \A k \in DOMAIN r : q[1].packet < r[k].packet
    BY <1>3, <1>6, <2>1
  <2> QED
    BY <1>5, <2>2
<1>10. \A k, l \in DOMAIN d : k < l => d[k] < d[l]
  <2> SUFFICES ASSUME NEW k \in DOMAIN d, NEW l \in DOMAIN d, k < l PROVE d[k] < d[l]
    OBVIOUS
  <2>1. k \in DOMAIN c
    BY <1>4
  <2>2. CASE l \in DOMAIN c
    BY <1>4, <1>6, <2>1, <2>2
  <2>3. CASE l = Len(c) + 1
    <3>1. d[k] \in Came /\ d[l] = e /\ e \in Under
      BY <1>4, <1>5, <1>8, <2>1, <2>3
    <3> QED
      BY <1>6, <3>1
  <2> QED
    BY <1>4, <2>2, <2>3
<1>11. \A k, l \in DOMAIN r : k < l => r[k].packet < r[l].packet
  BY <1>3, <1>6
<1>12. \A m \in Came', n \in Under' : m < n
  BY <1>6, <1>7, <1>8, <1>9
<1>13. Came' \subseteq 1 .. queued /\ Under' \subseteq 1 .. queued /\ Came' \cup Under' = Came \cup Under
  BY <1>6, <1>7, <1>8
<1>14. Rotated(pattern, queued)' = Rotated(pattern, queued) /\ Kept(queued)' = Kept(queued)
  BY <1>1 DEF Rotated, Kept, LostByPattern
<1>15. link'.queue_delay_max = 0 =>
         loss_mask' = Rotated(pattern, queued)' /\ Came' \cup Under' = Kept(queued)'
  BY <1>1, <1>13, <1>14 DEF LossInv
<1> QED
  BY <1>1, <1>10, <1>11, <1>12, <1>13, <1>15 DEF LossInv, r, d

\* The next number is lost or goes to the end of the link.
LEMMA LossDeparts ==
  ASSUME TestInv, LossInv, Departs
  PROVE  LossInv'
<1> DEFINE q == link.packets
           r == link'.packets
<1>0. /\ TestInv' /\ queued < NbPackets /\ queued + 1 \in Packet /\ Interval * queued \in Nat
      /\ Submit(queued + 1, Interval * queued)
      /\ queued' = queued + 1
      /\ UNCHANGED <<pattern, received, running>>
      /\ link'.queue_delay_max = link.queue_delay_max
  BY DepartsStep
<1>1. PICK n \in Packet, t \in Nat : n = queued + 1 /\ t = Interval * queued
  BY <1>0
<1> DEFINE a == Arriving(n, t)
<1>2. \/ /\ Accepts(t) /\ loss_mask' = Rotate(loss_mask)
         /\ r = IF Lost THEN q ELSE Append(q, a)
      \/ ~Accepts(t) /\ loss_mask' = loss_mask /\ r = q
  BY <1>0, <1>1, SubmitSends DEF TestInv
<1>3. TypeOK /\ q \in Seq(Queued) /\ a.packet = n /\ queued \in Nat /\ n \in 1 .. n
  BY <1>1, DepartureType DEF TestInv, TypeOK, Link, Arriving
<1>4. a \in Queued
  <2>1. QueueTime(n, t) \in Nat /\ link.microsec_latency \in Nat
    BY <1>3, QueueTimeGrows DEF TypeOK, Link
  <2> QED
    BY <2>1 DEF Arriving, Queued
<1>5. /\ Under = {q[k].packet : k \in DOMAIN q} /\ Under' = {r[k].packet : k \in DOMAIN r} /\ Came' = Came
  BY <1>0 DEF Under, Came
<1>6. /\ Came \subseteq 1 .. queued /\ Under \subseteq 1 .. queued
      /\ \A k, l \in DOMAIN q : k < l => q[k].packet < q[l].packet
      /\ \A j \in Came, m \in Under : j < m
  BY DEF LossInv
<1> HIDE DEF a, q, r
<1>7. \/ r = q /\ Under' = Under
      \/ /\ r = Append(q, a) /\ Under' = Under \cup {n}
         /\ \A k, l \in DOMAIN r : k < l => r[k].packet < r[l].packet
  <2>1. CASE r = q
    BY <1>5, <2>1
  <2>2. CASE r = Append(q, a)
    <3>1. /\ DOMAIN r = DOMAIN q \cup {Len(q) + 1} /\ r[Len(q) + 1] = a /\ Len(q) \in Nat
          /\ \A k \in DOMAIN q : r[k] = q[k] /\ k \in Nat /\ k < Len(q) + 1
      BY <1>3, <1>4, <2>2, Appended
    <3>2. Under' = Under \cup {n}
      BY <1>3, <1>5, <3>1
    <3>3. \A k \in DOMAIN q : q[k].packet \in 1 .. queued
      BY <1>5, <1>6
    <3>4. \A k, l \in DOMAIN r : k < l => r[k].packet < r[l].packet
      BY <1>1, <1>3, <1>6, <3>1, <3>3
    <3> QED
      BY <2>2, <3>2, <3>4
  <2> QED
    BY <1>2, <2>1, <2>2
<1>8. \A k, l \in DOMAIN r : k < l => r[k].packet < r[l].packet
  BY <1>6, <1>7
<1>9. Came' \subseteq 1 .. queued' /\ Under' \subseteq 1 .. queued' /\ \A j \in Came', m \in Under' : j < m
  <2>1. /\ queued' = n /\ \A j \in 1 .. queued : j \in 1 .. n /\ j < n
        /\ Under' \subseteq Under \cup {n}
    BY <1>0, <1>1, <1>3, <1>7
  <2>2. Came' \subseteq 1 .. n /\ Under' \subseteq 1 .. n
    BY <1>3, <1>5, <1>6, <2>1
  <2>3. \A j \in Came', m \in Under' : j < m
    BY <1>5, <1>6, <2>1
  <2> QED
    BY <2>1, <2>2, <2>3
<1>10. Kept(n)' = Kept(n) /\ Rotated(pattern, n)' = Rotated(pattern, n)
  BY <1>0 DEF Kept, LostByPattern, Rotated
<1>11. ASSUME link.queue_delay_max = 0
       PROVE  loss_mask' = Rotated(pattern, n) /\ Came' \cup Under' = Kept(n)
  <2>1. Accepts(t) /\ loss_mask = Rotated(pattern, queued) /\ Came \cup Under = Kept(queued)
    BY <1>11 DEF Accepts, LossInv
  <2>2. pattern \in Seq(BOOLEAN)
    BY LinkAssumption DEF TestInv
  <2>3. /\ Rotated(pattern, queued) = <<>> <=> pattern = <<>>
        /\ pattern # <<>> => Rotated(pattern, queued)[1] = pattern[(queued % Len(pattern)) + 1]
        /\ Rotate(Rotated(pattern, queued)) = Rotated(pattern, n)
    BY <1>1, <1>3, <2>2, RotatedOnce
  <2>4. Lost <=> LostByPattern(n)
    <3>1. CASE pattern = <<>>
      BY <2>1, <2>3, <3>1 DEF Lost, LostByPattern
    <3>2. CASE pattern # <<>>
      <4>1. Len(pattern) \in Nat \ {0} /\ n - 1 = queued
        BY <1>1, <1>3, <2>2, <3>2
      <4>2. queued % Len(pattern) \in 0 .. Len(pattern) - 1
        BY <1>3, <4>1
      <4>3. 1 + ((n - 1) % Len(pattern)) = (queued % Len(pattern)) + 1
        BY <4>1, <4>2
      <4> QED
        BY <2>1, <2>3, <3>2, <4>3 DEF Lost, LostByPattern
    <3> QED
      BY <3>1, <3>2
  <2>5. /\ LostByPattern(n) => Kept(n) = Kept(queued)
        /\ ~LostByPattern(n) => Kept(n) = Kept(queued) \cup {n}
    <3>1. 1 .. n = (1 .. queued) \cup {n}
      BY <1>1, <1>3
    <3> QED
      BY <3>1 DEF Kept
  <2>6. r = IF Lost THEN q ELSE Append(q, a)
    BY <1>2, <2>1
  <2>7. Lost => Under' = Under
    BY <1>5, <2>6
  <2>8. ~Lost => Under' = Under \cup {n}
    <3>1. q # Append(q, a)
      BY <1>3, <1>4
    <3> QED
      BY <1>7, <2>6, <3>1
  <2> QED
    BY <1>2, <1>5, <2>1, <2>3, <2>4, <2>5, <2>7, <2>8
<1>12. /\ received' = received
       /\ \A k, l \in DOMAIN received : k < l => received[k] < received[l]
  BY <1>0 DEF LossInv
<1>13. link'.queue_delay_max = 0 =>
         loss_mask' = Rotated(pattern', queued') /\ Came' \cup Under' = Kept(n)'
  BY <1>0, <1>1, <1>10, <1>11
<1>14. queued' = n
  BY <1>0, <1>1
<1> QED
  BY <1>8, <1>9, <1>12, <1>13, <1>14 DEF LossInv, r

LEMMA LossSame ==
  ASSUME LossInv, UNCHANGED <<link, loss_mask, pattern, queued, received>>
  PROVE  LossInv'
<1>1. /\ Came' = Came /\ Under' = Under /\ Rotated(pattern, queued)' = Rotated(pattern, queued)
      /\ Kept(queued)' = Kept(queued)
  BY DEF Came, Under, Rotated, Kept, LostByPattern
<1> QED
  BY <1>1 DEF LossInv

LEMMA LossInvStep == TestInv /\ LossInv /\ [TestNext]_testvars => LossInv'
<1> SUFFICES ASSUME TestInv, LossInv, [TestNext]_testvars PROVE LossInv'
  OBVIOUS
<1>1. CASE Ends
  BY <1>1, EndsStep, LossSame
<1>2. CASE UNCHANGED testvars
  BY <1>2, LossSame DEF testvars
<1> QED
  BY <1>1, <1>2, LossArrival, LossDeparts DEF TestNext

\* What the test counts: when the loop ends exactly the packets that the pattern
\* names are missing, for patterns of any length and any number of packets.
THEOREM LossesAreThePattern == TestSpec => []LossesFollowPattern
<1>1. TestInv /\ LossInv => LossesFollowPattern
  <2> SUFFICES ASSUME TestInv, LossInv, ~running, link.queue_delay_max = 0
               PROVE  /\ \A k, l \in DOMAIN received : k < l => received[k] < received[l]
                      /\ {received[k] : k \in DOMAIN received} = {n \in 1 .. NbPackets : ~LostByPattern(n)}
    BY DEF LossesFollowPattern
  <2>1. link.packets = <<>> /\ queued = NbPackets
    BY DEF TestInv
  <2>2. Under = {}
    BY <2>1 DEF Under
  <2>3. Came = Kept(NbPackets)
    BY <2>1, <2>2 DEF LossInv
  <2> QED
    BY <2>3 DEF LossInv, Came, Kept
<1> QED
  BY <1>1, TestInvInit, TestInvStep, LossInit, LossInvStep, PTL DEF TestSpec

-----------------------------------------------------------------------------
(***************************************************************************)
(* The bound of the queue.                                                 *)
(***************************************************************************)

LEMMA DelayInit == TestInit => DelayBounded
<1> SUFFICES ASSUME TestInit PROVE DelayBounded
  OBVIOUS
<1>1. DOMAIN link.packets = {}
  BY DEF TestInit, NewLink
<1> QED
  BY <1>1 DEF DelayBounded

LEMMA DelayArrival ==
  ASSUME TestInv, DelayBounded, Arrival
  PROVE  DelayBounded'
<1>1. /\ link.packets # <<>> /\ link'.packets = Tail(link.packets)
      /\ link'.queue_delay_max = link.queue_delay_max
      /\ link'.microsec_latency = link.microsec_latency
      /\ link'.picosec_per_byte = link.picosec_per_byte
  BY ArrivalStep
<1>2. link.packets \in Seq(Queued)
  BY DEF TestInv, TypeOK, Link
<1>3. \A k \in DOMAIN link'.packets : k + 1 \in DOMAIN link.packets /\ link'.packets[k] = link.packets[k + 1]
  BY <1>1, <1>2, Shortened
<1>4. \A p : TransmitTime(p)' = TransmitTime(p)
  BY <1>1 DEF TransmitTime
<1> QED
  BY <1>1, <1>3, <1>4 DEF DelayBounded

LEMMA DelayDeparts ==
  ASSUME TestInv, DelayBounded, Departs
  PROVE  DelayBounded'
<1>1. /\ queued + 1 \in Packet /\ Interval * queued \in Nat /\ queued \in Nat
      /\ Submit(queued + 1, Interval * queued)
      /\ link'.queue_delay_max = link.queue_delay_max
      /\ link'.microsec_latency = link.microsec_latency
      /\ link'.picosec_per_byte = link.picosec_per_byte
  BY DepartsStep, DepartureType DEF TestInv
<1>2. PICK n \in Packet, t \in Nat : n = queued + 1 /\ t = Interval * queued
  BY <1>1
<1> DEFINE q == link.packets
           r == link'.packets
           a == Arriving(n, t)
<1>3. r = q \/ (Accepts(t) /\ r = Append(q, a))
  BY <1>1, <1>2, SubmitSends DEF TestInv
<1>4. /\ q \in Seq(Queued) /\ link.queue_time \in Nat /\ link.microsec_latency \in Nat
      /\ link.queue_delay_max \in Nat /\ TransmitTime(n) \in Nat /\ QueueTime(n, t) \in Nat
  BY QueueTimeGrows, SlotType DEF TestInv, TypeOK, Link
<1>5. a \in Queued /\ a.packet = n /\ a.arrival_time = QueueTime(n, t) + link.microsec_latency
  BY <1>4 DEF Arriving, Queued
<1>6. \A p : TransmitTime(p)' = TransmitTime(p)
  BY <1>1 DEF TransmitTime
<1>7. Interval * (n - 1) = t
  <2>1. n - 1 = queued
    BY <1>1, <1>2
  <2> QED
    BY <1>2, <2>1
<1>8. Accepts(t) /\ link.queue_delay_max # 0 =>
        a.arrival_time < Interval * (a.packet - 1) + link.queue_delay_max
                           + TransmitTime(a.packet) + link.microsec_latency
  BY <1>4, <1>5, <1>7 DEF Accepts, QueueTime, QueueDelay
<1> HIDE DEF q, r, a
<1> DEFINE Timely(p) == p.arrival_time < Interval * (p.packet - 1) + link.queue_delay_max
                                           + TransmitTime(p.packet) + link.microsec_latency
<1>9. link.queue_delay_max # 0 => \A k \in DOMAIN q : Timely(q[k])
  BY DEF DelayBounded, q
<1>10. Accepts(t) /\ link.queue_delay_max # 0 => Timely(a)
  BY <1>8
<1> HIDE DEF Timely
<1>11. link.queue_delay_max # 0 => \A k \in DOMAIN r : Timely(r[k])
  <2>1. CASE r = q
    BY <1>9, <2>1
  <2>2. CASE Accepts(t) /\ r = Append(q, a)
    <3>1. /\ DOMAIN r = DOMAIN q \cup {Len(q) + 1} /\ r[Len(q) + 1] = a
          /\ \A k \in DOMAIN q : r[k] = q[k]
      BY <1>4, <1>5, <2>2, Appended DEF q
    <3> QED
      BY <1>9, <1>10, <2>2, <3>1
  <2> QED
    BY <1>3, <2>1, <2>2
<1>12. \A p : p.arrival_time < Interval * (p.packet - 1) + link'.queue_delay_max
                                 + TransmitTime(p.packet)' + link'.microsec_latency <=> Timely(p)
  BY <1>1, <1>6 DEF Timely
<1> QED
  BY <1>1, <1>11, <1>12 DEF DelayBounded, r

\* No packet is delayed by the bound of the queue or more, whatever the rate, the
\* lengths and the bound.
THEOREM DelaysAreBounded == TestSpec => []DelayBounded
<1>2. ASSUME TestInv, DelayBounded, [TestNext]_testvars PROVE DelayBounded'
  <2>1. CASE Ends
    BY <1>2, <2>1, EndsStep DEF DelayBounded, TransmitTime
  <2>2. CASE UNCHANGED testvars
    BY <1>2, <2>2 DEF testvars, DelayBounded, TransmitTime
  <2> QED
    BY <1>2, <2>1, <2>2, DelayArrival, DelayDeparts DEF TestNext
<1>3. TestInv /\ DelayBounded /\ [TestNext]_testvars => DelayBounded'
  BY <1>2
<1> QED
  BY <1>3, DelayInit, TestInvInit, TestInvStep, PTL DEF TestSpec
=============================================================================
