--------------------------- MODULE SimLinkProofs ---------------------------
(***************************************************************************)
(* Theorems about SimLink, for any packets, rates, latencies, patterns and *)
(* for callers whose clock goes anywhere.                                  *)
(***************************************************************************)
EXTENDS SimLink, Integers, TLAPS

LEMMA NewLinkType ==
  ASSUME NEW rate \in Nat, NEW latency \in Nat, NEW max \in Nat, NEW t \in Nat
  PROVE  NewLink(rate, latency, max, t) \in Link
BY DEF NewLink, Link

\* A packet takes some time to transmit.
LEMMA TransmitPositive ==
  ASSUME TypeOK, NEW p \in Packet
  PROVE  TransmitTime(p) \in Nat \ {0}
<1>1. link.picosec_per_byte \in Nat /\ Length[p] \in Nat
  BY LinkAssumption DEF TypeOK, Link
<1>2. link.picosec_per_byte * Length[p] \in Nat
  BY <1>1
<1> DEFINE t == (link.picosec_per_byte * Length[p]) \div 1048576
<1>3. t \in Nat
  BY <1>2
<1> HIDE DEF t
<1>4. TransmitTime(p) = IF t = 0 THEN 1 ELSE t
  BY DEF TransmitTime, t
<1> QED
  BY <1>3, <1>4

\* Each accepted packet moves queue_time, whatever the clock says.
LEMMA QueueTimeGrows ==
  ASSUME TypeOK, NEW p \in Packet, NEW t \in Nat
  PROVE  QueueTime(p, t) \in Nat /\ QueueTime(p, t) > link.queue_time
<1>1. link.queue_time \in Nat /\ t \in Nat /\ TransmitTime(p) \in Nat \ {0}
  BY TransmitPositive, LinkAssumption DEF TypeOK, Link
<1> QED
  BY <1>1 DEF QueueTime, QueueDelay

LEMMA LinkInit == Init => TypeOK /\ ArrivalsOrdered
<1> SUFFICES ASSUME Init PROVE TypeOK /\ ArrivalsOrdered
  OBVIOUS
<1>1. PICK rate \in Rate, latency \in Latency, max \in DelayMax, t \in Time :
        link = NewLink(rate, latency, max, t)
  BY DEF Init
<1>2. link \in Link
  BY <1>1, NewLinkType, LinkAssumption
<1>3. link.packets = <<>>
  BY <1>1 DEF NewLink
<1> QED
  BY <1>2, <1>3, LinkAssumption DEF Init, TypeOK, ArrivalsOrdered

LEMMA DequeueStep ==
  ASSUME TypeOK, ArrivalsOrdered, NEW t \in Nat, Dequeue(t)
  PROVE  (TypeOK /\ ArrivalsOrdered)'
<1> DEFINE q == link.packets
<1>1. q \in Seq(Queued) /\ q # <<>>
  BY DEF Dequeue, Due, TypeOK, Link
<1>2. link' = [link EXCEPT !.packets = Tail(q)] /\ UNCHANGED loss_mask
  BY DEF Dequeue, Removed
<1>3. Tail(q) \in Seq(Queued)
  BY <1>1
<1>4. link' \in Link /\ link'.packets = Tail(q) /\ link'.queue_time = link.queue_time
      /\ link'.microsec_latency = link.microsec_latency
  BY <1>2, <1>3 DEF TypeOK, Link
<1>5. \A k \in DOMAIN Tail(q) : k + 1 \in DOMAIN q /\ Tail(q)[k] = q[k + 1] /\ k \in Nat
  BY <1>1
<1>6. ArrivalsOrdered'
  <2> DEFINE r == Tail(q)
  <2>1. \A k \in DOMAIN r : k + 1 \in DOMAIN q /\ r[k] = q[k + 1] /\ k \in Nat
    BY <1>5
  <2>2. \A k, l \in DOMAIN q : k < l => q[k].arrival_time < q[l].arrival_time
    BY DEF ArrivalsOrdered
  <2>3. \A k \in DOMAIN q : q[k].arrival_time <= link.queue_time + link.microsec_latency
    BY DEF ArrivalsOrdered
  <2>4. link'.packets = r
    BY <1>4
  <2> HIDE DEF q, r
  <2>5. \A k, l \in DOMAIN r : k < l => r[k].arrival_time < r[l].arrival_time
    BY <2>1, <2>2
  <2>6. \A k \in DOMAIN r : r[k].arrival_time <= link.queue_time + link.microsec_latency
    BY <2>1, <2>3
  <2> QED
    BY <1>4, <2>4, <2>5, <2>6 DEF ArrivalsOrdered
<1> QED
  BY <1>2, <1>4, <1>6 DEF TypeOK

\* The fields of the link after a packet is lost, and after it is sent.
LEMMA LinkAfterLoss ==
  ASSUME NEW time \in Nat, link \in Link,
         link' = [link EXCEPT !.queue_time = time, !.packets_dropped = @ + 1]
  PROVE  /\ link' \in Link /\ link'.packets = link.packets /\ link'.queue_time = time
         /\ link'.microsec_latency = link.microsec_latency
<1>1. link.packets_dropped + 1 \in Nat
  BY DEF Link
<1> QED
  BY <1>1 DEF Link

LEMMA LinkAfterSend ==
  ASSUME NEW time \in Nat, NEW list \in Seq(Queued), link \in Link,
         link' = [link EXCEPT !.queue_time = time, !.packets_sent = @ + 1, !.packets = list]
  PROVE  /\ link' \in Link /\ link'.packets = list /\ link'.queue_time = time
         /\ link'.microsec_latency = link.microsec_latency
<1>1. link.packets_sent + 1 \in Nat
  BY DEF Link
<1> QED
  BY <1>1 DEF Link

LEMMA SubmitStep ==
  ASSUME TypeOK, ArrivalsOrdered, NEW p \in Packet, NEW t \in Nat, Submit(p, t)
  PROVE  (TypeOK /\ ArrivalsOrdered)'
<1> DEFINE q == link.packets
           a == Arriving(p, t)
<1>0. /\ link \in Link /\ q \in Seq(Queued) /\ link.queue_time \in Nat /\ link.microsec_latency \in Nat
      /\ link.packets_dropped \in Nat /\ link.packets_sent \in Nat
  BY DEF TypeOK, Link
<1>1. QueueTime(p, t) \in Nat /\ QueueTime(p, t) > link.queue_time
  BY QueueTimeGrows
<1>2. a \in Queued /\ a.arrival_time = QueueTime(p, t) + link.microsec_latency
  BY <1>0, <1>1 DEF Arriving, Queued
<1>3. \A k \in DOMAIN q : q[k] \in Queued /\ q[k].arrival_time \in Nat
  <2>1. \A k \in DOMAIN q : q[k] \in Queued
    BY <1>0
  <2> QED
    BY <2>1 DEF Queued
<1>4. \A k \in DOMAIN q : q[k].arrival_time < a.arrival_time
  BY <1>0, <1>1, <1>2, <1>3 DEF ArrivalsOrdered
<1>5. Rotate(loss_mask) \in Seq(BOOLEAN)
  <2>1. loss_mask \in Seq(BOOLEAN)
    BY DEF TypeOK
  <2>2. CASE loss_mask # <<>>
    <3>1. Head(loss_mask) \in BOOLEAN /\ Tail(loss_mask) \in Seq(BOOLEAN)
      BY <2>1, <2>2
    <3> QED
      BY <2>1, <2>2, <3>1 DEF Rotate
  <2> QED
    BY <2>1, <2>2 DEF Rotate
<1>6. CASE /\ link' = [link EXCEPT !.queue_time = QueueTime(p, t), !.packets_dropped = @ + 1]
           /\ loss_mask' = Rotate(loss_mask)
  <2>1. link' \in Link /\ link'.packets = q /\ link'.queue_time = QueueTime(p, t)
        /\ link'.microsec_latency = link.microsec_latency
    <3>1. link \in Link /\ QueueTime(p, t) \in Nat
      BY <1>0, <1>1
    <3>2. link' = [link EXCEPT !.queue_time = QueueTime(p, t), !.packets_dropped = @ + 1]
      BY <1>6
    <3> QED
      BY ONLY <3>1, <3>2, LinkAfterLoss
  <2>2. ArrivalsOrdered'
    BY <1>0, <1>1, <1>3, <2>1 DEF ArrivalsOrdered
  <2> QED
    BY <1>5, <1>6, <2>1, <2>2 DEF TypeOK
<1>7. CASE /\ link' = [link EXCEPT !.queue_time = QueueTime(p, t), !.packets_sent = @ + 1,
                                   !.packets = Append(q, a)]
           /\ loss_mask' = Rotate(loss_mask)
  <2>0. Append(q, a) \in Seq(Queued)
    BY <1>0, <1>2
  <2>1. link' \in Link /\ link'.packets = Append(q, a) /\ link'.queue_time = QueueTime(p, t)
        /\ link'.microsec_latency = link.microsec_latency
    <3> DEFINE time == QueueTime(p, t)
               list == Append(q, a)
    <3>1. time \in Nat /\ list \in Seq(Queued) /\ link \in Link
      BY <1>0, <1>1, <2>0
    <3>2. link' = [link EXCEPT !.queue_time = time, !.packets_sent = @ + 1, !.packets = list]
      BY <1>7
    <3> HIDE DEF time, list
    <3>3. link' \in Link /\ link'.packets = list /\ link'.queue_time = time
          /\ link'.microsec_latency = link.microsec_latency
      BY ONLY <3>1, <3>2, LinkAfterSend
    <3> QED
      BY <3>3 DEF time, list
  <2>2. /\ DOMAIN Append(q, a) = DOMAIN q \cup {Len(q) + 1}
        /\ \A k \in DOMAIN q : Append(q, a)[k] = q[k] /\ k \in Nat /\ k < Len(q) + 1
        /\ Append(q, a)[Len(q) + 1] = a
        /\ Len(q) \in Nat
    BY <1>0
  <2>3. ArrivalsOrdered'
    <3> DEFINE r == Append(q, a)
    <3> HIDE DEF r, a, q
    <3>0. /\ DOMAIN r = DOMAIN q \cup {Len(q) + 1} /\ r[Len(q) + 1] = a /\ Len(q) \in Nat
          /\ \A k \in DOMAIN q : r[k] = q[k] /\ k \in Nat /\ k < Len(q) + 1
      BY <2>2 DEF r
    <3>1. ASSUME NEW k \in DOMAIN r, NEW l \in DOMAIN r, k < l
          PROVE  r[k].arrival_time < r[l].arrival_time
      <4>1. k \in DOMAIN q
        BY <3>0, <3>1
      <4>2. CASE l \in DOMAIN q
        BY <3>0, <3>1, <4>1, <4>2 DEF ArrivalsOrdered, q
      <4>3. CASE l = Len(q) + 1
        BY <1>4, <3>0, <4>1, <4>3
      <4> QED
        BY <3>0, <4>2, <4>3
    <3>2. ASSUME NEW k \in DOMAIN r
          PROVE  r[k].arrival_time <= QueueTime(p, t) + link.microsec_latency
      <4>1. CASE k \in DOMAIN q
        <5>1. r[k].arrival_time <= link.queue_time + link.microsec_latency
          BY <3>0, <4>1 DEF ArrivalsOrdered, q
        <5>2. r[k].arrival_time \in Nat
          BY <1>3, <3>0, <4>1
        <5> QED
          BY <1>0, <1>1, <5>1, <5>2
      <4>2. CASE k = Len(q) + 1
        BY <1>0, <1>1, <1>2, <3>0, <4>2
      <4> QED
        BY <3>0, <4>1, <4>2
    <3>3. link'.packets = r
      BY <2>1 DEF r
    <3> QED
      BY <2>1, <3>1, <3>2, <3>3 DEF ArrivalsOrdered
  <2> QED
    BY <1>5, <1>7, <2>1, <2>3 DEF TypeOK
<1>8. CASE link' = Congested /\ UNCHANGED loss_mask
  <2>1. link' \in Link /\ link'.packets = q /\ link'.queue_time = link.queue_time
        /\ link'.microsec_latency = link.microsec_latency
    BY <1>0, <1>8 DEF Congested, Link
  <2>2. ArrivalsOrdered'
    BY <2>1 DEF ArrivalsOrdered
  <2> QED
    BY <1>8, <2>1, <2>2 DEF TypeOK
<1>9. CASE Lost
  BY <1>0, <1>6, <1>8, <1>9 DEF Submit, Link
<1>10. CASE ~Lost
  BY <1>0, <1>7, <1>8, <1>10 DEF Submit, Link
<1> QED
  BY <1>9, <1>10

\* A submission leaves the packets of the link alone; one it adds arrives later.
LEMMA SubmitLater ==
  ASSUME TypeOK, NEW p \in Packet, NEW t \in Nat, Submit(p, t)
  PROVE  \/ link'.packets = link.packets
         \/ /\ link'.packets = Append(link.packets, Arriving(p, t))
            /\ Arriving(p, t).arrival_time \in Nat
            /\ Arriving(p, t).arrival_time > t
<1>1. /\ link \in Link /\ link.queue_time \in Nat /\ link.microsec_latency \in Nat /\ t \in Nat
  BY LinkAssumption DEF TypeOK, Link
<1>2. TransmitTime(p) \in Nat \ {0}
  BY TransmitPositive
<1>3. QueueTime(p, t) \in Nat /\ QueueTime(p, t) > t
  BY <1>1, <1>2 DEF QueueTime, QueueDelay
<1>4. Arriving(p, t).arrival_time = QueueTime(p, t) + link.microsec_latency
  BY DEF Arriving
<1>5. Arriving(p, t).arrival_time \in Nat /\ Arriving(p, t).arrival_time > t
  BY <1>1, <1>3, <1>4
<1>6. link'.packets = link.packets \/ link'.packets = Append(link.packets, Arriving(p, t))
  BY <1>1 DEF Submit, Congested, Link
<1> QED
  BY <1>5, <1>6

\* picoquictest_sim_link_next_arrival is not later than any packet of the link.
LEMMA NextArrivalFirst ==
  ASSUME TypeOK, ArrivalsOrdered, NEW t \in Nat
  PROVE  /\ NextArrival(t) \in Nat /\ NextArrival(t) <= t
         /\ NextArrival(t) = t \/ \E k \in DOMAIN link.packets : NextArrival(t) = link.packets[k].arrival_time
         /\ \A k \in DOMAIN link.packets : NextArrival(t) <= link.packets[k].arrival_time
<1> DEFINE q == link.packets
<1>1. q \in Seq(Queued)
  BY DEF TypeOK, Link
<1>2. \A k \in DOMAIN q : q[k].arrival_time \in Nat
  <2>1. \A k \in DOMAIN q : q[k] \in Queued
    BY <1>1
  <2> QED
    BY <2>1 DEF Queued
<1>3. \A k, l \in DOMAIN q : k < l => q[k].arrival_time < q[l].arrival_time
  BY DEF ArrivalsOrdered
<1>4. NextArrival(t) = IF q # <<>> /\ Head(q).arrival_time < t THEN Head(q).arrival_time ELSE t
  BY DEF NextArrival
<1> HIDE DEF q
<1>5. CASE q = <<>>
  BY <1>4, <1>5 DEF q
<1>6. CASE q # <<>>
  <2>1. 1 \in DOMAIN q /\ Head(q) = q[1] /\ \A k \in DOMAIN q : k \in Nat /\ (k = 1 \/ 1 < k)
    BY <1>1, <1>6
  <2>2. \A k \in DOMAIN q : q[1].arrival_time <= q[k].arrival_time
    BY <1>2, <1>3, <2>1
  <2>3. \A k \in DOMAIN q : NextArrival(t) <= q[k].arrival_time
    BY <1>2, <1>4, <1>6, <2>1, <2>2
  <2>4. NextArrival(t) \in Nat /\ NextArrival(t) <= t
        /\ (NextArrival(t) = t \/ NextArrival(t) = q[1].arrival_time)
    BY <1>2, <1>4, <1>6, <2>1
  <2> QED
    BY <2>1, <2>3, <2>4 DEF q
<1> QED
  BY <1>5, <1>6

\* What is left after picoquictest_sim_link_dequeue was there before.
LEMMA DequeueLeaves ==
  ASSUME TypeOK, NEW t \in Nat, Dequeue(t)
  PROVE  \A k \in DOMAIN link'.packets :
           k + 1 \in DOMAIN link.packets /\ link'.packets[k] = link.packets[k + 1]
<1>1. link.packets \in Seq(Queued) /\ link.packets # <<>>
  BY DEF Dequeue, Due, TypeOK, Link
<1>2. link'.packets = Tail(link.packets)
  BY DEF Dequeue, Removed, TypeOK, Link
<1> QED
  BY <1>1, <1>2

\* Without a bound of its queue the link drops what the pattern names, only.
LEMMA SubmitCounts ==
  ASSUME TypeOK, NEW p \in Packet, NEW t \in Nat, Submit(p, t), link.queue_delay_max = 0
  PROVE  /\ link'.queue_delay_max = 0
         /\ loss_mask' = Rotate(loss_mask)
         /\ link'.packets_dropped = link.packets_dropped + IF Lost THEN 1 ELSE 0
         /\ link'.packets_sent = link.packets_sent + IF Lost THEN 0 ELSE 1
         /\ link.packets_dropped \in Nat /\ link.packets_sent \in Nat
<1>1. Accepts(t)
  BY DEF Accepts
<1>2. link \in Link /\ link.packets_dropped \in Nat /\ link.packets_sent \in Nat
  BY DEF TypeOK, Link
<1> DEFINE time == QueueTime(p, t)
           list == IF Lost THEN link.packets ELSE Append(link.packets, Arriving(p, t))
<1>3. /\ loss_mask' = Rotate(loss_mask)
      /\ link' = [link EXCEPT !.queue_time = time,
                              !.packets_dropped = IF Lost THEN @ + 1 ELSE @,
                              !.packets_sent = IF Lost THEN @ ELSE @ + 1,
                              !.packets = list]
  BY <1>1 DEF Submit
<1> HIDE DEF time, list
<1> QED
  BY <1>2, <1>3 DEF Link

LEMMA DequeueCounts ==
  ASSUME TypeOK, NEW t \in Nat, Dequeue(t)
  PROVE  /\ link'.queue_delay_max = link.queue_delay_max
         /\ link'.packets_dropped = link.packets_dropped
         /\ link'.packets_sent = link.packets_sent
BY DEF Dequeue, TypeOK, Link

\* What a submission makes of the time at which the link is free.
LEMMA SubmitTime ==
  ASSUME TypeOK, NEW p \in Packet, NEW t \in Nat, Submit(p, t)
  PROVE  /\ link'.picosec_per_byte = link.picosec_per_byte
         /\ link'.microsec_latency = link.microsec_latency
         /\ link'.queue_delay_max = link.queue_delay_max
         /\ \/ link'.queue_time = link.queue_time
            \/ link'.queue_time = link.queue_time + TransmitTime(p)
            \/ link'.queue_time = t + TransmitTime(p)
<1>1. link \in Link /\ link.queue_time \in Nat
  BY DEF TypeOK, Link
<1>2. TransmitTime(p) \in Nat
  BY TransmitPositive
<1> DEFINE time == QueueTime(p, t)
           list == IF Lost THEN link.packets ELSE Append(link.packets, Arriving(p, t))
<1>3. time = link.queue_time + TransmitTime(p) \/ time = t + TransmitTime(p)
  BY <1>1, <1>2 DEF QueueTime, QueueDelay
<1>4. CASE link' = [link EXCEPT !.queue_time = time,
                                !.packets_dropped = IF Lost THEN @ + 1 ELSE @,
                                !.packets_sent = IF Lost THEN @ ELSE @ + 1,
                                !.packets = list]
  <2> HIDE DEF time, list
  <2> QED
    BY <1>1, <1>3, <1>4 DEF Link
<1>5. CASE link' = Congested
  BY <1>1, <1>5 DEF Congested, Link
<1> QED
  BY <1>4, <1>5 DEF Submit

\* A packet is sent unless the pattern or the bound of the queue stops it.
LEMMA SubmitSends ==
  ASSUME TypeOK, NEW p \in Packet, NEW t \in Nat, Submit(p, t)
  PROVE  \/ /\ Accepts(t)
            /\ loss_mask' = Rotate(loss_mask)
            /\ link'.queue_time = QueueTime(p, t)
            /\ link'.packets = IF Lost THEN link.packets ELSE Append(link.packets, Arriving(p, t))
         \/ /\ ~Accepts(t)
            /\ loss_mask' = loss_mask
            /\ link'.queue_time = link.queue_time
            /\ link'.packets = link.packets
<1>1. link \in Link
  BY DEF TypeOK
<1> DEFINE time == QueueTime(p, t)
           list == IF Lost THEN link.packets ELSE Append(link.packets, Arriving(p, t))
<1>2. CASE Accepts(t)
  <2>1. /\ loss_mask' = Rotate(loss_mask)
        /\ link' = [link EXCEPT !.queue_time = time,
                                !.packets_dropped = IF Lost THEN @ + 1 ELSE @,
                                !.packets_sent = IF Lost THEN @ ELSE @ + 1,
                                !.packets = list]
    BY <1>2 DEF Submit
  <2> HIDE DEF time, list
  <2>2. link'.queue_time = time /\ link'.packets = list
    BY <1>1, <2>1 DEF Link
  <2> QED
    BY <1>2, <2>1, <2>2 DEF time, list
<1>3. CASE ~Accepts(t)
  <2>1. link' = Congested /\ loss_mask' = loss_mask
    BY <1>3 DEF Submit
  <2>2. link'.queue_time = link.queue_time /\ link'.packets = link.packets
    BY <1>1, <2>1 DEF Congested, Link
  <2> QED
    BY <1>3, <2>1, <2>2
<1> QED
  BY <1>2, <1>3

LEMMA DequeueTime ==
  ASSUME TypeOK, NEW t \in Nat, Dequeue(t)
  PROVE  /\ link'.picosec_per_byte = link.picosec_per_byte
         /\ link'.microsec_latency = link.microsec_latency
         /\ link'.queue_delay_max = link.queue_delay_max
         /\ link'.queue_time = link.queue_time
BY DEF Dequeue, TypeOK, Link

-----------------------------------------------------------------------------
(***************************************************************************)
(* The pattern goes round.                                                 *)
(***************************************************************************)

\* The rest of a division is the only one.
LEMMA OneRest ==
  ASSUME NEW L \in Nat \ {0}, NEW q \in Nat, NEW r \in 0 .. L - 1, NEW p \in Nat, NEW s \in 0 .. L - 1,
         L * q + r = L * p + s
  PROVE  r = s
<1>1. CASE q = p
  <2>1. L * q = L * p
    BY <1>1
  <2> QED
    BY <2>1
<1>2. CASE q < p
  <2>1. PICK d \in Nat : p = q + 1 + d
    <3>1. p - q - 1 \in Nat /\ p = q + 1 + (p - q - 1)
      BY <1>2
    <3> QED
      BY <3>1
  <2>2. L * p = L * q + L + L * d /\ L * d \in Nat
    BY <2>1
  <2> QED
    BY <2>2
<1>3. CASE p < q
  <2>1. PICK d \in Nat : q = p + 1 + d
    <3>1. q - p - 1 \in Nat /\ q = p + 1 + (q - p - 1)
      BY <1>3
    <3> QED
      BY <3>1
  <2>2. L * q = L * p + L + L * d /\ L * d \in Nat
    BY <2>1
  <2> QED
    BY <2>2
<1> QED
  BY <1>1, <1>2, <1>3

LEMMA RestOfLess ==
  ASSUME NEW L \in Nat \ {0}, NEW n \in 0 .. L - 1
  PROVE  n % L = n
<1> DEFINE q == n \div L  r == n % L
<1>1. q \in Nat /\ r \in 0 .. L - 1 /\ n = L * q + r
  OBVIOUS
<1> HIDE DEF q, r
<1>2. L * 0 + n = L * q + r
  BY <1>1
<1>3. n = r
  BY <1>1, <1>2, OneRest
<1> QED
  BY <1>3 DEF r

LEMMA PatternPeriod ==
  ASSUME NEW L \in Nat \ {0}, NEW t \in Nat
  PROVE  (t + L) % L = t % L
<1> DEFINE q == t \div L  r == t % L  p == (t + L) \div L  s == (t + L) % L
<1>1. q \in Nat /\ r \in 0 .. L - 1 /\ t = L * q + r
  OBVIOUS
<1>2. p \in Nat /\ s \in 0 .. L - 1 /\ t + L = L * p + s
  <2>1. t + L \in Nat
    OBVIOUS
  <2> QED
    BY <2>1
<1> HIDE DEF q, r, p, s
<1>3. q + 1 \in Nat /\ L * (q + 1) = L * q + L
  BY <1>1
<1>4. L * q \in Int /\ L * p \in Int
  BY <1>1, <1>2
<1>5. L * (q + 1) + r = L * p + s
  BY <1>1, <1>2, <1>3, <1>4
<1>6. r = s
  BY <1>1, <1>2, <1>3, <1>5, OneRest
<1> QED
  BY <1>6 DEF r, s

\* A pattern after n packets.
Rotated(mask, n) == [k \in DOMAIN mask |-> mask[((n + k - 1) % Len(mask)) + 1]]

LEMMA RotatedNone ==
  ASSUME NEW mask \in Seq(BOOLEAN)
  PROVE  Rotated(mask, 0) = mask
<1>1. \A k \in DOMAIN mask : mask[((0 + k - 1) % Len(mask)) + 1] = mask[k]
  <2> TAKE k \in DOMAIN mask
  <2>1. Len(mask) \in Nat \ {0} /\ k \in 1 .. Len(mask)
    OBVIOUS
  <2>2. PICK n \in 0 .. Len(mask) - 1 : n = 0 + k - 1
    BY <2>1
  <2>3. n % Len(mask) = n /\ n + 1 = k
    BY <2>1, <2>2, RestOfLess
  <2> QED
    BY <2>2, <2>3
<1>2. mask = [k \in DOMAIN mask |-> mask[k]]
  OBVIOUS
<1> QED
  BY <1>1, <1>2 DEF Rotated

LEMMA RotatedOnce ==
  ASSUME NEW mask \in Seq(BOOLEAN), NEW n \in Nat
  PROVE  /\ Rotated(mask, n) = <<>> <=> mask = <<>>
         /\ mask # <<>> => Rotated(mask, n)[1] = mask[(n % Len(mask)) + 1]
         /\ Rotate(Rotated(mask, n)) = Rotated(mask, n + 1)
<1> DEFINE L == Len(mask)
           m == Rotated(mask, n)
<1>1. L \in Nat /\ DOMAIN mask = 1 .. L
  OBVIOUS
<1>2. CASE mask = <<>>
  <2>1. \A j \in Nat : DOMAIN Rotated(mask, j) = {}
    BY <1>2 DEF Rotated
  <2>2. \A j \in Nat : Rotated(mask, j) = <<>>
    BY <2>1 DEF Rotated
  <2> QED
    BY <1>2, <2>2 DEF Rotate
<1>3. CASE mask # <<>>
  <2>1. L \in Nat \ {0}
    BY <1>1, <1>3
  <2>2. \A k \in 1 .. L : (n + k - 1) % L \in 0 .. L - 1
    <3> TAKE k \in 1 .. L
    <3>1. n + k - 1 \in Nat
      BY <2>1
    <3> QED
      BY <2>1, <3>1
  <2>3. \A k \in 1 .. L : m[k] = mask[((n + k - 1) % L) + 1] /\ m[k] \in BOOLEAN
    BY <1>1, <2>2 DEF Rotated
  <2>4. DOMAIN m = 1 .. L
    BY <1>1 DEF Rotated
  <2>5. m \in Seq(BOOLEAN) /\ Len(m) = L
    <3>1. m \in [1 .. L -> BOOLEAN]
      BY <2>3, <2>4 DEF Rotated
    <3> QED
      BY <2>1, <3>1
  <2>6. m # <<>> /\ m[1] = mask[(n % L) + 1]
    <3>1. n + 1 - 1 = n /\ 1 \in 1 .. L
      BY <2>1
    <3> QED
      BY <2>3, <2>5, <3>1
  <2> HIDE DEF m
  <2> DEFINE a == Append(Tail(m), Head(m))
  <2>7. a \in Seq(BOOLEAN) /\ Len(a) = L
        /\ \A k \in 1 .. L : a[k] = IF k < L THEN m[k + 1] ELSE m[1]
    BY <2>1, <2>5, <2>6
  <2> HIDE DEF a
  <2>8. (n + L) % L = n % L
    BY <2>1, PatternPeriod
  <2>9. \A k \in 1 .. L : a[k] = mask[(((n + 1) + k - 1) % L) + 1]
    <3> TAKE k \in 1 .. L
    <3>1. CASE k < L
      <4>1. k + 1 \in 1 .. L /\ n + (k + 1) - 1 = (n + 1) + k - 1
        BY <2>1, <3>1
      <4> QED
        BY <2>3, <2>7, <3>1, <4>1
    <3>2. CASE k = L
      <4>1. (n + 1) + k - 1 = n + L
        BY <2>1, <3>2
      <4> QED
        BY <2>1, <2>6, <2>7, <2>8, <3>2, <4>1
    <3> QED
      BY <2>1, <3>1, <3>2
  <2>10. a = [k \in 1 .. L |-> a[k]]
    BY <2>7
  <2>11. a = Rotated(mask, n + 1)
    BY <1>1, <2>9, <2>10 DEF Rotated
  <2>12. Rotate(m) = a
    BY <2>6 DEF Rotate, a
  <2> QED
    BY <1>3, <2>6, <2>11, <2>12 DEF m
<1> QED
  BY <1>2, <1>3

-----------------------------------------------------------------------------

LEMMA LinkStep == TypeOK /\ ArrivalsOrdered /\ [Next]_vars => (TypeOK /\ ArrivalsOrdered)'
<1> SUFFICES ASSUME TypeOK, ArrivalsOrdered, [Next]_vars PROVE (TypeOK /\ ArrivalsOrdered)'
  OBVIOUS
<1>1. CASE UNCHANGED vars
  BY <1>1 DEF vars, TypeOK, ArrivalsOrdered
<1>2. ASSUME NEW t \in Time, Dequeue(t) PROVE (TypeOK /\ ArrivalsOrdered)'
  BY <1>2, DequeueStep, LinkAssumption
<1>3. ASSUME NEW p \in Packet, NEW t \in Time, Submit(p, t) PROVE (TypeOK /\ ArrivalsOrdered)'
  BY <1>3, SubmitStep, LinkAssumption
<1> QED
  BY <1>1, <1>2, <1>3 DEF Next

\* Packets stay in order on the link and arrive one after the other, whatever
\* their lengths, the losses and the clock of the caller.
THEOREM LinkKeepsOrder == Spec => [](TypeOK /\ ArrivalsOrdered)
BY LinkInit, LinkStep, PTL DEF Spec
=============================================================================
