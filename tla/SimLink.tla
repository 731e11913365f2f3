------------------------------ MODULE SimLink ------------------------------
(***************************************************************************)
(* The simulated link of the tests, sim_link.c: one direction, a data      *)
(* rate, a latency, a queue that may be bounded and a pattern of losses.   *)
(*                                                                         *)
(* The caller owns the clock and passes the time to each call; nothing     *)
(* makes it grow.  The pattern is a word of 64 bits that is rotated by     *)
(* each packet the link accepts; two links may share it.                   *)
(***************************************************************************)
EXTENDS Naturals, Sequences

CONSTANTS
  Packet,         \* the packets that may be submitted
  Length,         \* Length[p]: the bytes of a packet
  Time,           \* the times callers may pass
  Rate,           \* values of picosec_per_byte
  Latency,        \* values of microsec_latency
  DelayMax,       \* values of queue_delay_max
  Mask,           \* loss patterns
  MaxSubmits      \* bound: packets submitted

ASSUME LinkAssumption ==
  /\ Length \in [Packet -> Nat]
  /\ Time \subseteq Nat
  /\ Rate \subseteq Nat
  /\ Latency \subseteq Nat
  /\ DelayMax \subseteq Nat
  /\ Mask \subseteq Seq(BOOLEAN)
  /\ MaxSubmits \in Nat

VARIABLES
  link,           \* picoquictest_sim_link_t
  loss_mask       \* *link->loss_mask, last bit first; <<>> for a NULL pointer

Queued == [packet : Packet, arrival_time : Nat]

Link == [queue_time : Nat, queue_delay_max : Nat, picosec_per_byte : Nat, microsec_latency : Nat,
         packets_dropped : Nat, packets_sent : Nat, packets : Seq(Queued)]

TypeOK ==
  /\ link \in Link
  /\ loss_mask \in Seq(BOOLEAN)

\* picoquictest_sim_link_create.
NewLink(picosec_per_byte, microsec_latency, queue_delay_max, current_time) ==
  [queue_time |-> current_time, queue_delay_max |-> queue_delay_max,
   picosec_per_byte |-> picosec_per_byte, microsec_latency |-> microsec_latency,
   packets_dropped |-> 0, packets_sent |-> 0, packets |-> <<>>]

Init ==
  /\ \E rate \in Rate, latency \in Latency, max \in DelayMax, t \in Time :
        link = NewLink(rate, latency, max, t)
  /\ loss_mask \in Mask

-----------------------------------------------------------------------------

\* The arrival of the oldest packet, or current_time if that is earlier.
NextArrival(current_time) ==
  IF link.packets # <<>> /\ Head(link.packets).arrival_time < current_time
    THEN Head(link.packets).arrival_time
    ELSE current_time

Due(current_time) ==
  link.packets # <<>> /\ Head(link.packets).arrival_time <= current_time

RemovedNot(packets) == packets                             \* faulty: first_packet stays
Removed(packets) == Tail(packets)

\* picoquictest_sim_link_dequeue returns the packet of Head(link.packets).
Dequeue(current_time) ==
  /\ Due(current_time)
  /\ link' = [link EXCEPT !.packets = Removed(@)]
  /\ UNCHANGED loss_mask

\* picoquictest_sim_link_testloss: the last bit, which becomes the first one.
Lost == loss_mask # <<>> /\ loss_mask[1]
RotateShift(mask) == IF mask = <<>> THEN mask ELSE Append(Tail(mask), FALSE)  \* faulty: not put back
Rotate(mask) == IF mask = <<>> THEN mask ELSE Append(Tail(mask), Head(mask))

QueueDelay(current_time) ==
  IF current_time > link.queue_time THEN 0 ELSE link.queue_time - current_time

TransmitTime(packet) ==
  LET t == (link.picosec_per_byte * Length[packet]) \div 1048576 IN IF t = 0 THEN 1 ELSE t

AcceptsFull(current_time) ==                               \* faulty: off by one
  link.queue_delay_max = 0 \/ QueueDelay(current_time) <= link.queue_delay_max
Accepts(current_time) ==
  link.queue_delay_max = 0 \/ QueueDelay(current_time) < link.queue_delay_max

\* link->queue_time after the packet has been sent.
QueueTime(packet, current_time) == current_time + QueueDelay(current_time) + TransmitTime(packet)

ArrivingUnqueued(packet, current_time) ==                  \* faulty: the queue does not delay
  [packet |-> packet, arrival_time |-> current_time + TransmitTime(packet) + link.microsec_latency]
Arriving(packet, current_time) ==
  [packet |-> packet, arrival_time |-> QueueTime(packet, current_time) + link.microsec_latency]

\* "simulate congestion loss on queue full".
Congested == [link EXCEPT !.packets_dropped = @ + 1]

\* A packet that is lost on the link takes its time all the same.
Submit(packet, current_time) ==
  \/ /\ Accepts(current_time)
     /\ link' = [link EXCEPT !.queue_time = QueueTime(packet, current_time),
                             !.packets_dropped = IF Lost THEN @ + 1 ELSE @,
                             !.packets_sent = IF Lost THEN @ ELSE @ + 1,
                             !.packets = IF Lost THEN @ ELSE Append(@, Arriving(packet, current_time))]
     /\ loss_mask' = Rotate(loss_mask)
  \/ /\ ~Accepts(current_time)
     /\ link' = Congested
     /\ UNCHANGED loss_mask

\* Callers of any kind: the time of a call may be earlier than that of the last.
\* (SimLinkTest and TlsApiRound are two of them.)
Next ==
  \/ \E t \in Time : Dequeue(t)
  \/ /\ link.packets_sent + link.packets_dropped < MaxSubmits
     /\ \E p \in Packet, t \in Time : Submit(p, t)

vars == <<link, loss_mask>>
Spec == Init /\ [][Next]_vars

-----------------------------------------------------------------------------

\* Packets arrive in the order they were submitted, at different times, and
\* none later than the latency after the link is free, even when the clock of
\* the caller goes back.
ArrivalsOrdered ==
  LET q == link.packets IN
    /\ \A k, l \in DOMAIN q : k < l => q[k].arrival_time < q[l].arrival_time
    /\ \A k \in DOMAIN q : q[k].arrival_time <= link.queue_time + link.microsec_latency
=============================================================================
