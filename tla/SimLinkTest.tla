---------------------------- MODULE SimLinkTest ----------------------------
(***************************************************************************)
(* sim_link_one_test of sim_link.c: the packets 1 .. NbPackets leave every *)
(* Interval microseconds; the clock follows whatever comes first, the next *)
(* arrival or the next departure.                                          *)
(***************************************************************************)
EXTENDS SimLink

CONSTANTS
  Interval,       \* between two departures
  Forever         \* (uint64_t)-1

\* nb_packets: the packets are numbered.
NbPackets == MaxSubmits

\* Forever is later than any arrival.
ASSUME TestAssumption ==
  /\ Interval \in Nat /\ Forever \in Nat
  /\ 1 .. NbPackets \subseteq Packet
  /\ \A p \in Packet, rate \in Rate, latency \in Latency :
       NbPackets * (Interval + (rate * Length[p]) \div 1048576 + 1) + latency <= Forever

VARIABLES
  pattern,            \* the loss pattern at the start
  running,            \* the loop has not ended
  current_time, departure_time,
  queued, dequeued,
  received            \* history: the packets dequeued, in order

testvars == <<link, loss_mask, pattern, running, current_time, departure_time, queued, dequeued, received>>

TestTypeOK ==
  /\ TypeOK
  /\ pattern \in Mask
  /\ running \in BOOLEAN
  /\ current_time \in Nat /\ departure_time \in Nat
  /\ queued \in 0 .. NbPackets /\ dequeued \in 0 .. queued
  /\ received \in Seq(Packet)

TestInit ==
  /\ \E rate \in Rate, latency \in Latency, max \in DelayMax : link = NewLink(rate, latency, max, 0)
  /\ loss_mask \in Mask
  /\ pattern = loss_mask
  /\ running = TRUE
  /\ current_time = 0
  /\ departure_time = 0
  /\ queued = 0
  /\ dequeued = 0
  /\ received = <<>>

\* When no packet is left, departure_time is (uint64_t)-1.
Departure == IF queued >= NbPackets THEN Forever ELSE departure_time

ClockOf(departure) == NextArrival(departure)

\* The head of the loop.
Tick ==
  /\ running
  /\ current_time' = ClockOf(Departure)
  /\ UNCHANGED pattern

Arrival ==
  /\ Tick
  /\ Dequeue(current_time')
  /\ dequeued' = dequeued + 1
  /\ received' = Append(received, Head(link.packets).packet)
  /\ departure_time' = Departure
  /\ UNCHANGED <<running, queued>>

Departs ==
  /\ Tick
  /\ ~Due(current_time')
  /\ queued < NbPackets
  /\ Submit(queued + 1, Departure)
  /\ departure_time' = Departure + Interval
  /\ queued' = queued + 1
  /\ UNCHANGED <<running, dequeued, received>>

Ends ==
  /\ Tick
  /\ ~Due(current_time')
  /\ queued >= NbPackets
  /\ running' = FALSE
  /\ departure_time' = Departure
  /\ UNCHANGED <<link, loss_mask, queued, dequeued, received>>

TestNext == Arrival \/ Departs \/ Ends

TestSpec == TestInit /\ [][TestNext]_testvars

-----------------------------------------------------------------------------

\* The pattern decides about packet n, again from its start after its last bit.
LostByPattern(n) == pattern # <<>> /\ pattern[1 + ((n - 1) % Len(pattern))]

\* sim_link_test: without a bound of the queue, exactly the packets that the
\* pattern names are lost and the others arrive in order, each once.
LossesFollowPattern ==
  ~running /\ link.queue_delay_max = 0 =>
    /\ \A k, l \in DOMAIN received : k < l => received[k] < received[l]
    /\ {received[k] : k \in DOMAIN received} = {n \in 1 .. NbPackets : ~LostByPattern(n)}

\* A queue with a bound delays no packet by the bound or more, apart from its
\* own transmission and the latency.
DelayBounded ==
  link.queue_delay_max # 0 =>
    \A k \in DOMAIN link.packets :
      LET p == link.packets[k] IN
        p.arrival_time < Interval * (p.packet - 1) + link.queue_delay_max
                           + TransmitTime(p.packet) + link.microsec_latency
=============================================================================
