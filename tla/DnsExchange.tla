---------------------------- MODULE DnsExchange ----------------------------
(***************************************************************************)
(* What the DNS/QUIC server promises to its clients, whatever the network  *)
(* does: every datagram it forwards to the resolver is an exchange of its  *)
(* own, and a stream is given at most one answer, the positive response to *)
(* one exchange, which no other stream is given.                           *)
(* It does NOT promise that the answer is to the query of the stream.      *)
(***************************************************************************)
EXTENDS Naturals

CONSTANTS
  Key,        \* the streams of all clients
  Content,    \* what a forwarded datagram may hold, queries and others
  Positive    \* the queries the resolver has a positive response to

VARIABLES
  asked,      \* the exchanges begun: numbered datagrams
  given       \* the exchanges whose response each stream was given

Init ==
  /\ asked = {}
  /\ given = [x \in Key |-> {}]

\* An exchange begins; its number is new.
Ask ==
  /\ \E e \in asked' \ asked :
       /\ e \in [n : Nat, q : Content]
       /\ \A f \in asked : f.n # e.n
       /\ asked' = asked \cup {e}
  /\ UNCHANGED given

\* Stream x, which has no answer, is given the response of a free exchange.
Give(x, e) ==
  /\ given[x] = {}
  /\ e \in asked
  /\ e.q \in Positive
  /\ \A y \in Key : e \notin given[y]
  /\ given' = [given EXCEPT ![x] = {e}]
  /\ UNCHANGED asked

Next ==
  \/ Ask
  \/ \E x \in Key : \E e \in asked : Give(x, e)

Spec == Init /\ [][Next]_<<asked, given>>
=============================================================================
