--------------------------- MODULE MCDnsOverQuic ---------------------------
(***************************************************************************)
(* One stub, a short query whose head is at the one offset and one with a  *)
(* zero id, whose head is at the other, whose bytes hold CR or LF when     *)
(* the second stream carries it.                                           *)
(***************************************************************************)
EXTENDS DnsOverQuic, TLC

CONSTANTS s4, s8, q1, q2

DemoScenario == <<s4, s8>>
DemoPrevious == [s \in Stream |-> IF s = s4 THEN None ELSE s4]
Offsets == (q1 :> {30}) @@ (q2 :> {26})
Ends == [x \in Carried |-> IF x = <<s8, q2>> THEN {1} ELSE {}]
============================================================================
