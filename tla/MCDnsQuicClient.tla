-------------------------- MODULE MCDnsQuicClient --------------------------
(***************************************************************************)
(* Instances of DnsQuicClient for TLC.                                     *)
(***************************************************************************)
EXTENDS DnsQuicClient, TLC

CONSTANTS s1, s4, s8, s12, q1, q2

\* The head of test_scenario and two of the five streams that follow stream 4.
DemoScenario == <<s4, s8, s12>>
DemoScenarioShort == <<s4, s8>>
DemoPrevious == [s \in Stream |-> IF s \in {s8, s12} THEN s4 ELSE None]
============================================================================
