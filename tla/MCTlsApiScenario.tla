-------------------------- MODULE MCTlsApiScenario --------------------------
(***************************************************************************)
(* Scenarios shaped like those of tls_api_test.c, in few pieces.           *)
(***************************************************************************)
EXTENDS TlsApiScenario

Row(id, previous, q, r) ==
  [stream_id |-> id, previous_stream_id |-> previous, q_len |-> q, r_len |-> r]

\* test_scenario_q2_and_r2 and a stream that follows its second stream.
TwoQueries == <<Row(4, 0, 1, 1), Row(8, 0, 1, 1), Row(12, 8, 1, 0)>>

\* test_scenario_unidir: a client's and a server's stream without response.
Unidirectional == <<Row(2, 0, 2, 0), Row(3, 0, 2, 0)>>

\* test_scenario_stop_sending.
StopScenario == <<Row(4, 0, 1, 2), Row(8, 4, 1, 1)>>

\* The same table without the stop: each stream follows the one before it.
Chain == <<Row(4, 0, 2, 1), Row(8, 4, 1, 2)>>

All == {TwoQueries, Unidirectional, StopScenario, Chain}
StopOnly == {StopScenario}
Plain == {Unidirectional}
=============================================================================
