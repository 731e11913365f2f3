---------------------------- MODULE MCTlsApiRound ----------------------------
(***************************************************************************)
(* The links as tls_api_init_ctx makes them (0.01 gigabit/s, 10 ms).       *)
(***************************************************************************)
EXTENDS TlsApiRound

Sizes == {1440}
Masks == {<<>>, <<TRUE, FALSE>>, <<FALSE, TRUE, TRUE, FALSE>>}
Wakes == {0, 25000}
=============================================================================
