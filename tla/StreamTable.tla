---------------------------- MODULE StreamTable ----------------------------
(***************************************************************************)
(* What the callbacks of both endpoints promise, together, about the table *)
(* of streams they share: each stream ends once, and its end opens exactly *)
(* the streams that follow it, at once.                                    *)
(* test_finished does NOT promise that every stream is over: it tells      *)
(* whether the last stream to end had none following it.                   *)
(***************************************************************************)
EXTENDS Naturals, Sequences

CONSTANT
  Scenarios     \* the tables: stream_id and previous_stream_id of each stream

VARIABLES
  Scenario,     \* the table of this test
  opened,       \* the streams whose query has been given to the engine
  over,         \* the streams that have ended
  finished      \* the last stream to end had no followers

Followers(s) == {i \in DOMAIN Scenario : Scenario[i].previous_stream_id = s}

Init ==
  /\ Scenario \in Scenarios
  /\ opened = Followers(0)
  /\ over = {}
  /\ finished = (Followers(0) = {})

StreamEnds(i) ==
  /\ i \in opened \ over
  /\ over' = over \cup {i}
  /\ opened' = opened \cup Followers(Scenario[i].stream_id)
  /\ finished' = (Followers(Scenario[i].stream_id) = {})
  /\ UNCHANGED Scenario

Next == \E i \in opened : StreamEnds(i)

Spec == Init /\ [][Next]_<<Scenario, opened, over, finished>>
=============================================================================
