------------------------------ MODULE SackTest ------------------------------
(***************************************************************************)
(* The tests of received packet numbers, sacktest.c: sacktest, sendacktest *)
(* with its parser of ack frames, and ackrange_test.                       *)
(*                                                                         *)
(* External: the sack list of the engine, here the set of numbers it has.  *)
(* A call of it may err: give the wrong answer, lose a number or take up   *)
(* one too many; and an ack frame may have wrong fields.  The tests are    *)
(* oracles: they must notice that, and must accept an engine without fault.*)
(***************************************************************************)
EXTENDS Integers, Sequences, FiniteSets, SequencesExt

CONSTANTS
  MaxErrors,      \* bound: calls of the sack list that err
  MaxEdits        \* bound: fields of one ack frame that are wrong

\* The packet numbers in the order of arrival, what the frame after each of them
\* must say, and the ranges of ackrange_test.
test_pn64 == <<3, 4, 2, 7, 8, 11, 12, 13, 17, 19, 21, 18, 16, 20, 10, 5, 6, 9, 1, 14, 15>>

Expect(highest, range, blocks) ==
  [highest_received |-> highest, last_range |-> range, num_blocks |-> blocks]
expected_ack ==
  <<Expect(3, 0, 0), Expect(4, 1, 0), Expect(4, 2, 0), Expect(7, 0, 1), Expect(8, 1, 1),
    Expect(11, 0, 2), Expect(12, 1, 2), Expect(13, 2, 2), Expect(17, 0, 3), Expect(19, 0, 4),
    Expect(21, 0, 5), Expect(21, 0, 4), Expect(21, 0, 4), Expect(21, 5, 3), Expect(21, 5, 3),
    Expect(21, 5, 3), Expect(21, 5, 2), Expect(21, 5, 1), Expect(21, 5, 1), Expect(21, 5, 1),
    Expect(21, 20, 0)>>

Between(min, max) == [range_min |-> min, range_max |-> max]
ack_range ==
  <<Between(0, 1000), Between(3001, 4000), Between(4001, 5000), Between(6001, 7000),
    Between(5001, 6000), Between(1501, 2500), Between(501, 1500), Between(501, 7500)>>

ASSUME ErrorAssumption == MaxErrors \in Nat /\ MaxEdits \in Nat

Length == [sacktest |-> Len(test_pn64), sendacktest |-> Len(test_pn64), ackrange_test |-> Len(ack_range)]

\* A range is a set of pieces, each named by its first number.
Number == Range(test_pn64) \cup {0, 22, 23}
Piece == {r.range_min : r \in Range(ack_range)} \cup {r.range_max + 1 : r \in Range(ack_range)}
In(r) == {n \in Piece : r.range_min <= n /\ n <= r.range_max}
Known(t) == IF t = "ackrange_test" THEN Piece ELSE Number

VARIABLES
  test, pc,
  i, j,                 \* the loops; for the inner one j = 0 is its start
  ret,
  highest_seen, highest_seen_time,
  blockmax,
  received,             \* engine: the numbers in its list
  largest_time,         \* engine: time_stamp_largest_received
  frame,                \* engine: the ack frame
  errors, edits         \* the errors of its calls; how many fields are wrong

own == <<highest_seen, highest_seen_time>>
engine == <<received, largest_time, blockmax>>
vars == <<test, pc, i, j, ret, own, engine, frame, errors, edits>>

NoFrame == [whole |-> FALSE, largest |-> 0, last_range |-> 0, num_block |-> 0, blocks |-> <<>>]

Init ==
  /\ test \in DOMAIN Length
  /\ pc = "record"
  /\ i = 1 /\ j = 0
  /\ ret = 0
  /\ highest_seen = 0 /\ highest_seen_time = 0
  /\ blockmax = 0
  /\ received = {} /\ largest_time = 0
  /\ frame = NoFrame
  /\ errors = <<>> /\ edits = 0

-----------------------------------------------------------------------------
(***************************************************************************)
(* The engine.                                                             *)
(***************************************************************************)

\* What a call may answer and leave in the list, and the errors with it.
Erring(kind, says, keeps) == [says |-> says, keeps |-> keeps, erred |-> Append(errors, kind)]
Call(truth, S) ==
  {[says |-> truth, keeps |-> S, erred |-> errors]} \cup
  IF Len(errors) = MaxErrors THEN {}
  ELSE {Erring("answer", ~truth, S)}
         \cup {Erring("loss", truth, S \ {n}) : n \in S}
         \cup {Erring("surplus", truth, S \cup {n}) : n \in Known(test) \ S}
Ask(truth) == {c \in Call(truth, received) : c.keeps = received}
Record(n) == Call(n \in received, received \cup {n})
Errors == Seq({"answer", "loss", "surplus"})

\* The ranges of S without a gap: the last numbers, counted from the highest, and
\* the first number of the range that ends with t.
Tops(S) == {n \in S : n + 1 \notin S}
Top(S, k) == CHOOSE t \in Tops(S) : Cardinality({u \in Tops(S) : u >= t}) = k
Bottom(S, t) == CHOOSE b \in S : b <= t /\ b - 1 \notin S /\ b .. t \subseteq S

\* The frame for the numbers of S: blocks from the top, in the draft's terms.
FrameOf(S) ==
  LET hi(k) == Top(S, k)
      lo(k) == Bottom(S, Top(S, k))
      n == Cardinality(Tops(S)) - 1
  IN  [whole |-> TRUE, largest |-> hi(1), last_range |-> hi(1) - lo(1), num_block |-> n,
       blocks |-> [k \in 1 .. n |-> [gap |-> lo(k) - 1 - hi(k + 1), range |-> hi(k + 1) - lo(k + 1) + 1]]]

\* The frames with one field wrong; whole: of the right type, not cut short.
Near(n) == {m \in {n - 1, n + 1, n + 64} : m >= 0}
NearBlock(b) == {[b EXCEPT !.gap = n] : n \in Near(b.gap)} \cup {[b EXCEPT !.range = n] : n \in Near(b.range)}
Edited(f) ==
  {[f EXCEPT !.whole = FALSE]}
    \cup {[f EXCEPT !.largest = n] : n \in Near(f.largest)}
    \cup {[f EXCEPT !.last_range = n] : n \in Near(f.last_range)}
    \cup {[f EXCEPT !.num_block = n] : n \in Near(f.num_block)}
    \cup {[f EXCEPT !.blocks = RemoveAt(@, k)] : k \in DOMAIN f.blocks}
    \cup {[f EXCEPT !.blocks = Append(@, [gap |-> g, range |-> r])] : g \in {0, 1}, r \in {0, 1}}
    \cup (UNION {{[f EXCEPT !.blocks[k] = b] : b \in NearBlock(f.blocks[k])} : k \in DOMAIN f.blocks})

-----------------------------------------------------------------------------
(***************************************************************************)
(* sacktest, and the part of its loop that sendacktest shares.             *)
(***************************************************************************)

Fails == ret' = -1 /\ pc' = "end"

MoreOffByOne == i <= Length[test]              \* faulty: reads past the table
More == i < Length[test]

\* The number of this round is new.
RecordNew ==
  /\ pc = "record" /\ test # "ackrange_test"
  /\ LET n == test_pn64[i] IN
       /\ IF test = "sacktest" /\ n > highest_seen
            THEN highest_seen' = n /\ highest_seen_time' = i
            ELSE UNCHANGED own
       /\ largest_time' = IF \A m \in received : n > m THEN i ELSE largest_time
       /\ \E c \in Record(n) :
            /\ received' = c.keeps
            /\ errors' = c.erred
            /\ IF c.says THEN Fails
               ELSE pc' = (IF test = "sacktest" THEN "old" ELSE "prepare") /\ UNCHANGED ret
  /\ UNCHANGED <<test, i, j, blockmax, frame, edits>>

\* The numbers of this round and the ones before: they are known, and recording
\* one again says so.
BothKnownOnce(a, c) == a.says                  \* faulty: what recording answers is not looked at
BothKnown(a, c) == a.says /\ c.says
CheckOld ==
  /\ pc = "old" /\ j < i
  /\ \E a \in Ask(test_pn64[j + 1] \in received), c \in Record(test_pn64[j + 1]) :
       /\ received' = c.keeps
       /\ \/ a.erred = errors /\ errors' = c.erred
          \/ c.erred = errors /\ errors' = a.erred
       /\ IF BothKnown(a, c) THEN j' = j + 1 /\ UNCHANGED <<pc, ret>> ELSE Fails /\ UNCHANGED j
  /\ UNCHANGED <<test, i, own, largest_time, blockmax, frame, edits>>

OldDone ==
  /\ pc = "old" /\ j = i
  /\ pc' = "new" /\ j' = i
  /\ UNCHANGED <<test, i, ret, own, engine, frame, errors, edits>>

\* The numbers to come are not known.
CheckNew ==
  /\ pc = "new" /\ j < Len(test_pn64)
  /\ \E a \in Ask(test_pn64[j + 1] \in received) :
       /\ errors' = a.erred
       /\ IF a.says THEN Fails /\ UNCHANGED j ELSE j' = j + 1 /\ UNCHANGED <<pc, ret>>
  /\ UNCHANGED <<test, i, own, engine, frame, edits>>

-----------------------------------------------------------------------------
(***************************************************************************)
(* sendacktest and basic_ack_parse.                                        *)
(***************************************************************************)

PrepareAck ==
  /\ pc = "prepare"
  /\ pc' = "parse"
  /\ frame' = IF received = {} THEN NoFrame ELSE FrameOf(received)
  /\ edits' = 0
  /\ UNCHANGED <<test, i, j, ret, own, engine, errors>>

\* Only for a faultless list: a wrong field may make up for a wrong list.
WrongField ==
  /\ pc = "parse" /\ edits < MaxEdits
  /\ errors = <<>>
  /\ frame' \in Edited(frame)
  /\ edits' = edits + 1
  /\ UNCHANGED <<test, pc, i, j, ret, own, engine, errors>>

\* A mask is the set of its bits; highest counts down modulo 2^64.
ack_range_maskShort(mask, highest, range) ==   \* faulty: one bit less
  mask \cup {(highest - k) % 64 : k \in 0 .. range - 2}
ack_range_mask(mask, highest, range) == mask \cup {(highest - k) % 64 : k \in 0 .. range - 1}

\* One round of the loop over the blocks.
ParseBlock(p, b) ==
  IF p.ret # 0 \/ b.gap > p.gap_begin \/ p.gap_begin - b.gap < b.range THEN [p EXCEPT !.ret = -1]
  ELSE [p EXCEPT !.acked_mask = ack_range_mask(@, p.gap_begin - b.gap, b.range),
                 !.gap_begin = @ - b.gap - b.range]

\* What has been read before the loop and after each of its rounds.
Start(f) ==
  [acked_mask |-> ack_range_mask({}, f.largest, f.last_range + 1),
   gap_begin |-> f.largest - f.last_range - 1, ret |-> 0]
Parsed(f) ==
  LET p[k \in 0 .. Len(f.blocks)] == IF k = 0 THEN Start(f) ELSE ParseBlock(p[k - 1], f.blocks[k])
  IN  p[Len(f.blocks)]

received_mask == {test_pn64[k] % 64 : k \in 1 .. i}

\* Fewer blocks than announced end the frame too early, more are left over.
AcceptsUnmasked(f) ==                          \* faulty: without the comparison of the masks
  f.whole /\ f.last_range < f.largest /\ f.num_block = Len(f.blocks)
    /\ f.largest = expected_ack[i].highest_received
    /\ f.last_range = expected_ack[i].last_range /\ f.num_block = expected_ack[i].num_blocks
Accepts(f) ==
  /\ f.whole
  /\ f.last_range < f.largest
  /\ f.num_block = Len(f.blocks)
  /\ f.largest = expected_ack[i].highest_received
  /\ f.last_range = expected_ack[i].last_range
  /\ f.num_block = expected_ack[i].num_blocks
  /\ Parsed(f).ret = 0 /\ Parsed(f).acked_mask = received_mask

Parse ==
  /\ pc = "parse"
  /\ IF Accepts(frame)
       THEN i' = i + 1 /\ pc' = (IF More THEN "record" ELSE "end") /\ UNCHANGED ret
       ELSE Fails /\ UNCHANGED i
  /\ UNCHANGED <<test, j, own, engine, frame, errors, edits>>

-----------------------------------------------------------------------------
(***************************************************************************)
(* ackrange_test.                                                          *)
(***************************************************************************)

\* picoquic_check_sack_list, then picoquic_update_sack_list; j = 1: both done.
AddRange ==
  /\ pc = "record" /\ test = "ackrange_test"
  /\ \E c \in Call(In(ack_range[i]) \subseteq received, received \cup In(ack_range[i])) :
       /\ errors' = c.erred
       /\ IF c.says THEN Fails /\ UNCHANGED <<received, blockmax, j>>
          ELSE /\ received' = c.keeps
               /\ blockmax' = ack_range[i].range_max
               /\ pc' = "ranges" /\ j' = 1
               /\ UNCHANGED ret
  /\ UNCHANGED <<test, i, own, largest_time, frame, edits>>

\* The ranges before are known.
CheckRange ==
  /\ pc = "ranges" /\ j < i
  /\ \E a \in Ask(In(ack_range[j]) \subseteq received) :
       /\ errors' = a.erred
       /\ IF a.says THEN j' = j + 1 /\ UNCHANGED <<pc, ret>> ELSE Fails /\ UNCHANGED j
  /\ UNCHANGED <<test, i, own, engine, frame, edits>>

-----------------------------------------------------------------------------
(***************************************************************************)
(* The end of a round and of a test with a list.                           *)
(***************************************************************************)

RoundDone ==
  /\ \/ pc = "new" /\ j = Len(test_pn64)
     \/ pc = "ranges" /\ j = i
  /\ i' = i + 1 /\ j' = 0
  /\ pc' = IF More THEN "record" ELSE "final"
  /\ UNCHANGED <<test, ret, own, engine, frame, errors, edits>>

\* The list is one item, from its first to its last number.
OneItem(from, to) == received = {n \in Known(test) : from <= n /\ n <= to}

Verified ==
  IF test = "sacktest" THEN OneItem(1, 21) /\ largest_time = highest_seen_time
  ELSE OneItem(0, 7500) /\ blockmax = 7500

Final ==
  /\ pc = "final"
  /\ pc' = "end"
  /\ ret' = IF Verified THEN 0 ELSE -1
  /\ UNCHANGED <<test, i, j, own, engine, frame, errors, edits>>

Ended == pc = "end" /\ UNCHANGED vars

Next ==
  \/ RecordNew \/ CheckOld \/ OldDone \/ CheckNew
  \/ PrepareAck \/ WrongField \/ Parse
  \/ AddRange \/ CheckRange
  \/ RoundDone \/ Final \/ Ended

Spec == Init /\ [][Next]_vars

-----------------------------------------------------------------------------
(***************************************************************************)
(* Properties.                                                             *)
(***************************************************************************)

TypeOK ==
  /\ test \in DOMAIN Length
  /\ pc \in {"record", "old", "new", "prepare", "parse", "ranges", "final", "end"}
  /\ i \in 1 .. Length[test] + 1
  /\ (pc \notin {"final", "end"} => i <= Length[test])
  /\ j \in 0 .. Len(test_pn64)
  /\ ret \in {0, -1}
  /\ received \in SUBSET Known(test)
  /\ errors \in Errors /\ edits \in 0 .. MaxEdits

\* The tables, the order of the calls and the parser agree with an engine that
\* does not err: none of the tests fails.
FaultlessPasses == errors = <<>> /\ edits = 0 => ret = 0

\* No single error of the sack list stays unnoticed to the end of the test: it
\* fails, be it by a later round, by a frame or by the last checks.  ackrange_test
\* finds wrong answers only: its last range, which covers those of the round
\* before, may repair a loss or justify a surplus.
ErrorsAreFound ==
  pc = "end" /\ ret = 0 /\ Len(errors) <= 1 =>
    Range(errors) \subseteq (IF test = "ackrange_test" THEN {"loss", "surplus"} ELSE {})

\* The only frame that the parser accepts is the right one for the numbers that
\* have arrived, with adjacent, empty, surplus and shifted blocks told apart.
AcceptedIsRight ==
  pc = "parse" /\ Accepts(frame) => frame = FrameOf({test_pn64[k] : k \in 1 .. i})
=============================================================================
