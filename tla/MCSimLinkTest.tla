--------------------------- MODULE MCSimLinkTest ---------------------------
(***************************************************************************)
(* The test with the numbers of sim_link_one_test, and more patterns.      *)
(***************************************************************************)
EXTENDS SimLinkTest, FiniteSets

\* nb_packets of one size, sizeof(packet->bytes).
Packets == 1 .. MaxSubmits
Lengths == [p \in Packets |-> 1536]

\* A link of 0.01 Gbps, in picoseconds per byte.
Rates == {800000}

Bits(n, ones) == [k \in 1 .. n |-> (k - 1) \in ones]

\* The three masks of sim_link_test (0, 8 and 0x18); all words of 5 bits, which
\* the packets go through more than three times.
Patterns == {Bits(64, {}), Bits(64, {3}), Bits(64, {3, 4})} \cup {Bits(5, ones) : ones \in SUBSET (0 .. 4)}
=============================================================================
