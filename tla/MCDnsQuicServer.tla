-------------------------- MODULE MCDnsQuicServer --------------------------
(***************************************************************************)
(* Instances of DnsQuicServer for TLC.                                     *)
(***************************************************************************)
EXTENDS DnsQuicServer, TLC, FiniteSetsExt

CONSTANTS c1, c2, s4, s8, q1, q2, q3

Chunks(q, lens, crlfs) ==
  [k \in DOMAIN lens |-> [q |-> q, len |-> lens[k], crlf |-> k \in crlfs]]

\* Every packet with at most one frame; the data of a head chunk starts at the
\* offset 26.  A packet without data may be too short to reach offset 30, and a
\* stray datagram to reach offset 26.
Control == {[cnx |-> c, kind |-> k, frames |-> <<>>, off |-> 0, size |-> 40] :
              c \in Conn, k \in {"data", "close"}}
Short(c) == {[cnx |-> c, kind |-> "data", frames |-> <<>>, off |-> 0, size |-> 30],
             [cnx |-> c, kind |-> "stray", frames |-> <<>>, off |-> 0, size |-> 26]}
Frames(c) == {<<s, k>> : s \in Stream, k \in 1 .. 3}
DataFrames(c) == {f \in Frames(c) : f[2] \in DOMAIN Content[c, f[1]]}
Single(c, offs) ==
  {[cnx |-> c, kind |-> "data", frames |-> <<f>>, off |-> o, size |-> 1200] :
     f \in DataFrames(c), o \in offs}
Aborts(c) ==
  {[cnx |-> c, kind |-> k, frames |-> <<f>>, off |-> 0, size |-> 40] :
     f \in {g \in DataFrames(c) : g[2] = 1}, k \in {"reset", "stop"}}
Double(c) ==
  {[cnx |-> c, kind |-> "data", frames |-> <<<<s, 1>>, <<s, 2>>>>, off |-> 26, size |-> 1200] :
     s \in Stream}

\* "any": c1 sends a request with a line feed in its head; c2 sends one that
\* is too long for command by its last byte, and one of a single packet.
AnyContent ==
  [x \in Key |-> IF x = <<c1, s4>> THEN Chunks(q1, <<3, 2>>, {1})
                 ELSE IF x = <<c2, s4>> THEN Chunks(q2, <<3, 5, 1>>, {})
                 ELSE IF x = <<c2, s8>> THEN Chunks(q2, <<2>>, {}) ELSE <<>>]
AnyPackets ==
  Control \cup Short(c1) \cup UNION {Single(c, {26}) \cup Aborts(c) : c \in Conn}
    \cup {p \in Double(c1) : p.frames[1][1] = s4}

\* "reset": two requests of one client, the second with a line feed in its head.
ResetContent ==
  [x \in Key |-> IF x = <<c1, s4>> THEN Chunks(q1, <<3, 1>>, {}) ELSE Chunks(q2, <<3, 1>>, {1})]
ResetPackets == UNION {Single(c, {26}) : c \in Conn}

BytesSeen(x) == MapThenSumSet(LAMBDA k : Content[x][k].len, 1 .. delivered[x])

\* picoquicdemo.c:311 "send after fin, or too many bytes => reset!": without
\* aborts and failures, a stream is reset for one of these causes only.  No
\* client sends after FIN here, so the bytes seen must be too many.
ResetOnlyAfterFinOrTooLong ==
  \A x \in Key : reset_sent[x] => BytesSeen(x) > CommandMax - 1
============================================================================
