----------------------------- MODULE MCDemoMain -----------------------------
(***************************************************************************)
(* Words that are a name, a port and mtu, a port beyond every mtu, and a   *)
(* version that is no number.                                              *)
(***************************************************************************)
EXTENDS DemoMain

CONSTANTS host, n1400, n9000, hex

Words == {host, n1400, n9000, hex}
Numbers == (host :> 0) @@ (n1400 :> 1400) @@ (n9000 :> 9000) @@ (hex :> 0)
Versions == (host :> 0) @@ (n1400 :> 5120) @@ (n9000 :> 36864) @@ (hex :> 10)

Items ==
  {[option |-> f, words |-> <<>>, attached |-> FALSE] : f \in Flag}
    \cup {[option |-> o, words |-> <<w>>, attached |-> a] :
            o \in WithArgument \ {"i", "s"}, w \in Words, a \in BOOLEAN}
    \cup {[option |-> "s", words |-> <<n1400, n9000>>, attached |-> a] : a \in BOOLEAN}
    \cup {[option |-> "i", words |-> <<n1400, n9000, host>>, attached |-> a] : a \in BOOLEAN}

MCGiven ==
  [items : UNION {[1 .. n -> Items] : n \in 0 .. 2}, joined : BOOLEAN,
   names : {<<>>, <<host>>, <<host, n9000>>, <<host, hex>>}]
    \cup [items : [1 .. 3 -> {i \in Items : i.option \in {"1", "r", "p"} /\ host \notin Range(i.words)}],
          joined : {TRUE}, names : {<<host>>}]

\* Words of every kind: letters in any order, "-", "--", unknown letters.
Kinds ==
  {host, n1400}
    \cup {Dash(<<>>, o, a)[1] : o \in {"p", "s", "i", "v", "t"}, a \in {None, n1400}}
    \cup {Dash(l, None, None)[1] : l \in {<<>>, <<"1">>, <<"-">>, <<"?">>, <<"1", "-">>, <<"-", "z">>}}
    \cup {Dash(<<"r", "?">>, "s", None)[1]}

MCAnyLine == UNION {[1 .. n -> Kinds] : n \in 0 .. 3}
=============================================================================
