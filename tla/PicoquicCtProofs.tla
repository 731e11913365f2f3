------------------------- MODULE PicoquicCtProofs ---------------------------
(***************************************************************************)
(* Theorems about picoquic_ct: its runner of tests, PicoquicT, for any     *)
(* table of tests and any command line; and the tests of received packet   *)
(* numbers and ack frames that it runs, SackTest, for any number of errors *)
(* of the engine and of wrong fields.                                      *)
(***************************************************************************)
EXTENDS PicoquicT, SackTest, FiniteSetTheorems, WellFoundedInduction, TLAPS

-----------------------------------------------------------------------------
(***************************************************************************)
(* The runner.                                                             *)
(***************************************************************************)

LEMMA TestsType == nb_tests \in Nat /\ \A t \in 1 .. nb_tests : test_table[t] \in Name
BY TableAssumption DEF nb_tests, Name

LEMMA NumbersType ==
  ASSUME NEW name
  PROVE  Numbers(name) \subseteq 1 .. nb_tests
BY DEF Numbers

LEMMA LineType ==
  ASSUME NEW S, NEW n \in Nat, NEW l \in UpTo(S, n)
  PROVE  l \in Seq(S)
BY DEF UpTo

RunnerInv == RunnerTypeOK /\ (main_ret # 0 <=> failed > 0 \/ stage = "no_memory")

LEMMA RunnerStart == RunnerInit => RunnerInv
<1> SUFFICES ASSUME RunnerInit PROVE RunnerInv
  OBVIOUS
<1>1. options \in Seq(Opt) /\ names \in Seq(Name)
  BY LineType, TableAssumption DEF RunnerInit
<1> QED
  BY <1>1, TestsType DEF RunnerInit, NoMemory, RunnerInv, RunnerTypeOK

\* A test adds to the tests tried, and to the failures if it fails.
LEMMA OneTest ==
  ASSUME RunnerTypeOK, NEW t \in 1 .. nb_tests, DoOneTest(t)
  PROVE  /\ tried' \in Seq(1 .. nb_tests) /\ failed' \in 0 .. Len(tried') /\ main_ret' \in {0, -1}
         /\ (main_ret # 0 <=> failed > 0) => (main_ret' # 0 <=> failed' > 0)
<1>1. PICK result \in {0, -1} :
        /\ tried' = Append(tried, t)
        /\ failed' = IF result = 0 THEN failed ELSE failed + 1
        /\ main_ret' = IF result = 0 THEN main_ret ELSE -1
  BY DEF DoOneTest
<1>2. tried' \in Seq(1 .. nb_tests) /\ Len(tried') = Len(tried) + 1 /\ Len(tried) \in Nat
  BY <1>1 DEF RunnerTypeOK
<1> QED
  BY <1>1, <1>2 DEF RunnerTypeOK

LEMMA RunnerStep == RunnerInv /\ [RunnerNext]_runnervars => RunnerInv'
<1> SUFFICES ASSUME RunnerInv, [RunnerNext]_runnervars PROVE RunnerInv'
  OBVIOUS
<1> USE DEF RunnerInv
<1>0. nb_tests \in Nat
  BY TestsType
<1>1. CASE Exclude
  <2>1. options' \in Seq(Opt) /\ is_excluded' \in [1 .. nb_tests -> BOOLEAN]
    BY <1>1 DEF Exclude, RunnerTypeOK
  <2>2. printed' \subseteq 1 .. nb_tests
    BY <1>1 DEF Exclude, RunnerTypeOK, Listed
  <2> QED
    BY <1>1, <2>1, <2>2 DEF Exclude, RunnerTypeOK
<1>2. CASE Help
  <2>1. options' \in Seq(Opt) /\ printed' \subseteq 1 .. nb_tests
    BY <1>2 DEF Help, RunnerTypeOK, Listed
  <2> QED
    BY <1>2, <2>1 DEF Help, RunnerTypeOK
<1>3. CASE OptionsDone \/ AllDone \/ NamedDone
  BY <1>3 DEF OptionsDone, AllDone, NamedDone, RunnerTypeOK, line
<1>4. CASE RunAll
  <2>1. next \in 1 .. nb_tests /\ next' \in 1 .. nb_tests + 1
    BY <1>0, <1>4 DEF RunAll, RunnerTypeOK
  <2>2. CASE ~Selected(next)
    BY <1>4, <2>1, <2>2 DEF RunAll, RunnerTypeOK, line
  <2>3. CASE Selected(next)
    BY <1>4, <2>1, <2>3, OneTest DEF RunAll, RunnerTypeOK, line
  <2> QED
    BY <2>2, <2>3
<1>5. CASE RunNamed
  <2>1. names' \in Seq(Name)
    BY <1>5 DEF RunNamed, RunnerTypeOK
  <2>2. CASE UNCHANGED <<stage, tried, failed, main_ret>> /\ printed' = Listed
    BY <1>5, <2>1, <2>2 DEF RunNamed, RunnerTypeOK, Listed
  <2>3. CASE UNCHANGED printed /\ stage' = "end" /\ \E t \in Numbers(Head(names)) : DoOneTest(t)
    <3>1. PICK t \in 1 .. nb_tests : DoOneTest(t)
      BY <2>3, NumbersType
    <3> QED
      BY <1>5, <2>1, <2>3, <3>1, OneTest DEF RunNamed, RunnerTypeOK
  <2> QED
    BY <1>5, <2>2, <2>3 DEF RunNamed
<1>6. CASE UNCHANGED runnervars
  BY <1>6 DEF runnervars, line, RunnerTypeOK
<1> QED
  BY <1>1, <1>2, <1>3, <1>4, <1>5, <1>6 DEF RunnerNext, RunnerEnded

LEMMA RunnerInvariant == RunnerSpec => []RunnerInv
BY RunnerStart, RunnerStep, PTL DEF RunnerSpec

\* The loop over the tests stays in the table, with any options and names, and
\* no more tests are counted as failed than were started.
THEOREM RunnerTypeCorrect == RunnerSpec => []RunnerTypeOK
<1>1. RunnerInv => RunnerTypeOK
  BY DEF RunnerInv
<1> QED
  BY <1>1, RunnerInvariant, PTL

\* For any number of tests and any results the exit code is that of a failure
\* exactly if a test has failed, or none was run for want of memory.
THEOREM ExitTells == RunnerSpec => []ExitTellsFailure
<1>1. RunnerInv => ExitTellsFailure
  BY DEF RunnerInv, ExitTellsFailure
<1> QED
  BY <1>1, RunnerInvariant, PTL

-----------------------------------------------------------------------------
(***************************************************************************)
(* Which tests run.                                                        *)
(***************************************************************************)

\* How many options, and names, have been looked at.
Looked == Len(given) - Len(options)
Tried == Len(named) - Len(names)

\* The command line is read from the front; a test is excluded if one of the
\* options read names it; the tests tried are those before next not excluded,
\* or the one that a name asked for.
AskedInv ==
  /\ Len(options) <= Len(given) /\ \A k \in DOMAIN options : options[k] = given[k + Looked]
  /\ Len(names) <= Len(named) /\ \A k \in DOMAIN names : names[k] = named[k + Tried]
  /\ \A t \in 1 .. nb_tests :
       is_excluded[t] <=> \E k \in 1 .. Looked : given[k][1] = "x" /\ given[k][2] = test_table[t]
  /\ stage \in {"all", "named", "end"} => options = <<>>
  /\ stage \in {"options", "named"} => tried = <<>>
  /\ stage \in {"options", "all"} => names = named
  /\ stage = "options" => next = 1
  /\ stage \in {"all", "named"} => (stage = "all" <=> named = <<>>)
  /\ stage = "all" =>
       /\ \A k, l \in DOMAIN tried : k < l => tried[k] < tried[l]
       /\ {tried[k] : k \in DOMAIN tried} = {t \in 1 .. next - 1 : ~is_excluded[t]}
  /\ RunsAsAsked

LEMMA AskedInit == RunnerInit => AskedInv
<1> SUFFICES ASSUME RunnerInit PROVE AskedInv
  OBVIOUS
<1>1. options \in Seq(Opt) /\ names \in Seq(Name)
  BY LineType, TableAssumption DEF RunnerInit
<1>2. Looked = 0 /\ Tried = 0
  BY <1>1 DEF RunnerInit, Looked, Tried
<1> QED
  BY <1>1, <1>2 DEF RunnerInit, NoMemory, AskedInv, RunsAsAsked

\* Looking at the next option.
LEMMA OptionStep ==
  ASSUME RunnerTypeOK, AskedInv, stage = "options", options # <<>>, options' = Tail(options),
         UNCHANGED <<stage, names, given, named, next, tried>>,
         \A t \in 1 .. nb_tests :
           is_excluded'[t] <=> is_excluded[t] \/ (Head(options)[1] = "x" /\ Head(options)[2] = test_table[t])
  PROVE  AskedInv'
<1> DEFINE d == Looked
<1>1. options \in Seq(Opt) /\ given \in Seq(Opt) /\ Len(options) \in Nat \ {0} /\ Len(given) \in Nat
  BY DEF RunnerTypeOK
<1>2. /\ Len(options') = Len(options) - 1 /\ Looked' = d + 1 /\ d \in Nat
      /\ \A k \in DOMAIN options' : k + 1 \in DOMAIN options /\ options'[k] = options[k + 1] /\ k \in Nat
  BY <1>1 DEF Looked, AskedInv
<1>3. Head(options) = given[d + 1]
  BY <1>1, <1>2 DEF AskedInv
<1>4. \A k \in DOMAIN options' : options'[k] = given[k + Looked']
  BY <1>2 DEF AskedInv
<1>5. \A t \in 1 .. nb_tests :
        is_excluded'[t] <=> \E k \in 1 .. Looked' : given[k][1] = "x" /\ given[k][2] = test_table[t]
  <2> TAKE t \in 1 .. nb_tests
  <2>1. is_excluded[t] <=> \E k \in 1 .. d : given[k][1] = "x" /\ given[k][2] = test_table[t]
    BY DEF AskedInv
  <2>2. 1 .. Looked' = (1 .. d) \cup {d + 1}
    BY <1>2
  <2> HIDE DEF d
  <2> QED
    BY <1>3, <2>1, <2>2
<1>6. /\ Len(options') <= Len(given')
      /\ Tried' = Tried /\ RunsAsAsked'
  BY <1>1, <1>2 DEF AskedInv, Tried, RunsAsAsked
<1> QED
  BY <1>1, <1>2, <1>4, <1>5, <1>6 DEF AskedInv

LEMMA AskedStep == RunnerTypeOK /\ AskedInv /\ [RunnerNext]_runnervars => AskedInv'
<1> SUFFICES ASSUME RunnerTypeOK, AskedInv, [RunnerNext]_runnervars PROVE AskedInv'
  OBVIOUS
<1>0. /\ nb_tests \in Nat /\ options \in Seq(Opt) /\ given \in Seq(Opt)
      /\ names \in Seq(Name) /\ named \in Seq(Name) /\ tried \in Seq(1 .. nb_tests)
      /\ next \in 1 .. nb_tests + 1
  BY TestsType DEF RunnerTypeOK
<1>1. CASE Exclude
  <2>1. Head(options)[1] = "x" /\ options' = Tail(options)
        /\ UNCHANGED <<stage, names, given, named, next, tried>> /\ stage = "options" /\ options # <<>>
    BY <1>1 DEF Exclude
  <2>2. \A t \in 1 .. nb_tests : is_excluded'[t] <=> is_excluded[t] \/ Head(options)[2] = test_table[t]
    BY <1>1 DEF Exclude, Numbers
  <2> QED
    BY <2>1, <2>2, OptionStep
<1>2. CASE Help
  <2>1. Head(options)[1] # "x" /\ options' = Tail(options)
        /\ UNCHANGED <<stage, names, given, named, next, tried, is_excluded>> /\ stage = "options" /\ options # <<>>
    BY <1>2 DEF Help
  <2> QED
    BY <2>1, OptionStep
<1>3. CASE OptionsDone
  <2>1. UNCHANGED <<line, next, is_excluded, tried>> /\ options = <<>> /\ stage = "options"
        /\ stage' = IF names = <<>> THEN "all" ELSE "named"
    BY <1>3 DEF OptionsDone
  <2> QED
    BY <1>0, <2>1 DEF AskedInv, Looked, Tried, line, RunsAsAsked
<1>4. CASE RunAll
  <2>1. UNCHANGED <<stage, line, is_excluded>> /\ stage = "all" /\ next' = next + 1 /\ next \in 1 .. nb_tests
    BY <1>0, <1>4 DEF RunAll
  <2>2. /\ \A k, l \in DOMAIN tried : k < l => tried[k] < tried[l]
        /\ {tried[k] : k \in DOMAIN tried} = {t \in 1 .. next - 1 : ~is_excluded[t]}
    BY <2>1 DEF AskedInv
  <2>3. /\ \A k, l \in DOMAIN tried' : k < l => tried'[k] < tried'[l]
        /\ {tried'[k] : k \in DOMAIN tried'} = {t \in 1 .. next' - 1 : ~is_excluded[t]}
    <3>1. CASE is_excluded[next]
      <4>1. tried' = tried
        BY <1>4, <3>1 DEF RunAll, Selected
      <4>2. {t \in 1 .. next' - 1 : ~is_excluded[t]} = {t \in 1 .. next - 1 : ~is_excluded[t]}
        BY <2>1, <3>1
      <4> QED
        BY <2>2, <4>1, <4>2
    <3>2. CASE ~is_excluded[next]
      <4>1. tried' = Append(tried, next)
        BY <1>4, <3>2 DEF RunAll, Selected, DoOneTest
      <4>2. \A k \in DOMAIN tried : tried[k] \in 1 .. next - 1
        BY <2>2
      <4>3. DOMAIN tried' = DOMAIN tried \cup {Len(tried) + 1} /\ tried'[Len(tried) + 1] = next
            /\ \A k \in DOMAIN tried : tried'[k] = tried[k] /\ k < Len(tried) + 1
        BY <1>0, <2>1, <4>1
      <4>4. {tried'[k] : k \in DOMAIN tried'} = {tried[k] : k \in DOMAIN tried} \cup {next}
        BY <4>3
      <4>5. {t \in 1 .. next' - 1 : ~is_excluded[t]} = {t \in 1 .. next - 1 : ~is_excluded[t]} \cup {next}
        BY <2>1, <3>2
      <4>6. \A k, l \in DOMAIN tried' : k < l => tried'[k] < tried'[l]
        BY <1>0, <2>1, <2>2, <4>2, <4>3
      <4> QED
        BY <2>2, <4>4, <4>5, <4>6
    <3> QED
      BY <3>1, <3>2
  <2> QED
    BY <2>1, <2>3 DEF AskedInv, Looked, Tried, line, RunsAsAsked
<1>5. CASE AllDone
  <2>1. UNCHANGED <<line, next, is_excluded, tried>> /\ stage = "all" /\ stage' = "end" /\ next = nb_tests + 1
    BY <1>0, <1>5 DEF AllDone
  <2>2. named = <<>> /\ Looked = Len(given)
    BY <1>0, <2>1 DEF AskedInv, Looked
  <2>3. \A t \in 1 .. nb_tests : is_excluded[t] <=> test_table[t] \in ExcludedNames
    <3>1. \A name : name \in ExcludedNames <=> \E k \in DOMAIN given : given[k][1] = "x" /\ given[k][2] = name
      BY DEF ExcludedNames
    <3>2. \A t \in 1 .. nb_tests :
            is_excluded[t] <=> \E k \in 1 .. Looked : given[k][1] = "x" /\ given[k][2] = test_table[t]
      BY DEF AskedInv
    <3>3. DOMAIN given = 1 .. Looked
      BY <1>0, <2>2
    <3> QED
      BY <3>1, <3>2, <3>3
  <2>4. {t \in 1 .. next - 1 : ~is_excluded[t]} = Tests(Name \ ExcludedNames)
    BY <1>0, <2>1, <2>3, TestsType DEF Tests
  <2>5. RunsAsAsked'
    BY <2>1, <2>2, <2>4 DEF AskedInv, RunsAsAsked, TestsTried, Tests, line, ExcludedNames
  <2> QED
    BY <2>1, <2>5 DEF AskedInv, Looked, Tried, line
<1>6. CASE RunNamed
  <2>1. /\ UNCHANGED <<options, given, named, next, is_excluded>> /\ stage = "named"
        /\ names # <<>> /\ names' = Tail(names) /\ Looked' = Looked
    BY <1>6 DEF RunNamed, Looked
  <2>2. /\ Len(names') = Len(names) - 1 /\ Tried' = Tried + 1 /\ Tried \in Nat /\ Tried + 1 \in DOMAIN named
        /\ Head(names) = named[Tried + 1]
        /\ \A k \in DOMAIN names' : names'[k] = named[k + (Tried + 1)]
    BY <1>0, <2>1 DEF Tried, AskedInv
  <2>3. tried = <<>> /\ named # <<>>
    BY <2>1 DEF AskedInv
  <2>4. CASE UNCHANGED <<stage, tried>>
    BY <1>0, <2>1, <2>2, <2>3, <2>4 DEF AskedInv, RunsAsAsked
  <2>5. CASE stage' = "end" /\ \E t \in Numbers(Head(names)) : DoOneTest(t)
    <3>1. PICK t \in Numbers(Head(names)) : DoOneTest(t)
      BY <2>5
    <3>2. tried' = <<t>> /\ TestsTried' = {t}
      BY <2>3, <3>1 DEF DoOneTest, TestsTried
    <3>3. t \in Tests(Named)
      BY <2>2, <3>1 DEF Tests, Named, Numbers
    <3>4. RunsAsAsked'
      BY <2>1, <2>3, <3>2, <3>3 DEF RunsAsAsked, Tests, Named
    <3> QED
      BY <1>0, <2>1, <2>2, <2>5, <3>4 DEF AskedInv
  <2> QED
    BY <1>6, <2>4, <2>5 DEF RunNamed
<1>7. CASE NamedDone
  <2>1. UNCHANGED <<line, next, is_excluded, tried>> /\ stage = "named" /\ stage' = "end" /\ names = <<>>
    BY <1>7 DEF NamedDone
  <2>2. Tried = Len(named) /\ tried = <<>> /\ named # <<>>
    BY <1>0, <2>1 DEF AskedInv, Tried
  <2>3. RunsAsAsked'
    BY <1>0, <2>1, <2>2 DEF AskedInv, RunsAsAsked, TestsTried, line
  <2> QED
    BY <2>1, <2>3 DEF AskedInv, Looked, Tried, line
<1>8. CASE UNCHANGED runnervars
  BY <1>8 DEF runnervars, line, AskedInv, Looked, Tried, RunsAsAsked, ExcludedNames, Named, TestsTried
<1> QED
  BY <1>1, <1>2, <1>3, <1>4, <1>5, <1>6, <1>7, <1>8 DEF RunnerNext, RunnerEnded

\* For any table and options without names the tests that run are those not
\* excluded, each once and in order, and with names none but the named ones.
THEOREM RunsWhatIsAsked == RunnerSpec => []RunsAsAsked
<1>1. RunnerInv => RunnerTypeOK
  BY DEF RunnerInv
<1>2. AskedInv => RunsAsAsked
  BY DEF AskedInv
<1> QED
  BY <1>1, <1>2, AskedInit, AskedStep, RunnerInvariant, PTL DEF RunnerSpec

-----------------------------------------------------------------------------
(***************************************************************************)
(* SackTest: the ranges of a set of numbers, and the frame for them.       *)
(***************************************************************************)

\* A set of numbers has a least one.
LEMMA Least ==
  ASSUME NEW T \in SUBSET Nat, T # {}
  PROVE  \E n \in T : \A c \in T : n <= c
<1>1. PICK n \in T : \A c \in T : ~ (<<c, n>> \in OpToRel(<, Nat))
  BY NatLessThanWellFounded, WFMin
<1>2. \A c \in T : ~ (c < n)
  BY <1>1 DEF OpToRel
<1> QED
  BY <1>2

\* Induction for what holds of the numbers in G.
LEMMA Climb ==
  ASSUME NEW n \in Nat, NEW G, 0 \in G, \A k \in 1 .. n : k - 1 \in G => k \in G
  PROVE  \A k \in 0 .. n : k \in G
<1> DEFINE T == {k \in 0 .. n : k \notin G}
<1> SUFFICES ASSUME T # {} PROVE FALSE
  OBVIOUS
<1>1. T \in SUBSET Nat
  OBVIOUS
<1>2. PICK k \in T : \A c \in T : k <= c
  <2> HIDE DEF T
  <2> QED
    BY <1>1, Least
<1>3. k \in 1 .. n /\ k - 1 \in 0 .. n /\ ~ (k <= k - 1)
  BY <1>2
<1>4. k - 1 \in G
  BY <1>2, <1>3
<1> QED
  BY <1>2, <1>3, <1>4

\* S consists of the ranges lo[k] .. hi[k], from the highest one, with gaps between
\* them.
Spans(S, hi, lo, m) ==
  /\ \A k \in 1 .. m : hi[k] \in Nat /\ lo[k] \in Nat /\ lo[k] <= hi[k]
  /\ \A k, l \in 1 .. m : k < l => hi[l] < lo[k] - 1
  /\ \A n : n \in S <=> \E k \in 1 .. m : n \in lo[k] .. hi[k]

\* The ranges end just where the next number is missing.
LEMMA SpanTops ==
  ASSUME NEW S, NEW hi, NEW lo, NEW m \in Nat, Spans(S, hi, lo, m)
  PROVE  Tops(S) = {hi[k] : k \in 1 .. m}
<1>1. ASSUME NEW t \in Tops(S) PROVE \E k \in 1 .. m : t = hi[k]
  <2>1. t \in S /\ t + 1 \notin S
    BY DEF Tops
  <2>2. PICK k \in 1 .. m : t \in lo[k] .. hi[k]
    BY <2>1 DEF Spans
  <2>3. lo[k] \in Nat /\ hi[k] \in Nat /\ t + 1 \notin lo[k] .. hi[k]
    BY <2>1 DEF Spans
  <2> QED
    BY <2>2, <2>3
<1>2. ASSUME NEW k \in 1 .. m PROVE hi[k] \in Tops(S)
  <2>1. hi[k] \in Nat /\ lo[k] \in Nat /\ hi[k] \in lo[k] .. hi[k]
    BY DEF Spans
  <2>2. hi[k] \in S
    BY <2>1 DEF Spans
  <2>3. ASSUME NEW l \in 1 .. m, hi[k] + 1 \in lo[l] .. hi[l] PROVE FALSE
    <3>1. hi[l] \in Nat /\ lo[l] \in Nat
      BY DEF Spans
    <3>2. CASE k < l
      <4>1. hi[l] < lo[k] - 1 /\ lo[k] <= hi[k]
        BY <3>2 DEF Spans
      <4> QED
        BY <2>1, <2>3, <3>1, <4>1
    <3>3. CASE l < k
      <4>1. hi[k] < lo[l] - 1
        BY <3>3 DEF Spans
      <4> QED
        BY <2>1, <2>3, <3>1, <4>1
    <3>4. CASE k = l
      BY <2>1, <2>3, <3>4
    <3> QED
      BY <3>2, <3>3, <3>4
  <2>4. hi[k] + 1 \notin S
    BY <2>3 DEF Spans
  <2> QED
    BY <2>2, <2>4 DEF Tops
<1> QED
  BY <1>1, <1>2

\* The ranges come from the highest down.
LEMMA HighsDecrease ==
  ASSUME NEW S, NEW hi, NEW lo, NEW m \in Nat, Spans(S, hi, lo, m), NEW k \in 1 .. m, NEW l \in 1 .. m
  PROVE  hi[k] \in Nat /\ hi[l] \in Nat /\ (k < l => hi[l] < hi[k])
<1>1. hi[k] \in Nat /\ hi[l] \in Nat /\ lo[k] \in Nat /\ lo[k] <= hi[k]
  BY DEF Spans
<1>2. k < l => hi[l] < lo[k] - 1
  BY DEF Spans
<1> QED
  BY <1>1, <1>2

\* So the k-th range is found by counting.
LEMMA SpanRank ==
  ASSUME NEW S, NEW hi, NEW lo, NEW m \in Nat, Spans(S, hi, lo, m), NEW k \in 0 .. m
  PROVE  Cardinality({hi[l] : l \in 1 .. k}) = k
<1> DEFINE f == [l \in 1 .. k |-> hi[l]]
           T == {hi[l] : l \in 1 .. k}
<1>1. ASSUME NEW a \in 1 .. k, NEW b \in 1 .. k, f[a] = f[b] PROVE a = b
  <2>1. a \in 1 .. m /\ b \in 1 .. m /\ hi[a] = hi[b]
    BY <1>1
  <2>2. hi[a] \in Nat /\ hi[b] \in Nat /\ (a < b => hi[b] < hi[a])
    BY <2>1, HighsDecrease
  <2>3. b < a => hi[a] < hi[b]
    BY <2>1, HighsDecrease
  <2> QED
    BY <2>1, <2>2, <2>3
<1>2. f \in Injection(1 .. k, T)
  <2>1. f \in [1 .. k -> T]
    OBVIOUS
  <2> QED
    BY <1>1, <2>1 DEF Injection, IsInjective
<1>3. f \in Bijection(1 .. k, T)
  <2>1. \A t \in T : \E l \in 1 .. k : f[l] = t
    OBVIOUS
  <2> QED
    BY <1>2, <2>1 DEF Bijection, Surjection, Injection
<1>4. ExistsBijection(1 .. k, T)
  BY <1>3 DEF ExistsBijection
<1> QED
  BY <1>4, FS_CountingElements

\* The k-th range is the only one with k ends from its own up.
LEMMA SpanRanks ==
  ASSUME NEW S, NEW hi, NEW lo, NEW m \in Nat, Spans(S, hi, lo, m), NEW k \in 1 .. m
  PROVE  Cardinality({u \in Tops(S) : u >= hi[k]}) = k
<1>1. {u \in Tops(S) : u >= hi[k]} = {hi[l] : l \in 1 .. k}
  <2>1. Tops(S) = {hi[l] : l \in 1 .. m}
    BY SpanTops
  <2>2. ASSUME NEW l \in 1 .. m PROVE hi[l] >= hi[k] <=> l \in 1 .. k
    <3>1. hi[k] \in Nat /\ hi[l] \in Nat /\ (k < l => hi[l] < hi[k])
      BY HighsDecrease
    <3>2. l < k => hi[k] < hi[l]
      BY HighsDecrease
    <3> QED
      BY <3>1, <3>2
  <2> QED
    BY <2>1, <2>2
<1>2. k \in 0 .. m
  OBVIOUS
<1> QED
  BY <1>1, <1>2, SpanRank

\* Top finds the end of the k-th range, and Bottom its first number.
LEMMA SpanTop ==
  ASSUME NEW S, NEW hi, NEW lo, NEW m \in Nat, Spans(S, hi, lo, m), NEW k \in 1 .. m
  PROVE  Top(S, k) = hi[k]
<1>1. hi[k] \in Tops(S)
  BY SpanTops
<1>2. ASSUME NEW t \in Tops(S), Cardinality({u \in Tops(S) : u >= t}) = k PROVE t = hi[k]
  <2>1. PICK l \in 1 .. m : t = hi[l]
    BY SpanTops
  <2>2. Cardinality({u \in Tops(S) : u >= t}) = l
    BY <2>1, SpanRanks
  <2> QED
    BY <1>2, <2>1, <2>2
<1> QED
  BY <1>1, <1>2, SpanRanks DEF Top

LEMMA SpanBottom ==
  ASSUME NEW S, NEW hi, NEW lo, NEW m \in Nat, Spans(S, hi, lo, m), NEW k \in 1 .. m
  PROVE  Bottom(S, hi[k]) = lo[k]
<1>1. hi[k] \in Nat /\ lo[k] \in Nat /\ lo[k] <= hi[k]
  BY DEF Spans
<1>2. lo[k] \in S /\ lo[k] .. hi[k] \subseteq S
  BY <1>1 DEF Spans
<1>3. lo[k] - 1 \notin S
  <2>1. ASSUME NEW l \in 1 .. m, lo[k] - 1 \in lo[l] .. hi[l] PROVE FALSE
    <3>1. hi[l] \in Nat /\ lo[l] \in Nat
      BY DEF Spans
    <3>2. CASE k < l
      <4>1. hi[l] < lo[k] - 1
        BY <3>2 DEF Spans
      <4> QED
        BY <1>1, <2>1, <3>1, <4>1
    <3>3. CASE l < k
      <4>1. hi[k] < lo[l] - 1
        BY <3>3 DEF Spans
      <4> QED
        BY <1>1, <2>1, <3>1, <4>1
    <3>4. CASE k = l
      BY <1>1, <2>1, <3>4
    <3> QED
      BY <3>2, <3>3, <3>4
  <2> QED
    BY <2>1 DEF Spans
<1>4. ASSUME NEW b \in S, b <= hi[k], b - 1 \notin S, b .. hi[k] \subseteq S PROVE b = lo[k]
  <2>1. b \in Nat
    <3>1. PICK l \in 1 .. m : b \in lo[l] .. hi[l]
      BY DEF Spans
    <3>2. lo[l] \in Nat /\ hi[l] \in Nat
      BY DEF Spans
    <3> QED
      BY <3>1, <3>2
  <2>2. CASE b < lo[k]
    <3>1. lo[k] - 1 \in b .. hi[k]
      BY <1>1, <2>1, <2>2
    <3> QED
      BY <1>3, <1>4, <3>1
  <2>3. CASE lo[k] < b
    <3>1. b - 1 \in lo[k] .. hi[k]
      BY <1>1, <1>4, <2>1, <2>3
    <3> QED
      BY <1>2, <1>4, <3>1
  <2> QED
    BY <1>1, <2>1, <2>2, <2>3
<1> QED
  BY <1>1, <1>2, <1>3, <1>4 DEF Bottom

\* The frame of ranges with gaps.
SpanFrame(hi, lo, m) ==
  [whole |-> TRUE, largest |-> hi[1], last_range |-> hi[1] - lo[1], num_block |-> m - 1,
   blocks |-> [k \in 1 .. m - 1 |-> [gap |-> lo[k] - 1 - hi[k + 1], range |-> hi[k + 1] - lo[k + 1] + 1]]]

\* The frame is told by any listing of the ranges.
LEMMA FrameOfSpans ==
  ASSUME NEW S, NEW hi, NEW lo, NEW m \in Nat, m >= 1, Spans(S, hi, lo, m)
  PROVE  FrameOf(S) = SpanFrame(hi, lo, m) /\ Cardinality(Tops(S)) = m
<1>1. Cardinality(Tops(S)) = m
  <2>1. m \in 0 .. m
    OBVIOUS
  <2>2. Cardinality({hi[k] : k \in 1 .. m}) = m
    BY <2>1, SpanRank
  <2> QED
    BY <2>2, SpanTops
<1>2. \A k \in 1 .. m : Top(S, k) = hi[k]
  BY SpanTop
<1>3. \A k \in 1 .. m : Bottom(S, hi[k]) = lo[k]
  BY SpanBottom
<1>4. 1 \in 1 .. m
  OBVIOUS
<1>5. \A k \in 1 .. m - 1 : k \in 1 .. m /\ k + 1 \in 1 .. m
  OBVIOUS
<1> QED
  BY <1>1, <1>2, <1>3, <1>4, <1>5 DEF FrameOf, SpanFrame

\* The range of S around a number of it.
LEMMA BottomExists ==
  ASSUME NEW S \in SUBSET Nat, NEW t \in S
  PROVE  \E b \in S : b <= t /\ b - 1 \notin S /\ b .. t \subseteq S
<1> DEFINE B == {b \in Nat : b \in S /\ b <= t /\ b .. t \subseteq S}
<1>1. t \in B
  OBVIOUS
<1>2. B \in SUBSET Nat
  OBVIOUS
<1>3. PICK b \in B : \A c \in B : b <= c
  <2> HIDE DEF B
  <2> QED
    BY <1>1, <1>2, Least
<1>4. b - 1 \notin S
  <2> SUFFICES ASSUME b - 1 \in S PROVE FALSE
    OBVIOUS
  <2>1. b - 1 \in Nat /\ b \in Nat /\ t \in Nat /\ b <= t
    OBVIOUS
  <2>2. (b - 1) .. t \subseteq S
    <3>1. \A n \in (b - 1) .. t : n = b - 1 \/ n \in b .. t
      BY <2>1
    <3> QED
      BY <3>1
  <2>3. b - 1 \in B
    BY <2>1, <2>2
  <2> HIDE DEF B
  <2> QED
    BY <1>3, <2>1, <2>3
<1> QED
  BY <1>4

\* Of the ends of S not above t there is a highest.
LEMMA TopExists ==
  ASSUME NEW d \in Nat, NEW S \in SUBSET (0 .. d), NEW n \in S
  PROVE  \E t \in Tops(S) : n <= t /\ n .. t \subseteq S
<1> DEFINE B == {r \in Nat : r <= d /\ d - r \in S /\ n <= d - r /\ n .. (d - r) \subseteq S}
<1>1. d - n \in B
  <2>1. n \in Nat /\ n <= d /\ d - (d - n) = n /\ d - n \in Nat
    OBVIOUS
  <2>2. n .. n \subseteq S
    BY <2>1
  <2> QED
    BY <2>1, <2>2
<1>2. B \in SUBSET Nat
  OBVIOUS
<1>3. PICK r \in B : \A c \in B : r <= c
  <2> HIDE DEF B
  <2> QED
    BY <1>1, <1>2, Least
<1> DEFINE t == d - r
<1>4. r \in Nat /\ r <= d /\ t \in S /\ n <= t /\ n .. t \subseteq S
  OBVIOUS
<1>5. t + 1 \notin S
  <2> SUFFICES ASSUME t + 1 \in S PROVE FALSE
    OBVIOUS
  <2>1. t + 1 <= d /\ n \in Nat
    OBVIOUS
  <2>2. r - 1 \in Nat /\ d - (r - 1) = t + 1 /\ r - 1 <= d
    BY <1>4, <2>1
  <2>3. n .. (t + 1) \subseteq S
    <3>1. \A x \in n .. (t + 1) : x = t + 1 \/ x \in n .. t
      BY <1>4, <2>1
    <3> QED
      BY <1>4, <3>1
  <2>4. r - 1 \in B
    BY <1>4, <2>1, <2>2, <2>3
  <2> HIDE DEF B
  <2> QED
    BY <1>3, <1>4, <2>4
<1> QED
  BY <1>4, <1>5 DEF Tops

\* Each finite set of numbers has such a listing.
LEMMA SpansExist ==
  ASSUME NEW d \in Nat, NEW S \in SUBSET (0 .. d), S # {}
  PROVE  \E m \in Nat \ {0} : \E hi, lo : Spans(S, hi, lo, m)
<1> DEFINE T == Tops(S)
           m == Cardinality(T)
           Above(t) == {u \in T : u >= t}
           rank(t) == Cardinality(Above(t))
           hi == [k \in 1 .. m |-> CHOOSE t \in T : rank(t) = k]
           lo == [k \in 1 .. m |-> CHOOSE b \in S : b <= hi[k] /\ b - 1 \notin S /\ b .. hi[k] \subseteq S]
<1>1. IsFiniteSet(T) /\ T \subseteq S /\ T \subseteq Nat /\ S \subseteq Nat /\ m \in Nat
  <2>1. IsFiniteSet(0 .. d) /\ T \subseteq S /\ S \subseteq Nat
    BY FS_Interval DEF Tops
  <2>2. IsFiniteSet(T)
    BY <2>1, FS_Subset
  <2> QED
    BY <2>1, <2>2, FS_CardinalityType
<1>2. ASSUME NEW t \in T PROVE IsFiniteSet(Above(t)) /\ rank(t) \in 1 .. m
  <2>1. Above(t) \in SUBSET T /\ t \in Above(t)
    BY <1>1
  <2>2. IsFiniteSet(Above(t)) /\ rank(t) <= m
    BY <1>1, <2>1, FS_Subset
  <2>3. rank(t) \in Nat
    BY <2>2, FS_CardinalityType
  <2>4. rank(t) # 0
    BY <2>1, <2>2, FS_EmptySet
  <2> QED
    BY <1>1, <2>2, <2>3, <2>4
<1>3. ASSUME NEW t \in T, NEW u \in T, t < u PROVE rank(u) < rank(t)
  <2>0. t \in Nat /\ u \in Nat
    BY <1>1
  <2>1. Above(u) \in SUBSET Above(t)
    BY <1>1, <1>3, <2>0
  <2>2. t \in Above(t) /\ t \notin Above(u)
    BY <1>3, <2>0
  <2>3. IsFiniteSet(Above(t)) /\ rank(t) \in Nat /\ rank(u) \in Nat
    BY <1>2
  <2>4. rank(u) <= rank(t) /\ (rank(t) = rank(u) => Above(t) = Above(u))
    BY <2>1, <2>3, FS_Subset
  <2> HIDE DEF Above, rank
  <2> QED
    BY <2>2, <2>3, <2>4
<1>4. \A k \in 1 .. m : \E t \in T : rank(t) = k
  <2> DEFINE f == [t \in T |-> rank(t)]
  <2>1. f \in [T -> 1 .. m]
    BY <1>2
  <2>2. ASSUME NEW t \in T, NEW u \in T, f[t] = f[u] PROVE t = u
    <3>1. t \in Nat /\ u \in Nat /\ rank(t) = rank(u) /\ rank(t) \in Nat
      BY <1>1, <1>2, <2>2
    <3>2. ~ (t < u) /\ ~ (u < t)
      <4> HIDE DEF rank
      <4> QED
        BY <1>3, <3>1
    <3> QED
      BY <3>1, <3>2
  <2>3. f \in Injection(T, 1 .. m)
    <3> HIDE DEF f
    <3> QED
      BY <2>1, <2>2 DEF Injection, IsInjective
  <2>4. IsFiniteSet(1 .. m) /\ Cardinality(1 .. m) = m
    BY <1>1, FS_Interval
  <2>5. f \in Surjection(T, 1 .. m)
    <3> HIDE DEF f
    <3> QED
      BY <2>3, <2>4, FS_Injection
  <2>6. \A k \in 1 .. m : \E t \in T : f[t] = k
    <3> HIDE DEF f
    <3> QED
      BY <2>5 DEF Surjection
  <2> QED
    BY <2>6
<1>5. \A k \in 1 .. m : hi[k] \in T /\ rank(hi[k]) = k
  BY <1>4
<1>6. \A k \in 1 .. m : lo[k] \in S /\ lo[k] <= hi[k] /\ lo[k] - 1 \notin S /\ lo[k] .. hi[k] \subseteq S
  <2> TAKE k \in 1 .. m
  <2>1. hi[k] \in S /\ S \in SUBSET Nat
    BY <1>1, <1>5
  <2>2. \E b \in S : b <= hi[k] /\ b - 1 \notin S /\ b .. hi[k] \subseteq S
    BY <2>1, BottomExists
  <2>3. lo[k] = CHOOSE b \in S : b <= hi[k] /\ b - 1 \notin S /\ b .. hi[k] \subseteq S
    OBVIOUS
  <2> HIDE DEF hi, lo
  <2> QED
    BY <2>2, <2>3
<1> HIDE DEF hi, lo
<1>7. \A k \in 1 .. m : hi[k] \in Nat /\ lo[k] \in Nat /\ hi[k] \in S /\ hi[k] + 1 \notin S
  BY <1>1, <1>5, <1>6 DEF Tops
<1>8. ASSUME NEW k \in 1 .. m, NEW l \in 1 .. m, k < l PROVE hi[l] < lo[k] - 1
  <2>1. hi[l] < hi[k]
    <3>1. hi[k] \in T /\ hi[l] \in T /\ rank(hi[k]) = k /\ rank(hi[l]) = l /\ hi[k] \in Nat /\ hi[l] \in Nat
      BY <1>5, <1>7
    <3>2. hi[k] < hi[l] => l < k
      BY <1>3, <3>1
    <3>3. hi[k] = hi[l] => k = l
      BY <3>1
    <3> QED
      BY <1>8, <3>1, <3>2, <3>3
  <2>2. hi[l] + 1 \notin lo[k] .. hi[k]
    BY <1>6, <1>7
  <2>3. hi[k] \in Nat /\ hi[l] \in Nat /\ lo[k] \in Nat
    BY <1>7
  <2> QED
    BY <2>1, <2>2, <2>3
<1>9. ASSUME NEW n \in S PROVE \E k \in 1 .. m : n \in lo[k] .. hi[k]
  <2>1. PICK t \in T : n <= t /\ n .. t \subseteq S
    BY TopExists
  <2>2. rank(t) \in 1 .. m
    BY <1>2
  <2>3. PICK k \in 1 .. m : k = rank(t)
    BY <2>2
  <2>4. hi[k] = t
    <3>1. hi[k] \in T /\ rank(hi[k]) = rank(t) /\ hi[k] \in Nat /\ t \in Nat /\ rank(t) \in Nat
      BY <1>1, <1>5, <1>7, <2>2, <2>3
    <3>2. ~ (hi[k] < t) /\ ~ (t < hi[k])
      <4> HIDE DEF rank
      <4> QED
        BY <1>3, <3>1
    <3> QED
      BY <3>1, <3>2
  <2>5. lo[k] \in Nat /\ lo[k] - 1 \notin S /\ lo[k] <= t /\ n \in Nat /\ t \in Nat
    BY <1>6, <1>7, <2>4
  <2>6. lo[k] <= n
    <3>1. CASE n < lo[k]
      <4>1. lo[k] - 1 \in n .. t
        BY <2>5, <3>1
      <4> QED
        BY <2>1, <2>5, <4>1
    <3> QED
      BY <2>5, <3>1
  <2> QED
    BY <2>1, <2>4, <2>5, <2>6
<1>10. \A n : n \in S <=> \E k \in 1 .. m : n \in lo[k] .. hi[k]
  BY <1>6, <1>9
<1>11. m # 0
  <2>1. PICK n \in S : TRUE
    OBVIOUS
  <2>2. \E k \in 1 .. m : n \in lo[k] .. hi[k]
    BY <1>9
  <2> HIDE DEF m
  <2> QED
    BY <2>2
<1>12. Spans(S, hi, lo, m)
  <2> HIDE DEF m
  <2> QED
    BY <1>6, <1>7, <1>8, <1>10 DEF Spans
<1> HIDE DEF m
<1> QED
  BY <1>1, <1>11, <1>12

-----------------------------------------------------------------------------
(***************************************************************************)
(* SackTest: what the parser reads, block by block.                        *)
(***************************************************************************)

\* What the loop over the blocks keeps.
Reading == [acked_mask : SUBSET Int, gap_begin : Int, ret : {0, -1}]
Block == [gap : Nat, range : Nat]
Frame == [whole : BOOLEAN, largest : Nat, last_range : Nat, num_block : Nat, blocks : Seq(Block)]

Read(p, f, k) == IF k = 0 THEN Start(f) ELSE ParseBlock(p[k - 1], f.blocks[k])
Reads(p, f, n) == p = [k \in 0 .. n |-> Read(p, f, k)]

\* The loop of the parser can be followed from the start.
LEMMA ReadsExist ==
  ASSUME NEW f, NEW n \in Nat
  PROVE  \E p : Reads(p, f, n)
<1> DEFINE G == {k \in Nat : \E p : Reads(p, f, k)}
<1>1. 0 \in G
  <2>1. Reads([k \in 0 .. 0 |-> Start(f)], f, 0)
    BY DEF Reads, Read
  <2> QED
    BY <2>1
<1>2. ASSUME NEW m \in 1 .. n, m - 1 \in G PROVE m \in G
  <2>1. PICK p : Reads(p, f, m - 1)
    BY <1>2
  <2> DEFINE q == [k \in 0 .. m |-> IF k < m THEN p[k] ELSE Read(p, f, m)]
  <2>2. ASSUME NEW k \in 0 .. m PROVE q[k] = Read(q, f, k)
    <3>1. k # 0 => q[k - 1] = p[k - 1]
      OBVIOUS
    <3>2. Read(q, f, k) = Read(p, f, k)
      BY <3>1 DEF Read
    <3>3. k < m => p[k] = Read(p, f, k)
      BY <2>1 DEF Reads
    <3> QED
      BY <3>2, <3>3
  <2>3. Reads(q, f, m)
    BY <2>2 DEF Reads
  <2> QED
    BY <2>3
<1>3. n \in G
  <2> HIDE DEF G
  <2>1. \A k \in 0 .. n : k \in G
    BY <1>1, <1>2, Climb
  <2> QED
    BY <2>1
<1> QED
  BY <1>3

\* What is parsed is what has been read after the last round.
LEMMA ParsedIsRead ==
  ASSUME NEW f, NEW n \in Nat, Len(f.blocks) = n
  PROVE  \E p : /\ Parsed(f) = p[n]
                /\ p[0] = Start(f)
                /\ \A k \in 1 .. n : p[k] = ParseBlock(p[k - 1], f.blocks[k])
<1> DEFINE p == CHOOSE p : Reads(p, f, n)
<1>1. Reads(p, f, n)
  BY ReadsExist
<1>2. Parsed(f) = p[n]
  BY DEF Parsed, Reads, Read
<1> HIDE DEF p
<1>3. \A k \in 0 .. n : p[k] = Read(p, f, k)
  BY <1>1 DEF Reads
<1>4. p[0] = Start(f) /\ \A k \in 1 .. n : p[k] = ParseBlock(p[k - 1], f.blocks[k])
  BY <1>3 DEF Read
<1> QED
  BY <1>2, <1>4

Bits(S) == {n % 64 : n \in S}

\* A mask marks a range of numbers, modulo 64.
LEMMA MaskIsRange ==
  ASSUME NEW h \in Nat, NEW r \in Nat, r <= h + 1, NEW mask
  PROVE  ack_range_mask(mask, h, r) = mask \cup Bits((h - r + 1) .. h)
<1>1. ASSUME NEW k \in 0 .. r - 1 PROVE h - k \in (h - r + 1) .. h
  OBVIOUS
<1>2. ASSUME NEW n \in (h - r + 1) .. h PROVE h - n \in 0 .. r - 1 /\ h - (h - n) = n
  OBVIOUS
<1>3. {(h - k) % 64 : k \in 0 .. r - 1} = {n % 64 : n \in (h - r + 1) .. h}
  <2>1. \A x : (\E k \in 0 .. r - 1 : x = (h - k) % 64) => \E n \in (h - r + 1) .. h : x = n % 64
    BY <1>1
  <2>2. \A x : (\E n \in (h - r + 1) .. h : x = n % 64) => \E k \in 0 .. r - 1 : x = (h - k) % 64
    BY <1>2
  <2> QED
    BY <2>1, <2>2
<1> QED
  BY <1>3 DEF ack_range_mask, Bits

\* The n blocks of f are ranges of the numbers from lo[k] to hi[k]: some may be
\* empty, or touch the one before.
Runs(f, hi, lo, n) ==
  /\ \A k \in 1 .. n + 1 : hi[k] \in Nat /\ lo[k] \in Nat \ {0} /\ lo[k] <= hi[k] + 1
  /\ \A k \in 1 .. n : hi[k + 1] <= lo[k] - 1
  /\ f.largest = hi[1] /\ f.last_range = hi[1] - lo[1]
  /\ \A k \in 1 .. n : f.blocks[k].gap = lo[k] - 1 - hi[k + 1] /\ f.blocks[k].range = hi[k + 1] - lo[k + 1] + 1

Covered(hi, lo, m) == UNION {lo[k] .. hi[k] : k \in 1 .. m}
After(hi, lo, k) == [acked_mask |-> Bits(Covered(hi, lo, k)), gap_begin |-> lo[k] - 1, ret |-> 0]

\* One more range.
LEMMA CoveredNext ==
  ASSUME NEW hi, NEW lo, NEW k \in Nat
  PROVE  Bits(Covered(hi, lo, k + 1)) = Bits(Covered(hi, lo, k)) \cup Bits(lo[k + 1] .. hi[k + 1])
<1>1. \A l : l \in 1 .. k + 1 <=> l \in 1 .. k \/ l = k + 1
  OBVIOUS
<1>2. Covered(hi, lo, k + 1) = Covered(hi, lo, k) \cup (lo[k + 1] .. hi[k + 1])
  <2>1. \A x : x \in Covered(hi, lo, k + 1) <=> \E l \in 1 .. k + 1 : x \in lo[l] .. hi[l]
    BY DEF Covered
  <2>2. \A x : x \in Covered(hi, lo, k) <=> \E l \in 1 .. k : x \in lo[l] .. hi[l]
    BY DEF Covered
  <2> QED
    BY <1>1, <2>1, <2>2
<1>3. \A S, T : Bits(S \cup T) = Bits(S) \cup Bits(T)
  BY DEF Bits
<1> QED
  BY <1>2, <1>3

\* One round of the loop.
LEMMA BlockIsRead ==
  ASSUME NEW f, NEW hi, NEW lo, NEW n \in Nat, Runs(f, hi, lo, n), NEW k \in 1 .. n
  PROVE  ParseBlock(After(hi, lo, k), f.blocks[k]) = After(hi, lo, k + 1)
<1> DEFINE b == f.blocks[k]
           p == After(hi, lo, k)
           h == hi[k + 1]
           r == h - lo[k + 1] + 1
<1>1. k + 1 \in 1 .. n + 1 /\ k \in 1 .. n + 1 /\ k \in Nat
  OBVIOUS
<1>2. lo[k] \in Nat /\ h \in Nat /\ lo[k + 1] \in Nat \ {0} /\ lo[k + 1] <= h + 1 /\ h <= lo[k] - 1
  BY <1>1 DEF Runs
<1>3. b.gap = lo[k] - 1 - h /\ b.range = r
  BY DEF Runs
<1> HIDE DEF b, h
<1>4. r \in Nat /\ r <= h /\ h - r + 1 = lo[k + 1] /\ h - r = lo[k + 1] - 1
  BY <1>2
<1>5. p.ret = 0 /\ p.gap_begin = lo[k] - 1 /\ p.acked_mask = Bits(Covered(hi, lo, k))
  BY DEF After
<1>6. p.gap_begin - b.gap = h /\ ~ (b.gap > p.gap_begin) /\ ~ (p.gap_begin - b.gap < b.range)
      /\ p.gap_begin - b.gap - b.range = lo[k + 1] - 1
  BY <1>2, <1>3, <1>4, <1>5
<1>7. ParseBlock(p, b) = [p EXCEPT !.acked_mask = ack_range_mask(p.acked_mask, h, r), !.gap_begin = lo[k + 1] - 1]
  <2> HIDE DEF p, r
  <2>1. p.ret = 0
    BY <1>5
  <2> QED
    BY <1>3, <1>6, <2>1 DEF ParseBlock
<1>8. ack_range_mask(p.acked_mask, h, r) = Bits(Covered(hi, lo, k + 1))
  <2>1. ack_range_mask(p.acked_mask, h, r) = p.acked_mask \cup Bits((h - r + 1) .. h)
    <3> HIDE DEF p, r
    <3>1. r <= h + 1
      BY <1>2, <1>4
    <3> QED
      BY <1>2, <1>4, <3>1, MaskIsRange
  <2>2. Bits(Covered(hi, lo, k + 1)) = Bits(Covered(hi, lo, k)) \cup Bits(lo[k + 1] .. hi[k + 1])
    BY <1>1, CoveredNext
  <2> HIDE DEF r, p
  <2> QED
    BY <1>4, <1>5, <2>1, <2>2 DEF h
<1> HIDE DEF r
<1>9. ParseBlock(p, b) = [acked_mask |-> Bits(Covered(hi, lo, k + 1)), gap_begin |-> lo[k + 1] - 1, ret |-> 0]
  BY <1>7, <1>8 DEF After
<1> QED
  BY <1>9 DEF After, b

\* Frames of descending runs are read as what these cover.
LEMMA RunsAreRead ==
  ASSUME NEW f, NEW hi, NEW lo, NEW n \in Nat, Len(f.blocks) = n, Runs(f, hi, lo, n)
  PROVE  Parsed(f).ret = 0 /\ Parsed(f).acked_mask = Bits(Covered(hi, lo, n + 1))
<1>1. PICK p : /\ Parsed(f) = p[n]
               /\ p[0] = Start(f)
               /\ \A k \in 1 .. n : p[k] = ParseBlock(p[k - 1], f.blocks[k])
  BY ParsedIsRead
<1> DEFINE G == {k \in 0 .. n : p[k] = After(hi, lo, k + 1)}
<1>2. 0 \in G
  <2> DEFINE h == hi[1]
             r == h - lo[1] + 1
  <2>1. h \in Nat /\ lo[1] \in Nat \ {0} /\ lo[1] <= h + 1 /\ f.largest = h /\ f.last_range = h - lo[1]
    BY DEF Runs
  <2>2. r \in Nat /\ r <= h + 1 /\ h - r + 1 = lo[1] /\ f.last_range + 1 = r /\ f.largest - f.last_range - 1 = lo[1] - 1
    BY <2>1
  <2>3. ack_range_mask({}, h, r) = Bits(lo[1] .. h)
    <3> HIDE DEF h, r
    <3>1. ack_range_mask({}, h, r) = {} \cup Bits((h - r + 1) .. h)
      BY <2>1, <2>2, MaskIsRange
    <3> QED
      BY <2>2, <3>1
  <2>4. Covered(hi, lo, 1) = lo[1] .. h
    <3>1. \A x : x \in Covered(hi, lo, 1) <=> \E k \in 1 .. 1 : x \in lo[k] .. hi[k]
      BY DEF Covered
    <3>2. 1 .. 1 = {1}
      OBVIOUS
    <3>3. \A x : x \in Covered(hi, lo, 1) <=> x \in lo[1] .. h
      BY <3>1, <3>2
    <3> HIDE DEF h
    <3> QED
      BY <3>3
  <2> HIDE DEF h, r
  <2>5. Start(f) = After(hi, lo, 1)
    BY <2>1, <2>2, <2>3, <2>4 DEF Start, After
  <2> QED
    BY <1>1, <2>5
<1>3. ASSUME NEW k \in 1 .. n, k - 1 \in G PROVE k \in G
  <2>1. p[k - 1] = After(hi, lo, k)
    BY <1>3
  <2>2. ParseBlock(After(hi, lo, k), f.blocks[k]) = After(hi, lo, k + 1)
    BY BlockIsRead
  <2>3. p[k] = After(hi, lo, k + 1)
    BY <1>1, <2>1, <2>2
  <2> QED
    BY <2>3
<1>4. n \in G
  <2> HIDE DEF G
  <2>1. \A k \in 0 .. n : k \in G
    BY <1>2, <1>3, Climb
  <2> QED
    BY <2>1
<1>5. Parsed(f) = After(hi, lo, n + 1)
  BY <1>1, <1>4
<1> QED
  BY <1>5 DEF After

\* A round keeps the types, and an error once made.
LEMMA ParseBlockKeeps ==
  ASSUME NEW p \in Reading, NEW b \in Block, NEW q, q = ParseBlock(p, b)
  PROVE  /\ q \in Reading
         /\ q.ret = 0 =>
              /\ p.ret = 0 /\ b.gap <= p.gap_begin /\ p.gap_begin - b.gap >= b.range
              /\ q.gap_begin = p.gap_begin - b.gap - b.range
<1>0. p.acked_mask \in SUBSET Int /\ p.gap_begin \in Int /\ p.ret \in {0, -1} /\ b.gap \in Nat /\ b.range \in Nat
  BY DEF Reading, Block
<1>1. CASE p.ret # 0 \/ b.gap > p.gap_begin \/ p.gap_begin - b.gap < b.range
  <2>1. q = [p EXCEPT !.ret = -1]
    BY <1>1 DEF ParseBlock
  <2>2. q \in Reading /\ q.ret = -1
    BY <2>1 DEF Reading
  <2> QED
    BY <2>2
<1>2. CASE ~ (p.ret # 0 \/ b.gap > p.gap_begin \/ p.gap_begin - b.gap < b.range)
  <2> DEFINE mask == ack_range_mask(p.acked_mask, p.gap_begin - b.gap, b.range)
             g == p.gap_begin - b.gap - b.range
  <2>1. q = [p EXCEPT !.acked_mask = mask, !.gap_begin = g]
    BY <1>2 DEF ParseBlock
  <2>2. mask \in SUBSET Int /\ g \in Int
    BY <1>0 DEF ack_range_mask
  <2>3. p.ret = 0 /\ b.gap <= p.gap_begin /\ p.gap_begin - b.gap >= b.range
    BY <1>0, <1>2
  <2> HIDE DEF mask
  <2>4. q \in Reading /\ q.gap_begin = g
    BY <2>1, <2>2 DEF Reading
  <2> QED
    BY <2>3, <2>4
<1> QED
  BY <1>1, <1>2

\* What the parser reads without an error are ranges that descend.
LEMMA ReadAsRuns ==
  ASSUME NEW f \in Frame, NEW n \in Nat, Len(f.blocks) = n, f.last_range < f.largest, Parsed(f).ret = 0
  PROVE  \E hi, lo : Runs(f, hi, lo, n)
<1>1. PICK p : /\ Parsed(f) = p[n]
               /\ p[0] = Start(f)
               /\ \A k \in 1 .. n : p[k] = ParseBlock(p[k - 1], f.blocks[k])
  BY ParsedIsRead
<1>2. f.largest \in Nat /\ f.last_range \in Nat /\ \A k \in 1 .. n : f.blocks[k] \in Block
  <2>1. f.blocks \in Seq(Block)
    BY DEF Frame
  <2>2. \A k \in 1 .. n : f.blocks[k] \in Block
    BY <2>1
  <2> QED
    BY <2>2 DEF Frame
<1>3. \A k \in 0 .. n : p[k] \in Reading
  <2> DEFINE G == {k \in 0 .. n : p[k] \in Reading}
  <2>1. 0 \in G
    <3>1. ack_range_mask({}, f.largest, f.last_range + 1) \in SUBSET Int
      BY <1>2 DEF ack_range_mask
    <3>2. f.largest - f.last_range - 1 \in Int
      BY <1>2
    <3>3. Start(f) \in Reading
      BY <3>1, <3>2 DEF Start, Reading
    <3> QED
      BY <1>1, <3>3
  <2>2. ASSUME NEW k \in 1 .. n, k - 1 \in G PROVE k \in G
    <3>1. p[k - 1] \in Reading /\ f.blocks[k] \in Block /\ p[k] = ParseBlock(p[k - 1], f.blocks[k])
      BY <1>1, <1>2, <2>2
    <3>2. p[k] \in Reading
      BY <3>1, ParseBlockKeeps
    <3> QED
      BY <3>2
  <2>3. \A k \in 0 .. n : k \in G
    <3> HIDE DEF G
    <3> QED
      BY <2>1, <2>2, Climb
  <2> QED
    BY <2>3
<1>4. ASSUME NEW k \in 1 .. n, p[k].ret = 0
      PROVE  /\ p[k - 1].ret = 0 /\ f.blocks[k].gap <= p[k - 1].gap_begin
             /\ p[k - 1].gap_begin - f.blocks[k].gap >= f.blocks[k].range
             /\ p[k].gap_begin = p[k - 1].gap_begin - f.blocks[k].gap - f.blocks[k].range
  <2>1. p[k - 1] \in Reading /\ f.blocks[k] \in Block /\ p[k] = ParseBlock(p[k - 1], f.blocks[k])
    BY <1>1, <1>2, <1>3
  <2> QED
    BY <1>4, <2>1, ParseBlockKeeps
<1>5. \A k \in 0 .. n : p[k].ret = 0
  <2> DEFINE G == {r \in 0 .. n : p[n - r].ret = 0}
  <2>1. 0 \in G
    BY <1>1
  <2>2. ASSUME NEW r \in 1 .. n, r - 1 \in G PROVE r \in G
    <3>1. n - (r - 1) \in 1 .. n /\ p[n - (r - 1)].ret = 0 /\ (n - (r - 1)) - 1 = n - r
      BY <2>2
    <3>2. p[n - r].ret = 0
      BY <1>4, <3>1
    <3> QED
      BY <3>2
  <2>3. \A r \in 0 .. n : r \in G
    <3> HIDE DEF G
    <3> QED
      BY <2>1, <2>2, Climb
  <2>4. ASSUME NEW k \in 0 .. n PROVE p[k].ret = 0
    <3>1. n - k \in 0 .. n /\ n - (n - k) = k
      OBVIOUS
    <3>2. p[n - (n - k)].ret = 0
      BY <2>3, <3>1
    <3> QED
      BY <3>1, <3>2
  <2> QED
    BY <2>4
<1>6. p[0].gap_begin = f.largest - f.last_range - 1
  BY <1>1 DEF Start
<1>7. \A k \in 0 .. n : p[k].gap_begin \in Nat
  <2> DEFINE G == {k \in 0 .. n : p[k].gap_begin \in Nat}
  <2>1. 0 \in G
    BY <1>2, <1>6
  <2>2. ASSUME NEW k \in 1 .. n, k - 1 \in G PROVE k \in G
    <3>1. p[k - 1].gap_begin \in Nat /\ f.blocks[k].gap \in Nat /\ f.blocks[k].range \in Nat
      BY <1>2, <2>2 DEF Block
    <3>2. p[k].ret = 0
      BY <1>5
    <3> DEFINE g == p[k - 1].gap_begin
               a == f.blocks[k].gap
               r == f.blocks[k].range
    <3>3. g - a >= r /\ p[k].gap_begin = g - a - r
      BY <1>4, <3>2
    <3> HIDE DEF g, a, r
    <3>4. p[k].gap_begin \in Nat
      BY <3>1, <3>3 DEF g, a, r
    <3> QED
      BY <3>4
  <2>3. \A k \in 0 .. n : k \in G
    <3> HIDE DEF G
    <3> QED
      BY <2>1, <2>2, Climb
  <2> QED
    BY <2>3
<1> DEFINE hi == [k \in 1 .. n + 1 |-> IF k = 1 THEN f.largest ELSE p[k - 2].gap_begin - f.blocks[k - 1].gap]
           lo == [k \in 1 .. n + 1 |-> p[k - 1].gap_begin + 1]
<1>8. hi[1] = f.largest /\ lo[1] = f.largest - f.last_range
  <2>1. 1 \in 1 .. n + 1 /\ 1 - 1 = 0
    OBVIOUS
  <2> QED
    BY <1>2, <1>6, <2>1
<1>9. \A k \in 1 .. n + 1 : lo[k] \in Nat \ {0}
  BY <1>7
<1>10. \A k \in 1 .. n : /\ hi[k + 1] = lo[k] - 1 - f.blocks[k].gap
                         /\ lo[k + 1] = hi[k + 1] - f.blocks[k].range + 1
                         /\ hi[k + 1] \in Nat /\ hi[k + 1] >= f.blocks[k].range
  <2> TAKE k \in 1 .. n
  <2> DEFINE b == f.blocks[k]
             g == p[k - 1].gap_begin
  <2>1. k + 1 \in 1 .. n + 1 /\ k \in 1 .. n + 1 /\ (k + 1) - 2 = k - 1 /\ (k + 1) - 1 = k /\ k + 1 # 1
    OBVIOUS
  <2>2. hi[k + 1] = g - b.gap /\ lo[k] = g + 1 /\ lo[k + 1] = p[k].gap_begin + 1
    BY <2>1
  <2>3. b.gap \in Nat /\ b.range \in Nat /\ g \in Nat
    BY <1>2, <1>7 DEF Block
  <2>4. b.gap <= g /\ g - b.gap >= b.range /\ p[k].gap_begin = g - b.gap - b.range
    BY <1>4, <1>5
  <2> HIDE DEF b, g, hi, lo
  <2>5. hi[k + 1] \in Nat /\ hi[k + 1] >= b.range
    BY <2>2, <2>3, <2>4
  <2>6. lo[k] - 1 = g
    BY <2>2, <2>3
  <2>7. hi[k + 1] = lo[k] - 1 - b.gap
    BY <2>2, <2>6
  <2>8. lo[k + 1] = hi[k + 1] - b.range + 1
    BY <2>2, <2>4
  <2> QED
    BY <2>5, <2>7, <2>8 DEF b
<1> HIDE DEF hi, lo
<1>11. ASSUME NEW k \in 1 .. n + 1 PROVE hi[k] \in Nat /\ lo[k] <= hi[k] + 1
  <2>1. CASE k = 1
    BY <1>2, <1>8, <2>1
  <2>2. CASE k # 1
    <3>1. k - 1 \in 1 .. n /\ (k - 1) + 1 = k
      BY <2>2
    <3>2. hi[k] \in Nat /\ lo[k] = hi[k] - f.blocks[k - 1].range + 1 /\ f.blocks[k - 1] \in Block
      BY <1>2, <1>10, <3>1
    <3> QED
      BY <3>2 DEF Block
  <2> QED
    BY <2>1, <2>2
<1>12. ASSUME NEW k \in 1 .. n
       PROVE  /\ hi[k + 1] <= lo[k] - 1
              /\ f.blocks[k].gap = lo[k] - 1 - hi[k + 1] /\ f.blocks[k].range = hi[k + 1] - lo[k + 1] + 1
  <2> DEFINE a == f.blocks[k].gap
             r == f.blocks[k].range
             h == hi[k + 1]
             l == lo[k + 1]
             m == lo[k]
  <2>1. k \in 1 .. n + 1 /\ k + 1 \in 1 .. n + 1
    OBVIOUS
  <2>2. a \in Nat /\ r \in Nat /\ m \in Nat /\ l \in Nat /\ h \in Nat
    BY <1>2, <1>9, <1>10, <2>1 DEF Block
  <2>3. h = m - 1 - a /\ l = h - r + 1
    BY <1>10
  <2> HIDE DEF a, r, h, l, m
  <2>4. h <= m - 1 /\ a = m - 1 - h /\ r = h - l + 1
    BY <2>2, <2>3
  <2> QED
    BY <2>4 DEF a, r, h, l, m
<1>13. f.largest = hi[1] /\ f.last_range = hi[1] - lo[1]
  BY <1>2, <1>8
<1>14. Runs(f, hi, lo, n)
  BY <1>9, <1>11, <1>12, <1>13 DEF Runs
<1> QED
  BY <1>14

\* Runs that are read come one below the other.
LEMMA RunsDescend ==
  ASSUME NEW f, NEW hi, NEW lo, NEW n \in Nat, Runs(f, hi, lo, n), NEW k \in 1 .. n + 1, NEW l \in 1 .. n + 1, k < l
  PROVE  hi[l] <= lo[k] - 1
<1> DEFINE G == {r \in 0 .. n - k : hi[k + 1 + r] <= lo[k] - 1}
<1>1. n - k \in Nat /\ k \in 1 .. n
  OBVIOUS
<1>2. 0 \in G
  <2>1. hi[k + 1] <= lo[k] - 1
    BY <1>1 DEF Runs
  <2> QED
    BY <1>1, <2>1
<1>3. ASSUME NEW r \in 1 .. n - k, r - 1 \in G PROVE r \in G
  <2> DEFINE a == k + 1 + (r - 1)
  <2>1. a \in 1 .. n /\ a \in 1 .. n + 1 /\ a + 1 \in 1 .. n + 1 /\ a + 1 = k + 1 + r
    BY <1>1
  <2>2. hi[a] <= lo[k] - 1
    BY <1>3
  <2> HIDE DEF a
  <2>3. hi[a] \in Nat /\ lo[a] \in Nat /\ lo[k] \in Nat /\ hi[a + 1] \in Nat /\ lo[a] <= hi[a] + 1
    BY <2>1 DEF Runs
  <2>4. hi[a + 1] <= lo[a] - 1
    BY <2>1 DEF Runs
  <2>5. hi[a + 1] <= lo[k] - 1
    BY <2>2, <2>3, <2>4
  <2> QED
    BY <2>1, <2>5
<1>4. \A r \in 0 .. n - k : r \in G
  <2> HIDE DEF G
  <2> QED
    BY <1>1, <1>2, <1>3, Climb
<1>5. l - (k + 1) \in 0 .. n - k /\ k + 1 + (l - (k + 1)) = l
  OBVIOUS
<1>6. hi[k + 1 + (l - (k + 1))] <= lo[k] - 1
  BY <1>4, <1>5
<1> QED
  BY <1>5, <1>6

\* Each range without a gap ends with one of the runs, so as many runs are just
\* these ranges.
LEMMA RunsAreSpans ==
  ASSUME NEW f, NEW hi, NEW lo, NEW n \in Nat, Runs(f, hi, lo, n),
         NEW S, S = Covered(hi, lo, n + 1), Cardinality(Tops(S)) = n + 1
  PROVE  Spans(S, hi, lo, n + 1)
<1> DEFINE m == n + 1
           H == {hi[k] : k \in 1 .. m}
           e == [k \in 1 .. m |-> hi[k]]
<1>1. m \in Nat /\ \A k \in 1 .. m : hi[k] \in Nat /\ lo[k] \in Nat
  BY DEF Runs
<1>2. \A x : x \in S <=> \E k \in 1 .. m : x \in lo[k] .. hi[k]
  BY DEF Covered
<1>3. ASSUME NEW t \in Tops(S) PROVE \E k \in 1 .. m : t = hi[k] /\ lo[k] <= hi[k]
  <2>1. t \in S /\ t + 1 \notin S
    BY DEF Tops
  <2>2. PICK k \in 1 .. m : t \in lo[k] .. hi[k]
    BY <1>2, <2>1
  <2>3. t + 1 \notin lo[k] .. hi[k]
    BY <1>2, <2>1
  <2>4. lo[k] \in Nat /\ hi[k] \in Nat
    BY <1>1
  <2>5. t = hi[k] /\ lo[k] <= hi[k]
    BY <2>2, <2>3, <2>4
  <2> QED
    BY <2>5
<1>4. e \in Surjection(1 .. m, H)
  BY DEF Surjection
<1>5. IsFiniteSet(1 .. m) /\ Cardinality(1 .. m) = m
  BY <1>1, FS_Interval
<1> HIDE DEF m
<1>6. IsFiniteSet(H) /\ Cardinality(H) <= m /\ (Cardinality(H) = m => e \in Injection(1 .. m, H))
  <2> HIDE DEF e, H
  <2> QED
    BY <1>4, <1>5, FS_Surjection
<1>7. Tops(S) \in SUBSET H
  BY <1>3
<1>8. Cardinality(Tops(S)) <= Cardinality(H) /\ (Cardinality(H) = Cardinality(Tops(S)) => H = Tops(S))
  <2> HIDE DEF H
  <2> QED
    BY <1>6, <1>7, FS_Subset
<1>9. Cardinality(H) \in Nat /\ Cardinality(Tops(S)) = m
  <2>1. Cardinality(H) \in Nat
    <3> HIDE DEF H
    <3> QED
      BY <1>6, FS_CardinalityType
  <2> QED
    BY <2>1 DEF m
<1>10. H = Tops(S) /\ e \in Injection(1 .. m, H)
  <2>1. Cardinality(H) = m
    <3> HIDE DEF H, e
    <3> QED
      BY <1>1, <1>6, <1>8, <1>9
  <2> QED
    BY <1>6, <1>8, <1>9, <2>1
<1>11. \A k, l \in 1 .. m : hi[k] = hi[l] => k = l
  BY <1>10 DEF Injection, IsInjective
<1>12. ASSUME NEW k \in 1 .. m PROVE lo[k] <= hi[k] /\ hi[k] \in Tops(S)
  <2>1. hi[k] \in Tops(S)
    BY <1>10
  <2>2. PICK l \in 1 .. m : hi[k] = hi[l] /\ lo[l] <= hi[l]
    BY <1>3, <2>1
  <2> QED
    BY <1>11, <2>1, <2>2
<1>13. ASSUME NEW k \in 1 .. m, NEW l \in 1 .. m, k < l PROVE hi[l] < lo[k] - 1
  <2>1. hi[l] <= lo[k] - 1
    BY <1>13, RunsDescend DEF m
  <2>2. lo[k] \in S
    <3>1. lo[k] \in lo[k] .. hi[k]
      BY <1>1, <1>12
    <3> QED
      BY <1>2, <3>1
  <2>3. hi[l] + 1 \notin S
    BY <1>12 DEF Tops
  <2>4. hi[l] \in Nat /\ lo[k] \in Nat
    BY <1>1
  <2> QED
    BY <2>1, <2>2, <2>3, <2>4
<1>14. \A k, l \in 1 .. m : k < l => hi[l] < lo[k] - 1
  BY <1>13
<1>15. \A k \in 1 .. m : hi[k] \in Nat /\ lo[k] \in Nat /\ lo[k] <= hi[k]
  BY <1>1, <1>12
<1>16. Spans(S, hi, lo, m)
  BY <1>2, <1>14, <1>15 DEF Spans
<1> QED
  BY <1>16 DEF m

\* Below 64 the bits are the numbers.
LEMMA BitsOfSmall ==
  ASSUME NEW S \in SUBSET (0 .. 63)
  PROVE  Bits(S) = S
<1>1. \A n \in 0 .. 63 : n % 64 = n
  OBVIOUS
<1>2. \A n \in S : n % 64 = n
  BY <1>1
<1>3. \A n : n \in Bits(S) <=> \E c \in S : n = c % 64
  BY DEF Bits
<1>4. \A n \in Bits(S) : n \in S
  BY <1>2, <1>3
<1>5. \A n \in S : n \in Bits(S)
  BY <1>2, <1>3
<1> QED
  BY <1>4, <1>5

\* So they tell them.
LEMMA BitsTellSmall ==
  ASSUME NEW S \in SUBSET (0 .. 63), NEW T \in SUBSET (0 .. 63), Bits(S) = Bits(T)
  PROVE  S = T
BY BitsOfSmall

\* A frame of the right size and with the mask of S is the one for S.
LEMMA MaskTellsFrame ==
  ASSUME NEW f \in Frame, f.whole, f.last_range < f.largest, f.num_block = Len(f.blocks), f.largest <= 63,
         NEW S \in SUBSET (0 .. 63), Cardinality(Tops(S)) = f.num_block + 1,
         Parsed(f).ret = 0, Parsed(f).acked_mask = Bits(S)
  PROVE  f = FrameOf(S)
<1>1. f.largest \in Nat /\ f.last_range \in Nat /\ f.num_block \in Nat /\ f.blocks \in Seq(Block)
  BY DEF Frame
<1>2. PICK n \in Nat : n = Len(f.blocks)
  BY <1>1
<1>3. PICK hi, lo : Runs(f, hi, lo, n)
  BY <1>2, ReadAsRuns
<1> DEFINE m == n + 1
           C == Covered(hi, lo, m)
<1>4. Bits(C) = Bits(S)
  BY <1>2, <1>3, RunsAreRead
<1>5. C \in SUBSET (0 .. 63)
  <2>1. ASSUME NEW k \in 1 .. m, NEW x \in lo[k] .. hi[k] PROVE x \in 0 .. 63
    <3>1. hi[k] \in Nat /\ lo[k] \in Nat /\ hi[1] \in Nat /\ lo[1] \in Nat /\ hi[1] = f.largest
          /\ f.last_range = hi[1] - lo[1]
      <4>1. 1 \in 1 .. n + 1
        OBVIOUS
      <4> QED
        BY <1>3, <4>1 DEF Runs
    <3>2. k = 1 \/ hi[k] <= lo[1] - 1
      <4>1. 1 \in 1 .. n + 1 /\ k \in 1 .. n + 1 /\ (k = 1 \/ 1 < k)
        OBVIOUS
      <4> QED
        BY <1>3, <4>1, RunsDescend
    <3>3. lo[1] <= hi[1]
      BY <1>1, <3>1
    <3>4. hi[k] <= 63
      BY <3>1, <3>2, <3>3
    <3> QED
      BY <3>1, <3>4
  <2>2. \A x \in C : \E k \in 1 .. m : x \in lo[k] .. hi[k]
    BY DEF Covered
  <2> HIDE DEF m, C
  <2> QED
    BY <2>1, <2>2
<1>6. C = S
  <2> HIDE DEF C
  <2> QED
    BY <1>4, <1>5, BitsTellSmall
<1>7. Spans(S, hi, lo, m)
  <2>1. S = Covered(hi, lo, n + 1) /\ Cardinality(Tops(S)) = n + 1
    BY <1>2, <1>6
  <2> QED
    BY <1>3, <2>1, RunsAreSpans
<1>8. FrameOf(S) = SpanFrame(hi, lo, m)
  <2>1. m \in Nat /\ m >= 1
    OBVIOUS
  <2> HIDE DEF m
  <2> QED
    BY <1>7, <2>1, FrameOfSpans
<1>9. f.blocks = [k \in 1 .. n |-> [gap |-> lo[k] - 1 - hi[k + 1], range |-> hi[k + 1] - lo[k + 1] + 1]]
  <2>1. ASSUME NEW k \in 1 .. n
        PROVE  f.blocks[k] = [gap |-> lo[k] - 1 - hi[k + 1], range |-> hi[k + 1] - lo[k + 1] + 1]
    <3>1. f.blocks[k] \in Block
      BY <1>1, <1>2
    <3>2. f.blocks[k].gap = lo[k] - 1 - hi[k + 1] /\ f.blocks[k].range = hi[k + 1] - lo[k + 1] + 1
      BY <1>3 DEF Runs
    <3>3. f.blocks[k] = [gap |-> f.blocks[k].gap, range |-> f.blocks[k].range]
      BY <3>1 DEF Block
    <3> QED
      BY <3>2, <3>3
  <2>2. f.blocks = [k \in 1 .. n |-> f.blocks[k]]
    BY <1>1, <1>2
  <2> QED
    BY <2>1, <2>2
<1>10. f = [whole |-> TRUE, largest |-> hi[1], last_range |-> hi[1] - lo[1], num_block |-> n, blocks |-> f.blocks]
  <2>1. f.whole = TRUE
    BY DEF Frame
  <2>2. f.largest = hi[1] /\ f.last_range = hi[1] - lo[1] /\ f.num_block = n
    BY <1>2, <1>3 DEF Runs
  <2>3. f = [whole |-> f.whole, largest |-> f.largest, last_range |-> f.last_range,
             num_block |-> f.num_block, blocks |-> f.blocks]
    BY DEF Frame
  <2> QED
    BY <2>1, <2>2, <2>3
<1>11. m - 1 = n
  OBVIOUS
<1> QED
  BY <1>8, <1>9, <1>10, <1>11 DEF SpanFrame

-----------------------------------------------------------------------------
(***************************************************************************)
(* SackTest: the table of expected frames.                                 *)
(***************************************************************************)

\* The numbers that have arrived, and the table of what their frames say.
Arrived(r) == {test_pn64[k] : k \in 1 .. r}

Row(r, S, hi, lo) ==
  /\ Spans(S, hi, lo, expected_ack[r].num_blocks + 1)
  /\ \A k \in 1 .. expected_ack[r].num_blocks + 1 : lo[k] # 0
  /\ hi[1] = expected_ack[r].highest_received /\ hi[1] - lo[1] = expected_ack[r].last_range

\* One more number.
LEMMA ArrivedNext ==
  ASSUME NEW r \in Nat
  PROVE  Arrived(r + 1) = Arrived(r) \cup {test_pn64[r + 1]}
<1>1. \A k : k \in 1 .. r + 1 <=> k \in 1 .. r \/ k = r + 1
  OBVIOUS
<1> QED
  BY <1>1 DEF Arrived

\* For each round the ranges of the numbers that have arrived, and that the table
\* expects them.
LEMMA Rows ==
  /\ Row(1, Arrived(1), <<3>>, <<3>>)
  /\ Row(2, Arrived(2), <<4>>, <<3>>)
  /\ Row(3, Arrived(3), <<4>>, <<2>>)
  /\ Row(4, Arrived(4), <<7, 4>>, <<7, 2>>)
  /\ Row(5, Arrived(5), <<8, 4>>, <<7, 2>>)
  /\ Row(6, Arrived(6), <<11, 8, 4>>, <<11, 7, 2>>)
  /\ Row(7, Arrived(7), <<12, 8, 4>>, <<11, 7, 2>>)
  /\ Row(8, Arrived(8), <<13, 8, 4>>, <<11, 7, 2>>)
  /\ Row(9, Arrived(9), <<17, 13, 8, 4>>, <<17, 11, 7, 2>>)
  /\ Row(10, Arrived(10), <<19, 17, 13, 8, 4>>, <<19, 17, 11, 7, 2>>)
  /\ Row(11, Arrived(11), <<21, 19, 17, 13, 8, 4>>, <<21, 19, 17, 11, 7, 2>>)
  /\ Row(12, Arrived(12), <<21, 19, 13, 8, 4>>, <<21, 17, 11, 7, 2>>)
  /\ Row(13, Arrived(13), <<21, 19, 13, 8, 4>>, <<21, 16, 11, 7, 2>>)
  /\ Row(14, Arrived(14), <<21, 13, 8, 4>>, <<16, 11, 7, 2>>)
  /\ Row(15, Arrived(15), <<21, 13, 8, 4>>, <<16, 10, 7, 2>>)
  /\ Row(16, Arrived(16), <<21, 13, 8, 5>>, <<16, 10, 7, 2>>)
  /\ Row(17, Arrived(17), <<21, 13, 8>>, <<16, 10, 2>>)
  /\ Row(18, Arrived(18), <<21, 13>>, <<16, 2>>)
  /\ Row(19, Arrived(19), <<21, 13>>, <<16, 1>>)
  /\ Row(20, Arrived(20), <<21, 14>>, <<16, 1>>)
  /\ Row(21, Arrived(21), <<21>>, <<1>>)
<1>0. Arrived(0) = {}
  BY DEF Arrived
<1>1. Arrived(1) = {3}
  <2>1. Arrived(0 + 1) = Arrived(0) \cup {test_pn64[0 + 1]}
    BY ArrivedNext
  <2> QED
    BY <1>0, <2>1 DEF test_pn64
<1>2. Row(1, Arrived(1), <<3>>, <<3>>)
  BY <1>1 DEF Row, Spans, expected_ack, Expect
<1>3. Arrived(2) = {3, 4}
  <2>1. Arrived(1 + 1) = Arrived(1) \cup {test_pn64[1 + 1]}
    BY ArrivedNext
  <2> QED
    BY <1>1, <2>1 DEF test_pn64
<1>4. Row(2, Arrived(2), <<4>>, <<3>>)
  BY <1>3 DEF Row, Spans, expected_ack, Expect
<1>5. Arrived(3) = {3, 4, 2}
  <2>1. Arrived(2 + 1) = Arrived(2) \cup {test_pn64[2 + 1]}
    BY ArrivedNext
  <2> QED
    BY <1>3, <2>1 DEF test_pn64
<1>6. Row(3, Arrived(3), <<4>>, <<2>>)
  BY <1>5 DEF Row, Spans, expected_ack, Expect
<1>7. Arrived(4) = {3, 4, 2, 7}
  <2>1. Arrived(3 + 1) = Arrived(3) \cup {test_pn64[3 + 1]}
    BY ArrivedNext
  <2> QED
    BY <1>5, <2>1 DEF test_pn64
<1>8. Row(4, Arrived(4), <<7, 4>>, <<7, 2>>)
  BY <1>7 DEF Row, Spans, expected_ack, Expect
<1>9. Arrived(5) = {3, 4, 2, 7, 8}
  <2>1. Arrived(4 + 1) = Arrived(4) \cup {test_pn64[4 + 1]}
    BY ArrivedNext
  <2> QED
    BY <1>7, <2>1 DEF test_pn64
<1>10. Row(5, Arrived(5), <<8, 4>>, <<7, 2>>)
  BY <1>9 DEF Row, Spans, expected_ack, Expect
<1>11. Arrived(6) = {3, 4, 2, 7, 8, 11}
  <2>1. Arrived(5 + 1) = Arrived(5) \cup {test_pn64[5 + 1]}
    BY ArrivedNext
  <2> QED
    BY <1>9, <2>1 DEF test_pn64
<1>12. Row(6, Arrived(6), <<11, 8, 4>>, <<11, 7, 2>>)
  BY <1>11 DEF Row, Spans, expected_ack, Expect
<1>13. Arrived(7) = {3, 4, 2, 7, 8, 11, 12}
  <2>1. Arrived(6 + 1) = Arrived(6) \cup {test_pn64[6 + 1]}
    BY ArrivedNext
  <2> QED
    BY <1>11, <2>1 DEF test_pn64
<1>14. Row(7, Arrived(7), <<12, 8, 4>>, <<11, 7, 2>>)
  BY <1>13 DEF Row, Spans, expected_ack, Expect
<1>15. Arrived(8) = {3, 4, 2, 7, 8, 11, 12, 13}
  <2>1. Arrived(7 + 1) = Arrived(7) \cup {test_pn64[7 + 1]}
    BY ArrivedNext
  <2> QED
    BY <1>13, <2>1 DEF test_pn64
<1>16. Row(8, Arrived(8), <<13, 8, 4>>, <<11, 7, 2>>)
  BY <1>15 DEF Row, Spans, expected_ack, Expect
<1>17. Arrived(9) = {3, 4, 2, 7, 8, 11, 12, 13, 17}
  <2>1. Arrived(8 + 1) = Arrived(8) \cup {test_pn64[8 + 1]}
    BY ArrivedNext
  <2> QED
    BY <1>15, <2>1 DEF test_pn64
<1>18. Row(9, Arrived(9), <<17, 13, 8, 4>>, <<17, 11, 7, 2>>)
  BY <1>17 DEF Row, Spans, expected_ack, Expect
<1>19. Arrived(10) = {3, 4, 2, 7, 8, 11, 12, 13, 17, 19}
  <2>1. Arrived(9 + 1) = Arrived(9) \cup {test_pn64[9 + 1]}
    BY ArrivedNext
  <2> QED
    BY <1>17, <2>1 DEF test_pn64
<1>20. Row(10, Arrived(10), <<19, 17, 13, 8, 4>>, <<19, 17, 11, 7, 2>>)
  BY <1>19 DEF Row, Spans, expected_ack, Expect
<1>21. Arrived(11) = {3, 4, 2, 7, 8, 11, 12, 13, 17, 19, 21}
  <2>1. Arrived(10 + 1) = Arrived(10) \cup {test_pn64[10 + 1]}
    BY ArrivedNext
  <2> QED
    BY <1>19, <2>1 DEF test_pn64
<1>22. Row(11, Arrived(11), <<21, 19, 17, 13, 8, 4>>, <<21, 19, 17, 11, 7, 2>>)
  BY <1>21 DEF Row, Spans, expected_ack, Expect
<1>23. Arrived(12) = {3, 4, 2, 7, 8, 11, 12, 13, 17, 19, 21, 18}
  <2>1. Arrived(11 + 1) = Arrived(11) \cup {test_pn64[11 + 1]}
    BY ArrivedNext
  <2> QED
    BY <1>21, <2>1 DEF test_pn64
<1>24. Row(12, Arrived(12), <<21, 19, 13, 8, 4>>, <<21, 17, 11, 7, 2>>)
  BY <1>23 DEF Row, Spans, expected_ack, Expect
<1>25. Arrived(13) = {3, 4, 2, 7, 8, 11, 12, 13, 17, 19, 21, 18, 16}
  <2>1. Arrived(12 + 1) = Arrived(12) \cup {test_pn64[12 + 1]}
    BY ArrivedNext
  <2> QED
    BY <1>23, <2>1 DEF test_pn64
<1>26. Row(13, Arrived(13), <<21, 19, 13, 8, 4>>, <<21, 16, 11, 7, 2>>)
  BY <1>25 DEF Row, Spans, expected_ack, Expect
<1>27. Arrived(14) = {3, 4, 2, 7, 8, 11, 12, 13, 17, 19, 21, 18, 16, 20}
  <2>1. Arrived(13 + 1) = Arrived(13) \cup {test_pn64[13 + 1]}
    BY ArrivedNext
  <2> QED
    BY <1>25, <2>1 DEF test_pn64
<1>28. Row(14, Arrived(14), <<21, 13, 8, 4>>, <<16, 11, 7, 2>>)
  BY <1>27 DEF Row, Spans, expected_ack, Expect
<1>29. Arrived(15) = {3, 4, 2, 7, 8, 11, 12, 13, 17, 19, 21, 18, 16, 20, 10}
  <2>1. Arrived(14 + 1) = Arrived(14) \cup {test_pn64[14 + 1]}
    BY ArrivedNext
  <2> QED
    BY <1>27, <2>1 DEF test_pn64
<1>30. Row(15, Arrived(15), <<21, 13, 8, 4>>, <<16, 10, 7, 2>>)
  BY <1>29 DEF Row, Spans, expected_ack, Expect
<1>31. Arrived(16) = {3, 4, 2, 7, 8, 11, 12, 13, 17, 19, 21, 18, 16, 20, 10, 5}
  <2>1. Arrived(15 + 1) = Arrived(15) \cup {test_pn64[15 + 1]}
    BY ArrivedNext
  <2> QED
    BY <1>29, <2>1 DEF test_pn64
<1>32. Row(16, Arrived(16), <<21, 13, 8, 5>>, <<16, 10, 7, 2>>)
  BY <1>31 DEF Row, Spans, expected_ack, Expect
<1>33. Arrived(17) = {3, 4, 2, 7, 8, 11, 12, 13, 17, 19, 21, 18, 16, 20, 10, 5, 6}
  <2>1. Arrived(16 + 1) = Arrived(16) \cup {test_pn64[16 + 1]}
    BY ArrivedNext
  <2> QED
    BY <1>31, <2>1 DEF test_pn64
<1>34. Row(17, Arrived(17), <<21, 13, 8>>, <<16, 10, 2>>)
  BY <1>33 DEF Row, Spans, expected_ack, Expect
<1>35. Arrived(18) = {3, 4, 2, 7, 8, 11, 12, 13, 17, 19, 21, 18, 16, 20, 10, 5, 6, 9}
  <2>1. Arrived(17 + 1) = Arrived(17) \cup {test_pn64[17 + 1]}
    BY ArrivedNext
  <2> QED
    BY <1>33, <2>1 DEF test_pn64
<1>36. Row(18, Arrived(18), <<21, 13>>, <<16, 2>>)
  BY <1>35 DEF Row, Spans, expected_ack, Expect
<1>37. Arrived(19) = {3, 4, 2, 7, 8, 11, 12, 13, 17, 19, 21, 18, 16, 20, 10, 5, 6, 9, 1}
  <2>1. Arrived(18 + 1) = Arrived(18) \cup {test_pn64[18 + 1]}
    BY ArrivedNext
  <2> QED
    BY <1>35, <2>1 DEF test_pn64
<1>38. Row(19, Arrived(19), <<21, 13>>, <<16, 1>>)
  BY <1>37 DEF Row, Spans, expected_ack, Expect
<1>39. Arrived(20) = {3, 4, 2, 7, 8, 11, 12, 13, 17, 19, 21, 18, 16, 20, 10, 5, 6, 9, 1, 14}
  <2>1. Arrived(19 + 1) = Arrived(19) \cup {test_pn64[19 + 1]}
    BY ArrivedNext
  <2> QED
    BY <1>37, <2>1 DEF test_pn64
<1>40. Row(20, Arrived(20), <<21, 14>>, <<16, 1>>)
  BY <1>39 DEF Row, Spans, expected_ack, Expect
<1>41. Arrived(21) = {3, 4, 2, 7, 8, 11, 12, 13, 17, 19, 21, 18, 16, 20, 10, 5, 6, 9, 1, 14, 15}
  <2>1. Arrived(20 + 1) = Arrived(20) \cup {test_pn64[20 + 1]}
    BY ArrivedNext
  <2> QED
    BY <1>39, <2>1 DEF test_pn64
<1>42. Row(21, Arrived(21), <<21>>, <<1>>)
  BY <1>41 DEF Row, Spans, expected_ack, Expect
<1> QED
  BY <1>2, <1>4, <1>6, <1>8, <1>10, <1>12, <1>14, <1>16, <1>18, <1>20, <1>22,
     <1>24, <1>26, <1>28, <1>30, <1>32, <1>34, <1>36, <1>38, <1>40, <1>42

\* So each round has its row.
LEMMA RowExists ==
  ASSUME NEW r \in 1 .. 21
  PROVE  \E hi, lo : Row(r, Arrived(r), hi, lo)
<1> DEFINE G == {k \in 1 .. 21 : \E hi, lo : Row(k, Arrived(k), hi, lo)}
<1>1. 1 \in G /\ 2 \in G /\ 3 \in G /\ 4 \in G /\ 5 \in G /\ 6 \in G /\ 7 \in G
  BY Rows
<1>2. 8 \in G /\ 9 \in G /\ 10 \in G /\ 11 \in G /\ 12 \in G /\ 13 \in G /\ 14 \in G
  BY Rows
<1>3. 15 \in G /\ 16 \in G /\ 17 \in G /\ 18 \in G /\ 19 \in G /\ 20 \in G /\ 21 \in G
  BY Rows
<1>4. r \in G
  <2> HIDE DEF G
  <2> QED
    BY <1>1, <1>2, <1>3
<1> QED
  BY <1>4

\* The frame for some ranges reads as runs.
LEMMA SpansAreRuns ==
  ASSUME NEW S, NEW hi, NEW lo, NEW m \in Nat, m >= 1, Spans(S, hi, lo, m), \A k \in 1 .. m : lo[k] # 0
  PROVE  Runs(SpanFrame(hi, lo, m), hi, lo, m - 1) /\ S = Covered(hi, lo, m)
<1> DEFINE n == m - 1
           f == SpanFrame(hi, lo, m)
<1>1. n \in Nat /\ n + 1 = m
  OBVIOUS
<1>2. \A k \in 1 .. n + 1 : hi[k] \in Nat /\ lo[k] \in Nat \ {0} /\ lo[k] <= hi[k] + 1
  BY <1>1 DEF Spans
<1>3. ASSUME NEW k \in 1 .. n PROVE hi[k + 1] <= lo[k] - 1
  <2>1. k \in 1 .. m /\ k + 1 \in 1 .. m /\ k < k + 1
    BY <1>1
  <2>2. hi[k + 1] < lo[k] - 1 /\ hi[k + 1] \in Nat /\ lo[k] \in Nat
    BY <2>1 DEF Spans
  <2> QED
    BY <2>2
<1>4. f.largest = hi[1] /\ f.last_range = hi[1] - lo[1] /\ f.blocks =
        [k \in 1 .. n |-> [gap |-> lo[k] - 1 - hi[k + 1], range |-> hi[k + 1] - lo[k + 1] + 1]]
  BY DEF SpanFrame
<1>5. \A k \in 1 .. n : f.blocks[k].gap = lo[k] - 1 - hi[k + 1] /\ f.blocks[k].range = hi[k + 1] - lo[k + 1] + 1
  BY <1>4
<1> HIDE DEF n, f
<1>6. Runs(f, hi, lo, n)
  BY <1>2, <1>3, <1>4, <1>5 DEF Runs
<1>7. S = Covered(hi, lo, m)
  <2>1. \A x : x \in Covered(hi, lo, m) <=> \E k \in 1 .. m : x \in lo[k] .. hi[k]
    BY DEF Covered
  <2>2. \A x : x \in S <=> x \in Covered(hi, lo, m)
    BY <2>1 DEF Spans
  <2>3. \A x \in Covered(hi, lo, m) : x \in S
    BY <2>2
  <2>4. \A x \in S : x \in Covered(hi, lo, m)
    BY <2>2
  <2> QED
    BY <2>3, <2>4
<1> QED
  BY <1>6, <1>7 DEF f, n

\* It has the type of a frame.
LEMMA SpanFrameType ==
  ASSUME NEW S, NEW hi, NEW lo, NEW m \in Nat, m >= 1, Spans(S, hi, lo, m)
  PROVE  SpanFrame(hi, lo, m) \in Frame /\ Len(SpanFrame(hi, lo, m).blocks) = m - 1
<1> DEFINE bs == [k \in 1 .. m - 1 |-> [gap |-> lo[k] - 1 - hi[k + 1], range |-> hi[k + 1] - lo[k + 1] + 1]]
<1>1. ASSUME NEW k \in 1 .. m - 1 PROVE bs[k] \in Block
  <2>1. k \in 1 .. m /\ k + 1 \in 1 .. m /\ k < k + 1
    OBVIOUS
  <2>2. hi[k + 1] < lo[k] - 1 /\ hi[k + 1] \in Nat /\ lo[k] \in Nat /\ lo[k + 1] \in Nat /\ lo[k + 1] <= hi[k + 1]
    BY <2>1 DEF Spans
  <2>3. lo[k] - 1 - hi[k + 1] \in Nat /\ hi[k + 1] - lo[k + 1] + 1 \in Nat
    BY <2>2
  <2> QED
    BY <2>3 DEF Block
<1>2. bs \in Seq(Block) /\ Len(bs) = m - 1
  <2>1. m - 1 \in Nat /\ DOMAIN bs = 1 .. m - 1
    OBVIOUS
  <2>2. bs \in [1 .. m - 1 -> Block]
    BY <1>1
  <2> HIDE DEF bs
  <2>3. bs \in Seq(Block)
    BY <2>1, <2>2
  <2> QED
    BY <2>1, <2>3
<1>3. hi[1] \in Nat /\ hi[1] - lo[1] \in Nat /\ m - 1 \in Nat
  <2>1. 1 \in 1 .. m
    OBVIOUS
  <2>2. hi[1] \in Nat /\ lo[1] \in Nat /\ lo[1] <= hi[1]
    BY <2>1 DEF Spans
  <2> QED
    BY <2>2
<1>4. SpanFrame(hi, lo, m) = [whole |-> TRUE, largest |-> hi[1], last_range |-> hi[1] - lo[1],
                              num_block |-> m - 1, blocks |-> bs]
  BY DEF SpanFrame
<1> HIDE DEF bs
<1> QED
  BY <1>2, <1>3, <1>4 DEF Frame

\* The frame says all about its numbers.
LEMMA SpanFrameTells ==
  ASSUME NEW S, NEW hi, NEW lo, NEW m \in Nat, m >= 1, Spans(S, hi, lo, m),
         NEW T, NEW hi2, NEW lo2, NEW m2 \in Nat, m2 >= 1, Spans(T, hi2, lo2, m2),
         SpanFrame(hi, lo, m) = SpanFrame(hi2, lo2, m2)
  PROVE  S = T
<1>1. m = m2
  BY DEF SpanFrame
<1>2. \A k \in 1 .. m : hi[k] \in Nat /\ lo[k] \in Nat /\ hi2[k] \in Nat /\ lo2[k] \in Nat
  BY <1>1 DEF Spans
<1> DEFINE G == {k \in 0 .. m - 1 : hi[k + 1] = hi2[k + 1] /\ lo[k + 1] = lo2[k + 1]}
<1>3. 0 \in G
  <2>1. hi[1] = hi2[1] /\ hi[1] - lo[1] = hi2[1] - lo2[1]
    BY DEF SpanFrame
  <2>2. 1 \in 1 .. m /\ 0 + 1 = 1
    OBVIOUS
  <2>3. hi[1] \in Nat /\ lo[1] \in Nat /\ lo2[1] \in Nat
    BY <1>2, <2>2
  <2> QED
    BY <2>1, <2>2, <2>3
<1>4. ASSUME NEW k \in 1 .. m - 1, k - 1 \in G PROVE k \in G
  <2>1. k \in 1 .. m /\ k + 1 \in 1 .. m /\ (k - 1) + 1 = k
    OBVIOUS
  <2>2. hi[k] = hi2[k] /\ lo[k] = lo2[k]
    BY <1>4, <2>1
  <2>3. /\ lo[k] - 1 - hi[k + 1] = lo2[k] - 1 - hi2[k + 1]
        /\ hi[k + 1] - lo[k + 1] + 1 = hi2[k + 1] - lo2[k + 1] + 1
    <3> DEFINE b == [c \in 1 .. m - 1 |-> [gap |-> lo[c] - 1 - hi[c + 1], range |-> hi[c + 1] - lo[c + 1] + 1]]
               b2 == [c \in 1 .. m - 1 |-> [gap |-> lo2[c] - 1 - hi2[c + 1], range |-> hi2[c + 1] - lo2[c + 1] + 1]]
    <3>1. b = b2
      BY <1>1 DEF SpanFrame
    <3>2. b[k].gap = lo[k] - 1 - hi[k + 1] /\ b[k].range = hi[k + 1] - lo[k + 1] + 1
      OBVIOUS
    <3>3. b2[k].gap = lo2[k] - 1 - hi2[k + 1] /\ b2[k].range = hi2[k + 1] - lo2[k + 1] + 1
      OBVIOUS
    <3> HIDE DEF b, b2
    <3> QED
      BY <3>1, <3>2, <3>3
  <2>4. hi[k + 1] \in Nat /\ lo[k + 1] \in Nat /\ hi2[k + 1] \in Nat /\ lo2[k + 1] \in Nat /\ lo[k] \in Nat
    BY <1>2, <2>1
  <2> HIDE DEF G
  <2>5. hi[k + 1] = hi2[k + 1] /\ lo[k + 1] = lo2[k + 1]
    BY <2>2, <2>3, <2>4
  <2> QED
    BY <2>5 DEF G
<1>5. \A k \in 0 .. m - 1 : k \in G
  <2>1. m - 1 \in Nat
    OBVIOUS
  <2> HIDE DEF G
  <2> QED
    BY <1>3, <1>4, <2>1, Climb
<1>6. ASSUME NEW k \in 1 .. m PROVE hi[k] = hi2[k] /\ lo[k] = lo2[k]
  <2>1. k - 1 \in 0 .. m - 1 /\ (k - 1) + 1 = k
    OBVIOUS
  <2>2. k - 1 \in G
    BY <1>5, <2>1
  <2> QED
    BY <2>1, <2>2
<1>7. \A x : x \in S <=> x \in T
  BY <1>1, <1>6 DEF Spans
<1>8. (\A x \in S : x \in T) /\ (\A x \in T : x \in S)
  BY <1>7
<1> QED
  BY <1>8

-----------------------------------------------------------------------------
(***************************************************************************)
(* SackTest: the only frame that is accepted.                              *)
(***************************************************************************)

\* The tables are of the numbers 1 to 21.
LEMMA Tables ==
  /\ Len(test_pn64) = 21 /\ \A k \in 1 .. 21 : test_pn64[k] \in 1 .. 21
  /\ \A k \in 1 .. 21 : expected_ack[k].num_blocks \in Nat /\ expected_ack[k].highest_received \in 1 .. 21
<1>1. Len(test_pn64) = 21
  BY DEF test_pn64
<1>2. \A k \in 1 .. 21 : test_pn64[k] \in 1 .. 21
  BY DEF test_pn64
<1>3. \A k \in 1 .. 21 : expected_ack[k].num_blocks \in Nat /\ expected_ack[k].highest_received \in 1 .. 21
  BY DEF expected_ack, Expect
<1> QED
  BY <1>1, <1>2, <1>3

\* The numbers that the list may hold.
LEMMA NumberIs == Number = 0 .. 23
<1>1. \A n \in 1 .. 21 : \E k \in 1 .. 21 : test_pn64[k] = n
  BY DEF test_pn64
<1>2. \A x : x \in Range(test_pn64) <=> \E k \in 1 .. 21 : x = test_pn64[k]
  BY DEF Range, test_pn64
<1>3. Range(test_pn64) = 1 .. 21
  BY <1>1, <1>2, Tables
<1> QED
  BY <1>3 DEF Number

\* The numbers are all different.
Position == <<19, 3, 1, 2, 16, 17, 4, 5, 18, 15, 6, 7, 8, 20, 21, 13, 9, 12, 10, 14, 11>>

LEMMA NumbersDiffer ==
  ASSUME NEW k \in 1 .. 21, NEW l \in 1 .. 21, test_pn64[k] = test_pn64[l]
  PROVE  k = l
<1>1. \A r \in 1 .. 21 : Position[test_pn64[r]] = r
  BY DEF Position, test_pn64
<1> QED
  BY <1>1

\* Only numbers of the table arrive.
LEMMA ArrivedType ==
  ASSUME NEW r \in 0 .. 21
  PROVE  Arrived(r) \subseteq 1 .. 21
BY Tables DEF Arrived

\* The masks are of the numbers below 64, so that they are these numbers.
LEMMA AcceptedFrame ==
  ASSUME NEW f \in Frame, i \in 1 .. 21, Accepts(f)
  PROVE  f = FrameOf(Arrived(i))
<1> DEFINE S == Arrived(i)
           m == expected_ack[i].num_blocks + 1
<1>1. PICK hi, lo : Row(i, S, hi, lo)
  BY RowExists
<1>2. m \in Nat /\ m >= 1 /\ Spans(S, hi, lo, m)
  BY <1>1, Tables DEF Row
<1>3. Cardinality(Tops(S)) = m
  <2> HIDE DEF m, S
  <2> QED
    BY <1>2, FrameOfSpans
<1>4. f.whole /\ f.last_range < f.largest /\ f.num_block = Len(f.blocks) /\ f.largest <= 63
      /\ m = f.num_block + 1 /\ Parsed(f).ret = 0
  <2>1. /\ f.whole /\ f.last_range < f.largest /\ f.num_block = Len(f.blocks)
        /\ f.largest = expected_ack[i].highest_received /\ f.num_block = expected_ack[i].num_blocks
        /\ Parsed(f).ret = 0
    BY DEF Accepts
  <2>2. expected_ack[i].highest_received \in 1 .. 21
    BY Tables
  <2> QED
    BY <2>1, <2>2
<1>5. Parsed(f).acked_mask = Bits(S)
  <2>1. Parsed(f).acked_mask = {test_pn64[k] % 64 : k \in 1 .. i}
    BY DEF Accepts, received_mask
  <2>2. Bits(S) = {test_pn64[k] % 64 : k \in 1 .. i}
    BY DEF Bits, Arrived
  <2> QED
    BY <2>1, <2>2
<1>6. S \in SUBSET (0 .. 63)
  <2>1. S \subseteq 1 .. 21
    BY ArrivedType
  <2> QED
    BY <2>1
<1> HIDE DEF m, S
<1>7. f = FrameOf(S)
  BY <1>3, <1>4, <1>5, <1>6, MaskTellsFrame
<1> QED
  BY <1>7 DEF S

\* The frame for what has arrived is accepted.
LEMMA FrameIsAccepted ==
  ASSUME i \in 1 .. 21
  PROVE  Accepts(FrameOf(Arrived(i)))
<1> DEFINE S == Arrived(i)
           m == expected_ack[i].num_blocks + 1
<1>1. PICK hi, lo : Row(i, S, hi, lo)
  BY RowExists
<1> DEFINE f == SpanFrame(hi, lo, m)
<1>2. m \in Nat /\ m >= 1 /\ m - 1 \in Nat /\ (m - 1) + 1 = m /\ Spans(S, hi, lo, m) /\ \A k \in 1 .. m : lo[k] # 0
  BY <1>1, Tables DEF Row
<1>3. expected_ack[i].highest_received = hi[1] /\ expected_ack[i].last_range = hi[1] - lo[1]
      /\ expected_ack[i].num_blocks = m - 1
  BY <1>1, Tables DEF Row
<1> HIDE DEF S, m
<1>4. FrameOf(S) = f
  BY <1>2, FrameOfSpans
<1>5. Runs(f, hi, lo, m - 1) /\ S = Covered(hi, lo, m)
  BY <1>2, SpansAreRuns
<1>6. Len(f.blocks) = m - 1
  BY <1>2, SpanFrameType
<1>7. f.whole /\ f.largest = hi[1] /\ f.last_range = hi[1] - lo[1] /\ f.num_block = m - 1
  BY DEF SpanFrame
<1>8. hi[1] - lo[1] < hi[1]
  <2>1. 1 \in 1 .. m
    BY <1>2
  <2>2. hi[1] \in Nat /\ lo[1] \in Nat /\ lo[1] # 0
    BY <1>2, <2>1 DEF Spans
  <2> QED
    BY <2>2
<1> HIDE DEF f
<1>9. Parsed(f).ret = 0 /\ Parsed(f).acked_mask = Bits(S)
  <2>1. Parsed(f).ret = 0 /\ Parsed(f).acked_mask = Bits(Covered(hi, lo, (m - 1) + 1))
    BY <1>2, <1>5, <1>6, RunsAreRead
  <2> QED
    BY <1>2, <1>5, <2>1
<1>10. received_mask = Bits(S)
  BY DEF received_mask, Bits, Arrived, S
<1>11. Accepts(f)
  BY <1>3, <1>6, <1>7, <1>8, <1>9, <1>10 DEF Accepts
<1> QED
  BY <1>4, <1>11 DEF S

\* Each set of numbers but the empty one has its frame.
LEMMA FrameOfType ==
  ASSUME NEW S \in SUBSET Number, S # {}
  PROVE  FrameOf(S) \in Frame
<1>1. S \in SUBSET (0 .. 23)
  BY NumberIs
<1>2. PICK m \in Nat \ {0} : \E hi, lo : Spans(S, hi, lo, m)
  BY <1>1, SpansExist
<1>3. PICK hi, lo : Spans(S, hi, lo, m)
  BY <1>2
<1>4. m \in Nat /\ m >= 1
  OBVIOUS
<1>5. FrameOf(S) = SpanFrame(hi, lo, m)
  BY <1>3, <1>4, FrameOfSpans
<1>6. SpanFrame(hi, lo, m) \in Frame
  BY <1>3, <1>4, SpanFrameType
<1> QED
  BY <1>5, <1>6

\* Different sets have different frames.
LEMMA FrameTells ==
  ASSUME NEW S \in SUBSET Number, S # {}, NEW T \in SUBSET Number, T # {}, FrameOf(S) = FrameOf(T)
  PROVE  S = T
<1>1. S \in SUBSET (0 .. 23) /\ T \in SUBSET (0 .. 23)
  BY NumberIs
<1>2. PICK m \in Nat \ {0} : \E hi, lo : Spans(S, hi, lo, m)
  BY <1>1, SpansExist
<1>3. PICK hi, lo : Spans(S, hi, lo, m)
  BY <1>2
<1>4. PICK m2 \in Nat \ {0} : \E hi2, lo2 : Spans(T, hi2, lo2, m2)
  BY <1>1, SpansExist
<1>5. PICK hi2, lo2 : Spans(T, hi2, lo2, m2)
  BY <1>4
<1>6. m \in Nat /\ m >= 1 /\ m2 \in Nat /\ m2 >= 1
  OBVIOUS
<1>7. FrameOf(S) = SpanFrame(hi, lo, m)
  BY <1>3, <1>6, FrameOfSpans
<1>8. FrameOf(T) = SpanFrame(hi2, lo2, m2)
  BY <1>5, <1>6, FrameOfSpans
<1>9. SpanFrame(hi, lo, m) = SpanFrame(hi2, lo2, m2)
  BY <1>7, <1>8
<1> QED
  BY <1>3, <1>5, <1>6, <1>9, SpanFrameTells

-----------------------------------------------------------------------------
(***************************************************************************)
(* SackTest: the calls of the engine and its errors.                       *)
(***************************************************************************)

\* An engine without numbers writes no frame that is whole.
LEMMA NoFrameType == NoFrame \in Frame
<1>1. <<>> \in Seq(Block)
  OBVIOUS
<1> QED
  BY <1>1 DEF NoFrame, Frame

\* A frame with a wrong field is a frame.
LEMMA EditedType ==
  ASSUME NEW f \in Frame, NEW g \in Edited(f)
  PROVE  g \in Frame
<1>0. f.blocks \in Seq(Block) /\ f.largest \in Nat /\ f.last_range \in Nat /\ f.num_block \in Nat
  BY DEF Frame
<1>1. ASSUME NEW n \in Nat, NEW m \in Near(n) PROVE m \in Nat
  BY <1>1 DEF Near
<1>2. CASE g = [f EXCEPT !.whole = FALSE]
  BY <1>2 DEF Frame
<1>3. CASE \E n \in Near(f.largest) : g = [f EXCEPT !.largest = n]
  BY <1>0, <1>1, <1>3 DEF Frame
<1>4. CASE \E n \in Near(f.last_range) : g = [f EXCEPT !.last_range = n]
  BY <1>0, <1>1, <1>4 DEF Frame
<1>5. CASE \E n \in Near(f.num_block) : g = [f EXCEPT !.num_block = n]
  BY <1>0, <1>1, <1>5 DEF Frame
<1>6. ASSUME NEW bs \in Seq(Block), g = [f EXCEPT !.blocks = bs] PROVE g \in Frame
  BY <1>6 DEF Frame
<1>7. CASE \E k \in DOMAIN f.blocks : g = [f EXCEPT !.blocks = RemoveAt(f.blocks, k)]
  <2>1. PICK k \in DOMAIN f.blocks : g = [f EXCEPT !.blocks = RemoveAt(f.blocks, k)]
    BY <1>7
  <2> DEFINE s == f.blocks
  <2>2. s \in Seq(Block) /\ k \in 1 .. Len(s) /\ Len(s) \in Nat
    BY <1>0
  <2> HIDE DEF s
  <2>3. SubSeq(s, 1, k - 1) \in Seq(Block) /\ SubSeq(s, k + 1, Len(s)) \in Seq(Block)
    BY <2>2
  <2>4. RemoveAt(s, k) \in Seq(Block)
    BY <2>3 DEF RemoveAt
  <2>5. RemoveAt(f.blocks, k) \in Seq(Block)
    BY <2>4 DEF s
  <2> QED
    BY <1>6, <2>1, <2>5
<1>8. CASE \E k \in DOMAIN f.blocks : \E b \in NearBlock(f.blocks[k]) : g = [f EXCEPT !.blocks[k] = b]
  <2>1. PICK k \in DOMAIN f.blocks : \E b \in NearBlock(f.blocks[k]) : g = [f EXCEPT !.blocks[k] = b]
    BY <1>8
  <2>2. PICK b \in NearBlock(f.blocks[k]) : g = [f EXCEPT !.blocks[k] = b]
    BY <2>1
  <2>3. f.blocks[k] \in Block
    BY <1>0, <2>1
  <2>4. b \in Block
    BY <1>1, <2>3 DEF NearBlock, Block
  <2>5. [f.blocks EXCEPT ![k] = b] \in Seq(Block)
    BY <1>0, <2>4
  <2>6. g = [f EXCEPT !.blocks = [f.blocks EXCEPT ![k] = b]]
    BY <2>2
  <2> QED
    BY <1>6, <2>5, <2>6
<1>9. CASE \E a \in {0, 1}, r \in {0, 1} : g = [f EXCEPT !.blocks = Append(f.blocks, [gap |-> a, range |-> r])]
  <2>1. PICK a \in {0, 1}, r \in {0, 1} : g = [f EXCEPT !.blocks = Append(f.blocks, [gap |-> a, range |-> r])]
    BY <1>9
  <2>2. [gap |-> a, range |-> r] \in Block
    BY DEF Block
  <2>3. Append(f.blocks, [gap |-> a, range |-> r]) \in Seq(Block)
    BY <1>0, <2>2
  <2> QED
    BY <1>6, <2>1, <2>3
<1> DEFINE Removed == {[f EXCEPT !.blocks = RemoveAt(@, k)] : k \in DOMAIN f.blocks}
           Added == {[f EXCEPT !.blocks = Append(@, [gap |-> a, range |-> r])] : a \in {0, 1}, r \in {0, 1}}
           Changed == UNION {{[f EXCEPT !.blocks[k] = b] : b \in NearBlock(f.blocks[k])} : k \in DOMAIN f.blocks}
<1>10. g \in Removed => g \in Frame
  BY <1>7
<1>11. g \in Added => g \in Frame
  BY <1>9
<1>12. g \in Changed => g \in Frame
  BY <1>8
<1>13. Edited(f) = {[f EXCEPT !.whole = FALSE]}
                     \cup {[f EXCEPT !.largest = n] : n \in Near(f.largest)}
                     \cup {[f EXCEPT !.last_range = n] : n \in Near(f.last_range)}
                     \cup {[f EXCEPT !.num_block = n] : n \in Near(f.num_block)}
                     \cup Removed \cup Added \cup Changed
  BY DEF Edited
<1> HIDE DEF Removed, Added, Changed
<1>14. \/ g = [f EXCEPT !.whole = FALSE]
       \/ \E n \in Near(f.largest) : g = [f EXCEPT !.largest = n]
       \/ \E n \in Near(f.last_range) : g = [f EXCEPT !.last_range = n]
       \/ \E n \in Near(f.num_block) : g = [f EXCEPT !.num_block = n]
       \/ g \in Removed \/ g \in Added \/ g \in Changed
  BY <1>13
<1> QED
  BY <1>2, <1>3, <1>4, <1>5, <1>10, <1>11, <1>12, <1>14

\* A call answers and keeps what it should, or there is one more error.
Says(c, truth, S) ==
  /\ c.says \in BOOLEAN /\ c.keeps \in SUBSET Known(test) /\ c.erred \in Errors
  /\ \/ c.erred = errors /\ c.says = truth /\ c.keeps = S
     \/ c.erred = Append(errors, "answer") /\ c.says = ~truth /\ c.keeps = S
     \/ c.erred \in {Append(errors, "loss"), Append(errors, "surplus")} /\ c.says = truth /\ c.keeps # S

\* A call is right, or adds its error.
LEMMA CallSays ==
  ASSUME NEW truth \in BOOLEAN, NEW S \in SUBSET Known(test), errors \in Errors, NEW c \in Call(truth, S)
  PROVE  Says(c, truth, S)
<1>0. \A k \in {"answer", "loss", "surplus"} : Append(errors, k) \in Errors
  BY DEF Errors
<1>1. CASE c = [says |-> truth, keeps |-> S, erred |-> errors]
  BY <1>1 DEF Says
<1>2. CASE c = Erring("answer", ~truth, S)
  BY <1>0, <1>2 DEF Says, Erring
<1>3. CASE \E n \in S : c = Erring("loss", truth, S \ {n})
  BY <1>0, <1>3 DEF Says, Erring
<1>4. CASE \E n \in Known(test) \ S : c = Erring("surplus", truth, S \cup {n})
  BY <1>0, <1>4 DEF Says, Erring
<1> QED
  BY <1>1, <1>2, <1>3, <1>4 DEF Call

\* An error more.
LEMMA MoreErrors ==
  ASSUME errors \in Errors, NEW k \in {"answer", "loss", "surplus"}
  PROVE  Len(errors) \in Nat /\ Len(Append(errors, k)) = Len(errors) + 1 /\ Append(errors, k) # errors
<1>1. errors \in Seq({"answer", "loss", "surplus"})
  BY DEF Errors
<1>2. Len(errors) \in Nat /\ Len(Append(errors, k)) = Len(errors) + 1
  BY <1>1
<1> QED
  BY <1>2

-----------------------------------------------------------------------------
(***************************************************************************)
(* SackTest: where the tests are.                                          *)
(***************************************************************************)

\* Where each test is in its loops.
SackWhere ==
  /\ pc \in {"old", "new"} => test = "sacktest"
  /\ pc \in {"prepare", "parse"} => test = "sendacktest"
  /\ pc = "ranges" => test = "ackrange_test" /\ j >= 1
  /\ pc = "final" => test # "sendacktest" /\ i = Length[test] + 1
  /\ pc = "new" => j >= i
  /\ pc # "end" => ret = 0
  /\ frame \in Frame

\* The rounds of the tests.
LEMMA Lengths ==
  /\ DOMAIN Length = {"sacktest", "sendacktest", "ackrange_test"}
  /\ Length["sacktest"] = 21 /\ Length["sendacktest"] = 21 /\ Length["ackrange_test"] = 8
  /\ Len(test_pn64) = 21
<1>1. Len(ack_range) = 8
  BY DEF ack_range
<1> QED
  BY <1>1, Tables DEF Length

\* At the start.
LEMMA SackInit == Init => TypeOK /\ SackWhere
<1> SUFFICES ASSUME Init PROVE TypeOK /\ SackWhere
  OBVIOUS
<1>1. errors \in Errors
  BY DEF Init, Errors
<1>2. 0 \in 0 .. MaxEdits
  BY ErrorAssumption
<1>3. Length[test] \in Nat /\ 1 <= Length[test]
  BY Lengths DEF Init
<1> QED
  BY <1>1, <1>2, <1>3, Lengths, NoFrameType DEF Init, TypeOK, SackWhere

\* Recording a number.
LEMMA RecordSays ==
  ASSUME TypeOK, test # "ackrange_test", NEW k \in 1 .. 21, NEW c \in Record(test_pn64[k])
  PROVE  Says(c, test_pn64[k] \in received, received \cup {test_pn64[k]})
<1>1. Known(test) = Number /\ test_pn64[k] \in Number /\ received \in SUBSET Number /\ errors \in Errors
  BY Tables, NumberIs DEF TypeOK, Known
<1>2. received \cup {test_pn64[k]} \in SUBSET Known(test) /\ (test_pn64[k] \in received) \in BOOLEAN
  BY <1>1
<1> QED
  BY <1>1, <1>2, CallSays DEF Record

\* Asking for a number leaves the list alone.
LEMMA AskSays ==
  ASSUME TypeOK, NEW truth \in BOOLEAN, NEW a \in Ask(truth)
  PROVE  Says(a, truth, received) /\ a.keeps = received
<1>1. a \in Call(truth, received) /\ a.keeps = received
  BY DEF Ask
<1>2. received \in SUBSET Known(test) /\ errors \in Errors
  BY DEF TypeOK
<1> QED
  BY <1>1, <1>2, CallSays

\* The type invariant, with where the tests are, is inductive.
LEMMA SackStep == TypeOK /\ SackWhere /\ [Next]_vars => TypeOK' /\ SackWhere'
<1> SUFFICES ASSUME TypeOK, SackWhere, [Next]_vars PROVE TypeOK' /\ SackWhere'
  OBVIOUS
<1>0. /\ i \in Nat /\ j \in Nat /\ Length[test] \in Nat /\ Length[test] <= 21
      /\ pc \notin {"final", "end"} => i <= Length[test]
  BY Lengths DEF TypeOK
<1>1. CASE RecordNew
  <2>1. /\ pc = "record" /\ test # "ackrange_test" /\ i \in 1 .. 21
        /\ UNCHANGED <<test, i, j, frame, edits>>
    BY <1>0, <1>1, Lengths DEF RecordNew, TypeOK
  <2>2. PICK c \in Record(test_pn64[i]) :
          /\ received' = c.keeps
          /\ errors' = c.erred
          /\ IF c.says THEN Fails
             ELSE pc' = (IF test = "sacktest" THEN "old" ELSE "prepare") /\ UNCHANGED ret
    BY <1>1 DEF RecordNew
  <2>3. c.keeps \in SUBSET Known(test) /\ c.erred \in Errors
    BY <2>1, RecordSays DEF Says
  <2>4. \/ pc' = "end" /\ ret' = -1
        \/ pc' = (IF test = "sacktest" THEN "old" ELSE "prepare") /\ UNCHANGED ret
    BY <2>2 DEF Fails
  <2>5. received' \in SUBSET Known(test)' /\ errors' \in Errors'
    BY <2>1, <2>2, <2>3 DEF Known, Errors
  <2> QED
    BY <1>0, <2>1, <2>4, <2>5, Lengths DEF TypeOK, SackWhere
<1>2. CASE CheckOld
  <2>1. pc = "old" /\ j < i /\ UNCHANGED <<test, i, frame, edits>> /\ test = "sacktest"
        /\ i \in 1 .. 21 /\ j + 1 \in 1 .. 21
    BY <1>0, <1>2, Lengths DEF CheckOld, TypeOK, SackWhere
  <2>2. PICK a \in Ask(test_pn64[j + 1] \in received), c \in Record(test_pn64[j + 1]) :
          /\ received' = c.keeps
          /\ \/ a.erred = errors /\ errors' = c.erred
             \/ c.erred = errors /\ errors' = a.erred
          /\ IF BothKnown(a, c) THEN j' = j + 1 /\ UNCHANGED <<pc, ret>> ELSE Fails /\ UNCHANGED j
    BY <1>2 DEF CheckOld
  <2>3. c.keeps \in SUBSET Known(test) /\ c.erred \in Errors
    BY <2>1, RecordSays DEF Says
  <2>4. a.erred \in Errors
    <3>1. (test_pn64[j + 1] \in received) \in BOOLEAN
      OBVIOUS
    <3> QED
      BY <3>1, AskSays DEF Says
  <2>5. received' \in SUBSET Known(test)' /\ errors' \in Errors'
    BY <2>1, <2>2, <2>3, <2>4 DEF Known, Errors
  <2>6. \/ j' = j + 1 /\ UNCHANGED <<pc, ret>>
        \/ pc' = "end" /\ ret' = -1 /\ j' = j
    BY <2>2 DEF Fails
  <2> QED
    BY <1>0, <2>1, <2>5, <2>6, Lengths DEF TypeOK, SackWhere
<1>3. CASE OldDone
  <2>1. /\ pc = "old" /\ j = i /\ pc' = "new" /\ j' = i /\ test = "sacktest"
        /\ UNCHANGED <<test, i, ret, received, frame, errors, edits>>
    BY <1>3 DEF OldDone, SackWhere, engine
  <2> QED
    BY <1>0, <2>1, Lengths DEF TypeOK, SackWhere, Known, Errors
<1>4. CASE CheckNew
  <2>1. pc = "new" /\ j < 21 /\ test = "sacktest" /\ UNCHANGED <<test, i, received, frame, edits>>
    BY <1>4, Lengths DEF CheckNew, SackWhere, engine
  <2>2. PICK a \in Ask(test_pn64[j + 1] \in received) :
          /\ errors' = a.erred
          /\ IF a.says THEN Fails /\ UNCHANGED j ELSE j' = j + 1 /\ UNCHANGED <<pc, ret>>
    BY <1>4 DEF CheckNew
  <2>3. a.erred \in Errors
    <3>1. (test_pn64[j + 1] \in received) \in BOOLEAN
      OBVIOUS
    <3> QED
      BY <3>1, AskSays DEF Says
  <2>4. received' \in SUBSET Known(test)' /\ errors' \in Errors'
    BY <2>1, <2>2, <2>3 DEF Known, Errors, TypeOK
  <2>5. \/ j' = j + 1 /\ UNCHANGED <<pc, ret>>
        \/ pc' = "end" /\ ret' = -1 /\ j' = j
    BY <2>2 DEF Fails
  <2> QED
    BY <1>0, <2>1, <2>4, <2>5, Lengths DEF TypeOK, SackWhere
<1>5. CASE PrepareAck
  <2>1. /\ pc = "prepare" /\ pc' = "parse" /\ test = "sendacktest" /\ edits' = 0
        /\ UNCHANGED <<test, i, j, ret, received, errors>>
    BY <1>5 DEF PrepareAck, SackWhere, engine
  <2>2. frame' \in Frame
    <3>1. received \in SUBSET Number
      BY <2>1 DEF TypeOK, Known
    <3>2. received # {} => FrameOf(received) \in Frame
      BY <3>1, FrameOfType
    <3> QED
      BY <1>5, <3>2, NoFrameType DEF PrepareAck
  <2>3. 0 \in 0 .. MaxEdits
    BY ErrorAssumption
  <2> QED
    BY <1>0, <2>1, <2>2, <2>3, Lengths DEF TypeOK, SackWhere, Known, Errors
<1>6. CASE WrongField
  <2>1. /\ pc = "parse" /\ edits < MaxEdits /\ edits' = edits + 1 /\ frame' \in Edited(frame)
        /\ UNCHANGED <<test, pc, i, j, ret, received, errors>>
    BY <1>6 DEF WrongField, engine
  <2>2. frame' \in Frame
    BY <2>1, EditedType DEF SackWhere
  <2>3. edits' \in 0 .. MaxEdits
    BY <2>1, ErrorAssumption DEF TypeOK
  <2> QED
    BY <1>0, <2>1, <2>2, <2>3, Lengths DEF TypeOK, SackWhere, Known, Errors
<1>7. CASE Parse
  <2>1. /\ pc = "parse" /\ test = "sendacktest" /\ UNCHANGED <<test, j, received, frame, errors, edits>>
        /\ i \in 1 .. 21
    BY <1>0, <1>7, Lengths DEF Parse, SackWhere, engine, TypeOK
  <2>2. \/ i' = i + 1 /\ pc' = (IF i < 21 THEN "record" ELSE "end") /\ UNCHANGED ret
        \/ pc' = "end" /\ ret' = -1 /\ UNCHANGED i
    BY <1>7, <2>1, Lengths DEF Parse, More, Fails
  <2>3. pc' \in {"record", "end"} /\ ret' \in {0, -1} /\ (pc' # "end" => ret' = 0)
    BY <2>1, <2>2 DEF SackWhere
  <2>4. i' \in 1 .. 22 /\ (pc' # "end" => i' <= 21)
    BY <2>1, <2>2
  <2>5. /\ test' = "sendacktest" /\ j' \in 0 .. 21 /\ frame' \in Frame
        /\ received' \in SUBSET Known(test)' /\ errors' \in Errors' /\ edits' \in 0 .. MaxEdits
    BY <2>1, Lengths DEF TypeOK, SackWhere, Known, Errors
  <2> QED
    BY <2>3, <2>4, <2>5, Lengths DEF TypeOK, SackWhere
<1>8. CASE AddRange
  <2>1. pc = "record" /\ test = "ackrange_test" /\ UNCHANGED <<test, i, frame, edits>>
    BY <1>8 DEF AddRange
  <2>2. PICK c \in Call(In(ack_range[i]) \subseteq received, received \cup In(ack_range[i])) :
          /\ errors' = c.erred
          /\ IF c.says THEN Fails /\ UNCHANGED <<received, blockmax, j>>
             ELSE /\ received' = c.keeps
                  /\ blockmax' = ack_range[i].range_max
                  /\ pc' = "ranges" /\ j' = 1
                  /\ UNCHANGED ret
    BY <1>8 DEF AddRange
  <2>3. c.keeps \in SUBSET Known(test) /\ c.erred \in Errors
    <3>1. received \cup In(ack_range[i]) \in SUBSET Known(test) /\ errors \in Errors
      BY <2>1 DEF TypeOK, Known, In
    <3>2. (In(ack_range[i]) \subseteq received) \in BOOLEAN
      OBVIOUS
    <3> QED
      BY <3>1, <3>2, CallSays DEF Says
  <2>4. received' \in SUBSET Known(test)' /\ errors' \in Errors'
    BY <2>1, <2>2, <2>3 DEF Known, Errors, TypeOK
  <2>5. \/ pc' = "ranges" /\ j' = 1 /\ UNCHANGED ret
        \/ pc' = "end" /\ ret' = -1 /\ UNCHANGED j
    BY <2>2 DEF Fails
  <2> QED
    BY <1>0, <2>1, <2>4, <2>5, Lengths DEF TypeOK, SackWhere
<1>9. CASE CheckRange
  <2>1. pc = "ranges" /\ j < i /\ test = "ackrange_test" /\ UNCHANGED <<test, i, received, frame, edits>>
    BY <1>9 DEF CheckRange, SackWhere, engine
  <2>2. PICK a \in Ask(In(ack_range[j]) \subseteq received) :
          /\ errors' = a.erred
          /\ IF a.says THEN j' = j + 1 /\ UNCHANGED <<pc, ret>> ELSE Fails /\ UNCHANGED j
    BY <1>9 DEF CheckRange
  <2>3. a.erred \in Errors
    <3>1. (In(ack_range[j]) \subseteq received) \in BOOLEAN
      OBVIOUS
    <3> QED
      BY <3>1, AskSays DEF Says
  <2>4. received' \in SUBSET Known(test)' /\ errors' \in Errors'
    BY <2>1, <2>2, <2>3 DEF Known, Errors, TypeOK
  <2>5. \/ j' = j + 1 /\ UNCHANGED <<pc, ret>>
        \/ pc' = "end" /\ ret' = -1 /\ UNCHANGED j
    BY <2>2 DEF Fails
  <2> QED
    BY <1>0, <2>1, <2>4, <2>5, Lengths DEF TypeOK, SackWhere
<1>10. CASE RoundDone
  <2>1. /\ pc = "new" \/ pc = "ranges"
        /\ i' = i + 1 /\ j' = 0 /\ pc' = IF i < Length[test] THEN "record" ELSE "final"
        /\ UNCHANGED <<test, ret, received, frame, errors, edits>>
    BY <1>10 DEF RoundDone, More, engine
  <2> QED
    BY <1>0, <2>1, Lengths DEF TypeOK, SackWhere, Known, Errors
<1>11. CASE Final
  <2>1. /\ pc = "final" /\ pc' = "end" /\ ret' \in {0, -1}
        /\ UNCHANGED <<test, i, j, received, frame, errors, edits>>
    BY <1>11 DEF Final, engine
  <2> QED
    BY <2>1 DEF TypeOK, SackWhere, Known, Errors
<1>12. CASE UNCHANGED vars
  BY <1>12 DEF vars, engine, TypeOK, SackWhere, Known, Errors
<1> QED
  BY <1>1, <1>2, <1>3, <1>4, <1>5, <1>6, <1>7, <1>8, <1>9, <1>10, <1>11, <1>12 DEF Next, Ended

-----------------------------------------------------------------------------
(***************************************************************************)
(* SackTest: what the list has and what one error does to it.              *)
(***************************************************************************)

\* The numbers of the first r ranges.
RangesUpTo(r) == UNION {In(ack_range[k]) : k \in 1 .. r}

\* The rounds whose numbers have been recorded, and these numbers.
Rounds == IF pc \in {"record", "final"} THEN i - 1 ELSE i
Due == IF test = "ackrange_test" THEN RangesUpTo(Rounds) ELSE Arrived(Rounds)

\* An engine that has not erred has the numbers that it should have, and the test
\* has seen the highest of them at the same time.
Faultless ==
  errors = <<>> =>
    /\ edits = 0 => ret = 0
    /\ pc # "end" => received = Due
    /\ pc = "parse" /\ edits = 0 => frame = FrameOf(received)
    /\ test = "sacktest" /\ pc # "end" =>
         /\ highest_seen \in received \cup {0} /\ \A n \in received : n <= highest_seen
         /\ largest_time = highest_seen_time
    /\ test = "ackrange_test" /\ pc # "end" /\ Rounds >= 1 => blockmax = ack_range[Rounds].range_max

\* After one error either the test has failed, or the list is wrong for good; a
\* wrong list fails sendacktest in the same round.
OneError ==
  Len(errors) = 1 /\ ret = 0 =>
    /\ test = "ackrange_test" => errors \in {<<"loss">>, <<"surplus">>}
    /\ test # "ackrange_test" => pc # "end" /\ received # Due
    /\ test = "sendacktest" => pc \in {"prepare", "parse"}
    /\ pc = "parse" => frame = IF received = {} THEN NoFrame ELSE FrameOf(received)

SackInv == TypeOK /\ SackWhere /\ Faultless /\ OneError

\* A call after which there is no error, and one after which there is one.
LEMMA OneCall ==
  ASSUME errors \in Errors, NEW truth \in BOOLEAN, NEW S, NEW c, Says(c, truth, S)
  PROVE  /\ c.erred = <<>> => errors = <<>> /\ c.says = truth /\ c.keeps = S
         /\ Len(c.erred) = 1 =>
              \/ errors = <<>> /\ c.says = ~truth /\ c.keeps = S
              \/ errors = <<>> /\ c.says = truth /\ c.keeps # S /\ c.erred \in {<<"loss">>, <<"surplus">>}
              \/ Len(errors) = 1 /\ c.erred = errors /\ c.says = truth /\ c.keeps = S
<1>1. CASE c.erred = errors /\ c.says = truth /\ c.keeps = S
  <2>1. Len(<<>>) = 0
    OBVIOUS
  <2> QED
    BY <1>1
<1>2. ASSUME NEW k \in {"answer", "loss", "surplus"}, c.erred = Append(errors, k)
      PROVE  c.erred # <<>> /\ (Len(c.erred) = 1 => errors = <<>> /\ c.erred = <<k>>)
  <2>1. Len(errors) \in Nat /\ Len(c.erred) = Len(errors) + 1
    BY <1>2, MoreErrors
  <2>2. errors \in Seq({"answer", "loss", "surplus"})
    BY DEF Errors
  <2>3. Len(errors) = 0 => errors = <<>>
    BY <2>2
  <2>4. c.erred # <<>>
    BY <2>1
  <2>5. errors = <<>> => c.erred = <<k>>
    BY <1>2
  <2> QED
    BY <2>1, <2>3, <2>4, <2>5
<1>3. CASE c.erred = Append(errors, "answer") /\ c.says = ~truth /\ c.keeps = S
  BY <1>2, <1>3
<1>4. CASE c.erred \in {Append(errors, "loss"), Append(errors, "surplus")} /\ c.says = truth /\ c.keeps # S
  BY <1>2, <1>4
<1> QED
  BY <1>1, <1>3, <1>4 DEF Says

\* The ranges, their pieces, and what each of them adds.
LEMMA Ranges ==
  /\ ack_range[1] = Between(0, 1000) /\ ack_range[2] = Between(3001, 4000)
  /\ ack_range[3] = Between(4001, 5000) /\ ack_range[4] = Between(6001, 7000)
  /\ ack_range[5] = Between(5001, 6000) /\ ack_range[6] = Between(1501, 2500)
  /\ ack_range[7] = Between(501, 1500) /\ ack_range[8] = Between(501, 7500)
BY DEF ack_range

\* The pieces of the ranges are numbers.
LEMMA Pieces ==
  /\ Piece \subseteq Nat
  /\ \A k \in 1 .. 8 : ack_range[k].range_min \in Piece /\ ack_range[k].range_max + 1 \in Piece
<1>1. \A r : r \in Range(ack_range) <=> \E k \in 1 .. 8 : r = ack_range[k]
  BY DEF Range, ack_range
<1>2. \A k \in 1 .. 8 : ack_range[k].range_min \in Nat /\ ack_range[k].range_max + 1 \in Nat
  BY Ranges DEF Between
<1> QED
  BY <1>1, <1>2 DEF Piece

\* Each range has a piece that none before it has: the check of the test before it
\* records a range must say no.
LEMMA RangeIsNew ==
  ASSUME NEW r \in 1 .. 8
  PROVE  ~ (In(ack_range[r]) \subseteq RangesUpTo(r - 1))
<1> DEFINE New(n, k) == n \in In(ack_range[k]) /\ \A l \in 1 .. k - 1 : n \notin In(ack_range[l])
<1>1. \A n \in Piece : \A k \in 1 .. 8 : n \in In(ack_range[k]) <=> ack_range[k].range_min <= n /\ n <= ack_range[k].range_max
  BY DEF In
<1>2. 0 \in Piece /\ 3001 \in Piece /\ 4001 \in Piece /\ 6001 \in Piece /\ 5001 \in Piece
      /\ 1501 \in Piece /\ 1001 \in Piece /\ 2501 \in Piece
  BY Pieces, Ranges DEF Between
<1>3. New(0, 1) /\ New(3001, 2) /\ New(4001, 3) /\ New(6001, 4)
  BY <1>1, <1>2, Ranges DEF Between
<1>4. New(5001, 5) /\ New(1501, 6)
  BY <1>1, <1>2, Ranges DEF Between
<1>5. New(1001, 7)
  BY <1>1, <1>2, Ranges DEF Between
<1>6. New(2501, 8)
  BY <1>1, <1>2, Ranges DEF Between
<1> HIDE DEF New
<1>7. \E n : New(n, r)
  BY <1>3, <1>4, <1>5, <1>6
<1> USE DEF New
<1> QED
  BY <1>7 DEF RangesUpTo

\* One more range.
LEMMA RangesNext ==
  ASSUME NEW r \in 1 .. 8
  PROVE  RangesUpTo(r) = RangesUpTo(r - 1) \cup In(ack_range[r])
<1>1. \A k : k \in 1 .. r <=> k \in 1 .. r - 1 \/ k = r
  OBVIOUS
<1> QED
  BY <1>1 DEF RangesUpTo

\* Together the ranges are one item, from 0 to 7500.
LEMMA AllRanges == RangesUpTo(8) = {n \in Piece : 0 <= n /\ n <= 7500}
<1>1. \A n \in Piece : \A k \in 1 .. 8 : n \in In(ack_range[k]) <=> ack_range[k].range_min <= n /\ n <= ack_range[k].range_max
  BY DEF In
<1>2. \A k \in 1 .. 8 : 0 <= ack_range[k].range_min /\ ack_range[k].range_max <= 7500
      /\ ack_range[k].range_min \in Nat /\ ack_range[k].range_max \in Nat
  BY Ranges DEF Between
<1>3. \A n \in Piece : n <= 7500 => n \in In(ack_range[1]) \/ n \in In(ack_range[8])
  BY <1>1, Ranges, Pieces DEF Between
<1>4. \A n \in Piece : \A k \in 1 .. 8 : n \in In(ack_range[k]) => n <= 7500
  BY <1>1, <1>2, Pieces
<1>5. \A n : (\E k \in 1 .. 8 : n \in In(ack_range[k])) <=> n \in Piece /\ n <= 7500
  BY <1>3, <1>4 DEF In
<1>6. \A n : n \in RangesUpTo(8) <=> n \in Piece /\ n <= 7500
  BY <1>5 DEF RangesUpTo
<1>7. \A n \in Piece : 0 <= n
  BY Pieces
<1> QED
  BY <1>6, <1>7

\* Together the numbers are one item, from 1 to 21.
LEMMA AllArrived == Arrived(21) = {n \in Number : 1 <= n /\ n <= 21}
<1>1. \A n \in 1 .. 21 : \E k \in 1 .. 21 : test_pn64[k] = n
  BY DEF test_pn64
<1> QED
  BY <1>1, Tables, NumberIs DEF Arrived

\* Each number is new when it arrives.
LEMMA NumberIsNew ==
  ASSUME NEW r \in 1 .. 21
  PROVE  test_pn64[r] \notin Arrived(r - 1) /\ Arrived(r) = Arrived(r - 1) \cup {test_pn64[r]}
<1>1. \A k : k \in 1 .. r <=> k \in 1 .. r - 1 \/ k = r
  OBVIOUS
<1>2. \A k \in 1 .. r - 1 : test_pn64[k] # test_pn64[r]
  BY NumbersDiffer
<1> QED
  BY <1>1, <1>2 DEF Arrived

\* At the start nothing is due.
LEMMA FaultlessInit == Init => Faultless /\ OneError
<1> SUFFICES ASSUME Init PROVE Faultless /\ OneError
  OBVIOUS
<1>1. RangesUpTo(0) = {} /\ Arrived(0) = {}
  BY DEF RangesUpTo, Arrived
<1>2. Len(<<>>) = 0
  OBVIOUS
<1> QED
  BY <1>1, <1>2 DEF Init, Faultless, OneError, Rounds, Due

\* Recording a new number of a right list keeps it right or makes it wrong; of a
\* wrong list it does not repair it.
LEMMA FaultlessRecordNew ==
  SackInv /\ RecordNew => Faultless' /\ OneError'
<1> SUFFICES ASSUME SackInv, RecordNew PROVE Faultless' /\ OneError'
  OBVIOUS
<1> DEFINE n == test_pn64[i]
           S == received \cup {n}
           truth == n \in received
<1>1. /\ TypeOK /\ pc = "record" /\ test # "ackrange_test" /\ i \in 1 .. 21 /\ ret = 0
      /\ UNCHANGED <<test, i, j, blockmax, frame, edits>>
  BY Lengths DEF RecordNew, SackInv, TypeOK, SackWhere
<1>2. PICK c \in Record(n) :
        /\ received' = c.keeps
        /\ errors' = c.erred
        /\ IF c.says THEN Fails
           ELSE pc' = (IF test = "sacktest" THEN "old" ELSE "prepare") /\ UNCHANGED ret
  BY DEF RecordNew
<1>3. errors \in Errors /\ received \in SUBSET Number /\ n \in 1 .. 21
  <2>1. Known(test) = Number
    BY <1>1 DEF Known
  <2> QED
    BY <1>1, <2>1, Tables DEF TypeOK
<1>4. truth \in BOOLEAN /\ Says(c, truth, S)
  <2>1. Says(c, n \in received, received \cup {n})
    BY <1>1, <1>2, RecordSays
  <2> QED
    BY <2>1
<1>5. /\ c.erred = <<>> => errors = <<>> /\ c.says = truth /\ c.keeps = S
      /\ Len(c.erred) = 1 =>
           \/ errors = <<>> /\ c.says = ~truth /\ c.keeps = S
           \/ errors = <<>> /\ c.says = truth /\ c.keeps # S
           \/ Len(errors) = 1 /\ c.erred = errors /\ c.says = truth /\ c.keeps = S
  <2> HIDE DEF truth, S
  <2> QED
    BY <1>3, <1>4, OneCall
<1>6. Due = Arrived(i - 1) /\ n \notin Due /\ Arrived(i) = Due \cup {n}
  BY <1>1, NumberIsNew DEF Due, Rounds
<1>7. pc' # "end" => Due' = Arrived(i) /\ pc' \in {"old", "prepare"} /\ ~c.says
  BY <1>1, <1>2 DEF Due, Rounds, Fails
<1>8. pc' = "end" <=> c.says
  BY <1>1, <1>2 DEF Fails
<1>9. ret' = IF c.says THEN -1 ELSE 0
  BY <1>1, <1>2 DEF Fails
<1>10. Faultless'
  <2> SUFFICES ASSUME errors' = <<>> PROVE Faultless'
    BY DEF Faultless
  <2>1. errors = <<>> /\ c.says = (n \in received) /\ c.keeps = received \cup {n}
    BY <1>2, <1>5
  <2>2. received = Due /\ ~c.says
    BY <1>1, <1>6, <2>1 DEF SackInv, Faultless
  <2>3. ret' = 0 /\ received' = Due' /\ pc' \in {"old", "prepare"}
    BY <1>2, <1>6, <1>7, <1>8, <1>9, <2>1, <2>2
  <2>4. CASE test = "sacktest"
    <3>1. /\ highest_seen \in received \cup {0} /\ \A m \in received : m <= highest_seen
          /\ largest_time = highest_seen_time
      BY <1>1, <2>1, <2>4 DEF SackInv, Faultless
    <3>2. /\ n > highest_seen => highest_seen' = n /\ highest_seen_time' = i
          /\ ~(n > highest_seen) => highest_seen' = highest_seen /\ highest_seen_time' = highest_seen_time
          /\ largest_time' = IF \A m \in received : n > m THEN i ELSE largest_time
      BY <2>4 DEF RecordNew, own
    <3>3. highest_seen \in Nat /\ \A m \in received : m \in Nat
      BY <1>3, <3>1, NumberIs
    <3>4. (\A m \in received : n > m) <=> n > highest_seen
      <4> HIDE DEF n
      <4>1. highest_seen = 0 => n > highest_seen
        BY <1>3
      <4>2. \A m \in received : n > highest_seen => n > m
        BY <1>3, <3>1, <3>3
      <4> QED
        BY <3>1, <4>1, <4>2
    <3>5. received' = received \cup {n}
      BY <1>2, <2>1
    <3>6. /\ highest_seen' \in received' \cup {0} /\ \A m \in received' : m <= highest_seen'
          /\ largest_time' = highest_seen_time'
      <4> HIDE DEF n
      <4> QED
        BY <1>3, <3>1, <3>2, <3>3, <3>4, <3>5
    <3> QED
      BY <1>1, <2>3, <2>4, <3>6 DEF Faultless
  <2> QED
    BY <1>1, <2>3, <2>4 DEF Faultless
<1>11. OneError'
  <2> SUFFICES ASSUME Len(errors') = 1, ret' = 0 PROVE OneError'
    BY DEF OneError
  <2>0. Len(c.erred) = 1 /\ c.says = FALSE /\ received' = c.keeps
    <3>1. c.says \in BOOLEAN
      BY <1>4 DEF Says
    <3> QED
      BY <1>2, <1>9, <3>1
  <2>1. pc' \in {"old", "prepare"} /\ Due' = Arrived(i)
    BY <1>7, <1>8, <2>0
  <2>2. errors = <<>> => received = Due
    BY <1>1 DEF SackInv, Faultless
  <2>3. Len(errors) = 1 => test = "sacktest" /\ received # Due
    BY <1>1 DEF SackInv, OneError, TypeOK, Length
  <2>4. ASSUME errors = <<>> PROVE received' # Due'
    <3>1. ~truth /\ c.keeps # S /\ S = Due'
      <4>1. Len(<<>>) = 0
        OBVIOUS
      <4>2. ~truth /\ S = Due'
        BY <1>6, <2>1, <2>2, <2>4
      <4> HIDE DEF truth, S
      <4>3. c.says # ~truth
        BY <1>4, <2>0, <4>2
      <4> QED
        BY <1>5, <2>0, <2>4, <4>1, <4>2, <4>3
    <3> QED
      BY <2>0, <3>1
  <2>5. ASSUME errors # <<>> PROVE received' # Due'
    <3>1. ~truth /\ c.keeps = S /\ received # Due
      <4> HIDE DEF truth, S
      <4>1. Len(errors) = 1 /\ c.says = truth /\ c.keeps = S
        BY <1>5, <2>0, <2>5
      <4> QED
        BY <1>4, <2>0, <2>3, <4>1
    <3>2. n \notin received /\ n \notin Due /\ received' = received \cup {n} /\ Due' = Due \cup {n}
      BY <1>6, <2>0, <2>1, <3>1
    <3> HIDE DEF n
    <3> QED
      BY <3>1, <3>2
  <2>6. pc' = "prepare" \/ test = "sacktest"
    BY <1>2, <2>0, <2>1
  <2>7. received' # Due'
    BY <2>4, <2>5
  <2> QED
    BY <1>1, <2>1, <2>6, <2>7 DEF OneError
<1> QED
  BY <1>10, <1>11

\* Neither does recording again what the engine says it has.
LEMMA FaultlessCheckOld ==
  SackInv /\ CheckOld => Faultless' /\ OneError'
<1> SUFFICES ASSUME SackInv, CheckOld PROVE Faultless' /\ OneError'
  OBVIOUS
<1> DEFINE n == test_pn64[j + 1]
           S == received \cup {n}
           truth == n \in received
<1>1. /\ TypeOK /\ pc = "old" /\ test = "sacktest" /\ i \in 1 .. 21 /\ j \in Nat /\ j < i /\ ret = 0
      /\ UNCHANGED <<test, i, highest_seen, highest_seen_time, largest_time, blockmax, frame, edits>>
  BY Lengths DEF CheckOld, SackInv, TypeOK, SackWhere, own
<1>2. PICK a \in Ask(n \in received), c \in Record(n) :
        /\ received' = c.keeps
        /\ \/ a.erred = errors /\ errors' = c.erred
           \/ c.erred = errors /\ errors' = a.erred
        /\ IF BothKnown(a, c) THEN j' = j + 1 /\ UNCHANGED <<pc, ret>> ELSE Fails /\ UNCHANGED j
  BY DEF CheckOld
<1>3. errors \in Errors /\ received \in SUBSET Number /\ j + 1 \in 1 .. 21
  BY <1>1 DEF TypeOK, Known
<1>4. truth \in BOOLEAN
  OBVIOUS
<1>5. Says(c, truth, S)
  <2>1. Says(c, n \in received, received \cup {n})
    BY <1>1, <1>3, RecordSays
  <2> QED
    BY <2>1
<1>6. Says(a, truth, received)
  <2>1. a \in Ask(truth)
    OBVIOUS
  <2> HIDE DEF truth
  <2> QED
    BY <1>1, <1>4, <2>1, AskSays
<1>7. /\ c.erred = <<>> => errors = <<>> /\ c.says = truth /\ c.keeps = S
      /\ Len(c.erred) = 1 =>
           \/ errors = <<>> /\ c.says = ~truth /\ c.keeps = S
           \/ errors = <<>> /\ c.says = truth /\ c.keeps # S
           \/ Len(errors) = 1 /\ c.erred = errors /\ c.says = truth /\ c.keeps = S
  <2> HIDE DEF truth, S
  <2> QED
    BY <1>3, <1>4, <1>5, OneCall
<1>8. /\ a.erred = <<>> => errors = <<>> /\ a.says = truth /\ a.keeps = received
      /\ Len(a.erred) = 1 =>
           \/ errors = <<>> /\ a.says = ~truth /\ a.keeps = received
           \/ errors = <<>> /\ a.says = truth /\ a.keeps # received
           \/ Len(errors) = 1 /\ a.erred = errors /\ a.says = truth /\ a.keeps = received
  <2> HIDE DEF truth
  <2> QED
    BY <1>3, <1>4, <1>6, OneCall
<1>9. a.keeps = received
  BY DEF Ask
<1>10. n \in Arrived(i)
  BY <1>1, <1>3 DEF Arrived
<1>11. Due = Arrived(i) /\ (pc' # "end" => Due' = Arrived(i) /\ pc' = "old" /\ a.says /\ c.says)
  BY <1>1, <1>2 DEF Due, Rounds, Fails, BothKnown
<1>12. /\ a.says /\ c.says => pc' = "old" /\ ret' = 0
       /\ ~(a.says /\ c.says) => pc' = "end" /\ ret' = -1
  BY <1>1, <1>2 DEF BothKnown, Fails
<1>13. Len(<<>>) = 0
  OBVIOUS
<1>14. Faultless'
  <2> SUFFICES ASSUME errors' = <<>> PROVE Faultless'
    BY DEF Faultless
  <2>1. errors = <<>> /\ a.erred = <<>> /\ c.erred = <<>>
    BY <1>2, <1>7, <1>8
  <2>2. received = Due /\ n \in received
    BY <1>1, <1>10, <1>11, <2>1 DEF SackInv, Faultless
  <2>3. a.says /\ c.says /\ received' = received
    <3> HIDE DEF n
    <3> QED
      BY <1>2, <1>7, <1>8, <2>1, <2>2
  <2>4. ret' = 0 /\ received' = Due' /\ pc' = "old"
    BY <1>11, <1>12, <2>2, <2>3
  <2>5. /\ highest_seen \in received \cup {0} /\ \A m \in received : m <= highest_seen
        /\ largest_time = highest_seen_time
    BY <1>1, <2>1 DEF SackInv, Faultless
  <2> QED
    BY <1>1, <2>3, <2>4, <2>5 DEF Faultless
<1>15. OneError'
  <2> SUFFICES ASSUME Len(errors') = 1, ret' = 0 PROVE OneError'
    BY DEF OneError
  <2>1. a.says /\ c.says /\ pc' = "old" /\ Due' = Due
    BY <1>11, <1>12
  <2>2. errors = <<>> => received = Due /\ n \in received
    BY <1>1, <1>10, <1>11 DEF SackInv, Faultless
  <2>3. Len(errors) = 1 => received # Due
    BY <1>1 DEF SackInv, OneError
  <2>4. received' # Due'
    <3> HIDE DEF n
    <3> QED
      BY <1>2, <1>7, <1>8, <1>9, <1>13, <2>1, <2>2, <2>3
  <2> QED
    BY <1>1, <2>1, <2>4 DEF OneError
<1> QED
  BY <1>14, <1>15

\* Between the inner loops nothing changes.
LEMMA FaultlessOldDone ==
  SackInv /\ OldDone => Faultless' /\ OneError'
<1> SUFFICES ASSUME SackInv, OldDone PROVE Faultless' /\ OneError'
  OBVIOUS
<1>1. /\ pc = "old" /\ pc' = "new" /\ test = "sacktest"
      /\ UNCHANGED <<test, i, ret, highest_seen, highest_seen_time, received, largest_time, blockmax, frame, errors, edits>>
  BY DEF OldDone, SackInv, SackWhere, own, engine
<1>2. Rounds' = Rounds /\ Due' = Due
  BY <1>1 DEF Due, Rounds
<1> QED
  BY <1>1, <1>2 DEF SackInv, Faultless, OneError

\* A right list has none of the numbers to come; asking for them changes nothing.
LEMMA FaultlessCheckNew ==
  SackInv /\ CheckNew => Faultless' /\ OneError'
<1> SUFFICES ASSUME SackInv, CheckNew PROVE Faultless' /\ OneError'
  OBVIOUS
<1> DEFINE truth == test_pn64[j + 1] \in received
<1>1. /\ TypeOK /\ pc = "new" /\ test = "sacktest" /\ i \in 1 .. 21 /\ j \in i .. 20 /\ ret = 0
      /\ UNCHANGED <<test, i, highest_seen, highest_seen_time, received, largest_time, blockmax, frame, edits>>
  BY Lengths DEF CheckNew, SackInv, TypeOK, SackWhere, own, engine
<1>2. PICK a \in Ask(truth) :
        /\ errors' = a.erred
        /\ IF a.says THEN Fails /\ UNCHANGED j ELSE j' = j + 1 /\ UNCHANGED <<pc, ret>>
  BY DEF CheckNew
<1>3. truth \in BOOLEAN /\ errors \in Errors
  BY <1>1 DEF TypeOK
<1>4. Says(a, truth, received) /\ a.keeps = received
  <2> HIDE DEF truth
  <2> QED
    BY <1>1, <1>3, AskSays
<1>5. /\ a.erred = <<>> => errors = <<>> /\ a.says = truth /\ a.keeps = received
      /\ Len(a.erred) = 1 =>
           \/ errors = <<>> /\ a.says = ~truth /\ a.keeps = received
           \/ errors = <<>> /\ a.says = truth /\ a.keeps # received
           \/ Len(errors) = 1 /\ a.erred = errors /\ a.says = truth /\ a.keeps = received
  <2> HIDE DEF truth
  <2> QED
    BY <1>3, <1>4, OneCall
<1>6. test_pn64[j + 1] \notin Arrived(i)
  <2>1. \A k \in 1 .. i : test_pn64[k] # test_pn64[j + 1]
    BY <1>1, NumbersDiffer
  <2> QED
    BY <2>1 DEF Arrived
<1>7. Due = Arrived(i) /\ (pc' = "new" => Due' = Due)
  BY <1>1 DEF Due, Rounds
<1>8. a.says \in BOOLEAN /\ (a.says = FALSE => pc' = "new" /\ ret' = 0) /\ (a.says = TRUE => ret' = -1)
  BY <1>1, <1>2, <1>4 DEF Says, Fails
<1>9. errors = <<>> => received = Due /\ ~truth
  BY <1>1, <1>6, <1>7 DEF SackInv, Faultless
<1>10. Faultless'
  <2> SUFFICES ASSUME errors' = <<>> PROVE Faultless'
    BY DEF Faultless
  <2>1. errors = <<>> /\ a.says = FALSE
    <3> HIDE DEF truth
    <3> QED
      BY <1>2, <1>3, <1>5, <1>8, <1>9
  <2>2. /\ highest_seen \in received \cup {0} /\ \A m \in received : m <= highest_seen
        /\ largest_time = highest_seen_time
    BY <1>1, <2>1 DEF SackInv, Faultless
  <2> QED
    BY <1>1, <1>7, <1>8, <1>9, <2>1, <2>2 DEF Faultless
<1>11. OneError'
  <2> SUFFICES ASSUME Len(errors') = 1, ret' = 0 PROVE OneError'
    BY DEF OneError
  <2>1. Len(a.erred) = 1 /\ a.says = FALSE
    BY <1>2, <1>8
  <2>2. Len(errors) = 1
    <3> HIDE DEF truth
    <3>1. errors = <<>> => a.says # ~truth
      BY <1>3, <1>9, <2>1
    <3> QED
      BY <1>4, <1>5, <2>1, <3>1
  <2>3. received # Due
    BY <1>1, <2>2 DEF SackInv, OneError
  <2> QED
    BY <1>1, <1>7, <1>8, <2>1, <2>3 DEF OneError
<1> QED
  BY <1>10, <1>11

\* The frame is the one for the list.
LEMMA FaultlessPrepareAck ==
  SackInv /\ PrepareAck => Faultless' /\ OneError'
<1> SUFFICES ASSUME SackInv, PrepareAck PROVE Faultless' /\ OneError'
  OBVIOUS
<1>1. /\ pc = "prepare" /\ pc' = "parse" /\ test = "sendacktest" /\ i \in 1 .. 21 /\ ret = 0
      /\ frame' = IF received = {} THEN NoFrame ELSE FrameOf(received)
      /\ UNCHANGED <<test, i, ret, received, errors>>
  BY Lengths DEF PrepareAck, SackInv, TypeOK, SackWhere, engine
<1>2. Rounds' = Rounds /\ Due' = Due /\ Due = Arrived(i) /\ test_pn64[i] \in Arrived(i)
  BY <1>1 DEF Due, Rounds, Arrived
<1>3. errors = <<>> => received = Due /\ frame' = FrameOf(received)
  BY <1>1, <1>2 DEF SackInv, Faultless
<1> QED
  BY <1>1, <1>2, <1>3 DEF SackInv, Faultless, OneError

\* Wrong fields come with a right list only.
LEMMA FaultlessWrongField ==
  SackInv /\ WrongField => Faultless' /\ OneError'
<1> SUFFICES ASSUME SackInv, WrongField PROVE Faultless' /\ OneError'
  OBVIOUS
<1>1. /\ pc = "parse" /\ test = "sendacktest" /\ errors = <<>> /\ edits \in Nat /\ edits' = edits + 1
      /\ UNCHANGED <<test, pc, i, ret, received, errors>>
  BY ErrorAssumption DEF WrongField, SackInv, TypeOK, SackWhere, engine
<1>2. Rounds' = Rounds /\ Due' = Due /\ edits' # 0
  BY <1>1 DEF Due, Rounds
<1>3. received = Due
  BY <1>1 DEF SackInv, Faultless
<1>4. Faultless'
  BY <1>1, <1>2, <1>3 DEF Faultless
<1>5. Len(errors') # 1
  BY <1>1
<1> QED
  BY <1>4, <1>5 DEF OneError

\* The frame for a right list is accepted, and the one for a wrong list never.
LEMMA FaultlessParse ==
  SackInv /\ Parse => Faultless' /\ OneError'
<1> SUFFICES ASSUME SackInv, Parse PROVE Faultless' /\ OneError'
  OBVIOUS
<1>1. /\ pc = "parse" /\ test = "sendacktest" /\ i \in 1 .. 21 /\ ret = 0 /\ frame \in Frame
      /\ UNCHANGED <<test, j, received, frame, errors, edits>>
  BY Lengths DEF Parse, SackInv, TypeOK, SackWhere, engine
<1>2. /\ Accepts(frame) => i' = i + 1 /\ pc' \in {"record", "end"} /\ ret' = 0
      /\ ~Accepts(frame) => pc' = "end" /\ ret' = -1
  BY <1>1 DEF Parse, Fails
<1>3. Due = Arrived(i) /\ Due \in SUBSET Number /\ Due # {}
  <2>1. Due = Arrived(i) /\ test_pn64[i] \in Arrived(i)
    BY <1>1 DEF Due, Rounds, Arrived
  <2>2. Arrived(i) \in SUBSET Number
    BY <1>1, ArrivedType, NumberIs
  <2> QED
    BY <2>1, <2>2
<1>4. pc' = "record" => Due' = Due
  <2>1. pc' = "record" => i' - 1 = i
    BY <1>1, <1>2
  <2> QED
    BY <1>1, <1>3, <2>1 DEF Due, Rounds
<1>5. Faultless'
  <2> SUFFICES ASSUME errors' = <<>> PROVE Faultless'
    BY DEF Faultless
  <2>1. errors = <<>> /\ received = Due
    BY <1>1 DEF SackInv, Faultless
  <2>2. edits = 0 => Accepts(frame)
    <3>1. edits = 0 => frame = FrameOf(Arrived(i))
      BY <1>1, <1>3, <2>1 DEF SackInv, Faultless
    <3> QED
      BY <1>1, <3>1, FrameIsAccepted
  <2>3. pc' \in {"record", "end"} /\ (edits' = 0 => ret' = 0)
    BY <1>1, <1>2, <2>2
  <2> QED
    BY <1>1, <1>4, <2>1, <2>3 DEF Faultless
<1>6. OneError'
  <2> SUFFICES ASSUME Len(errors') = 1, ret' = 0 PROVE FALSE
    BY DEF OneError
  <2>1. Len(errors) = 1 /\ Accepts(frame)
    BY <1>1, <1>2
  <2>2. received # Due /\ frame = IF received = {} THEN NoFrame ELSE FrameOf(received)
    BY <1>1, <2>1 DEF SackInv, OneError
  <2>3. ~NoFrame.whole
    BY DEF NoFrame
  <2>4. frame.whole
    BY <2>1 DEF Accepts
  <2>5. received # {} /\ frame = FrameOf(received) /\ received \in SUBSET Number
    BY <1>1, <2>2, <2>3, <2>4 DEF SackInv, TypeOK, Known
  <2>6. frame = FrameOf(Due)
    BY <1>1, <1>3, <2>1, AcceptedFrame
  <2> QED
    BY <1>3, <2>2, <2>5, <2>6, FrameTells
<1> QED
  BY <1>5, <1>6

\* The check before must say no, so that a wrong answer ends the test.
LEMMA FaultlessAddRange ==
  SackInv /\ AddRange => Faultless' /\ OneError'
<1> SUFFICES ASSUME SackInv, AddRange PROVE Faultless' /\ OneError'
  OBVIOUS
<1> DEFINE S == received \cup In(ack_range[i])
           truth == In(ack_range[i]) \subseteq received
<1>1. /\ TypeOK /\ pc = "record" /\ test = "ackrange_test" /\ i \in 1 .. 8 /\ ret = 0
      /\ UNCHANGED <<test, i, frame, edits>>
  BY Lengths DEF AddRange, SackInv, TypeOK, SackWhere
<1>2. PICK c \in Call(truth, S) :
        /\ errors' = c.erred
        /\ IF c.says THEN Fails /\ UNCHANGED <<received, blockmax, j>>
           ELSE /\ received' = c.keeps
                /\ blockmax' = ack_range[i].range_max
                /\ pc' = "ranges" /\ j' = 1
                /\ UNCHANGED ret
  BY DEF AddRange
<1>3. truth \in BOOLEAN /\ S \in SUBSET Known(test) /\ errors \in Errors
  BY <1>1 DEF TypeOK, Known, In
<1>4. Says(c, truth, S)
  <2> HIDE DEF truth, S
  <2> QED
    BY <1>3, CallSays
<1>5. /\ c.erred = <<>> => errors = <<>> /\ c.says = truth /\ c.keeps = S
      /\ Len(c.erred) = 1 =>
           \/ errors = <<>> /\ c.says = ~truth /\ c.keeps = S
           \/ errors = <<>> /\ c.says = truth /\ c.keeps # S /\ c.erred \in {<<"loss">>, <<"surplus">>}
           \/ Len(errors) = 1 /\ c.erred = errors /\ c.says = truth /\ c.keeps = S
  <2> HIDE DEF truth, S
  <2> QED
    BY <1>3, <1>4, OneCall
<1>6. Due = RangesUpTo(i - 1) /\ ~ (In(ack_range[i]) \subseteq RangesUpTo(i - 1)) /\ RangesUpTo(i) = RangesUpTo(i - 1) \cup In(ack_range[i])
  BY <1>1, RangeIsNew, RangesNext DEF Due, Rounds
<1>7. errors = <<>> => received = Due /\ ~truth /\ S = RangesUpTo(i)
  BY <1>1, <1>6 DEF SackInv, Faultless
<1>8. /\ c.says \in BOOLEAN
      /\ c.says = FALSE => /\ pc' = "ranges" /\ ret' = 0 /\ received' = c.keeps
                           /\ blockmax' = ack_range[i].range_max
                           /\ Rounds' = i /\ Due' = RangesUpTo(i)
      /\ c.says = TRUE => ret' = -1 /\ pc' = "end"
  BY <1>1, <1>2, <1>4 DEF Says, Fails, Due, Rounds
<1>9. Faultless'
  <2> SUFFICES ASSUME errors' = <<>> PROVE Faultless'
    BY DEF Faultless
  <2>1. errors = <<>> /\ c.says = FALSE /\ c.keeps = S
    <3> HIDE DEF truth, S
    <3> QED
      BY <1>2, <1>3, <1>5, <1>7, <1>8
  <2> QED
    BY <1>1, <1>7, <1>8, <2>1 DEF Faultless
<1>10. OneError'
  <2> SUFFICES ASSUME Len(errors') = 1, ret' = 0 PROVE OneError'
    BY DEF OneError
  <2>1. Len(c.erred) = 1 /\ c.says = FALSE
    BY <1>2, <1>8
  <2>2. errors = <<>> => c.says # ~truth
    <3> HIDE DEF truth, S
    <3> QED
      BY <1>3, <1>7, <2>1
  <2>3. Len(errors) = 1 => errors \in {<<"loss">>, <<"surplus">>}
    BY <1>1 DEF SackInv, OneError
  <2>4. c.erred \in {<<"loss">>, <<"surplus">>}
    <3> HIDE DEF truth, S
    <3> QED
      BY <1>5, <2>1, <2>2, <2>3
  <2> QED
    BY <1>1, <1>2, <1>8, <2>1, <2>4 DEF OneError
<1> QED
  BY <1>9, <1>10

\* The check after must say yes.
LEMMA FaultlessCheckRange ==
  SackInv /\ CheckRange => Faultless' /\ OneError'
<1> SUFFICES ASSUME SackInv, CheckRange PROVE Faultless' /\ OneError'
  OBVIOUS
<1> DEFINE truth == In(ack_range[j]) \subseteq received
<1>1. /\ TypeOK /\ pc = "ranges" /\ test = "ackrange_test" /\ i \in 1 .. 8 /\ j \in Nat /\ j < i /\ ret = 0
      /\ UNCHANGED <<test, i, received, blockmax, frame, edits>>
  BY Lengths DEF CheckRange, SackInv, TypeOK, SackWhere, engine
<1>2. PICK a \in Ask(truth) :
        /\ errors' = a.erred
        /\ IF a.says THEN j' = j + 1 /\ UNCHANGED <<pc, ret>> ELSE Fails /\ UNCHANGED j
  BY DEF CheckRange
<1>3. truth \in BOOLEAN /\ errors \in Errors
  BY <1>1 DEF TypeOK
<1>4. Says(a, truth, received) /\ a.keeps = received
  <2> HIDE DEF truth
  <2> QED
    BY <1>1, <1>3, AskSays
<1>5. /\ a.erred = <<>> => errors = <<>> /\ a.says = truth /\ a.keeps = received
      /\ Len(a.erred) = 1 =>
           \/ errors = <<>> /\ a.says = ~truth /\ a.keeps = received
           \/ errors = <<>> /\ a.says = truth /\ a.keeps # received
           \/ Len(errors) = 1 /\ a.erred = errors /\ a.says = truth /\ a.keeps = received
  <2> HIDE DEF truth
  <2> QED
    BY <1>3, <1>4, OneCall
<1>6. j \in 1 .. i => In(ack_range[j]) \subseteq RangesUpTo(i)
  BY DEF RangesUpTo
<1>7. Due = RangesUpTo(i) /\ Rounds = i /\ (pc' = "ranges" => Due' = Due /\ Rounds' = Rounds)
  BY <1>1 DEF Due, Rounds
<1>8. /\ a.says \in BOOLEAN
      /\ a.says = TRUE => pc' = "ranges" /\ ret' = 0
      /\ a.says = FALSE => ret' = -1 /\ pc' = "end"
  BY <1>1, <1>2, <1>4 DEF Says, Fails
<1>9. errors = <<>> => received = Due /\ blockmax = ack_range[i].range_max /\ truth
  <2>1. j >= 1
    BY <1>1 DEF SackInv, SackWhere
  <2> QED
    BY <1>1, <1>6, <1>7, <2>1 DEF SackInv, Faultless
<1>10. Faultless'
  <2> SUFFICES ASSUME errors' = <<>> PROVE Faultless'
    BY DEF Faultless
  <2>1. errors = <<>> /\ a.says = TRUE
    <3> HIDE DEF truth
    <3> QED
      BY <1>2, <1>3, <1>5, <1>8, <1>9
  <2> QED
    BY <1>1, <1>7, <1>8, <1>9, <2>1 DEF Faultless
<1>11. OneError'
  <2> SUFFICES ASSUME Len(errors') = 1, ret' = 0 PROVE OneError'
    BY DEF OneError
  <2>1. Len(a.erred) = 1 /\ a.says = TRUE
    BY <1>2, <1>8
  <2>2. Len(errors) = 1 /\ a.erred = errors
    <3> HIDE DEF truth
    <3>1. errors = <<>> => a.says # ~truth
      BY <1>3, <1>9, <2>1
    <3> QED
      BY <1>4, <1>5, <2>1, <3>1
  <2>3. errors \in {<<"loss">>, <<"surplus">>}
    BY <1>1, <2>2 DEF SackInv, OneError
  <2> QED
    BY <1>1, <1>2, <1>8, <2>1, <2>2, <2>3 DEF OneError
<1> QED
  BY <1>10, <1>11

\* From round to round the list stays as it is.
LEMMA FaultlessRoundDone ==
  SackInv /\ RoundDone => Faultless' /\ OneError'
<1> SUFFICES ASSUME SackInv, RoundDone PROVE Faultless' /\ OneError'
  OBVIOUS
<1>1. /\ pc \in {"new", "ranges"} /\ i \in Nat /\ i' = i + 1 /\ pc' \in {"record", "final"}
      /\ test # "sendacktest" /\ ret = 0
      /\ UNCHANGED <<test, ret, highest_seen, highest_seen_time, received, largest_time, blockmax, frame, errors, edits>>
  BY Lengths DEF RoundDone, SackInv, TypeOK, SackWhere, own, engine
<1>2. Rounds' = Rounds
  BY <1>1 DEF Rounds
<1>3. Due' = Due
  BY <1>1, <1>2 DEF Due
<1> QED
  BY <1>1, <1>2, <1>3 DEF SackInv, Faultless, OneError

\* The last checks find a right list right, and in sacktest a wrong one wrong.
LEMMA FaultlessFinal ==
  SackInv /\ Final => Faultless' /\ OneError'
<1> SUFFICES ASSUME SackInv, Final PROVE Faultless' /\ OneError'
  OBVIOUS
<1>1. /\ TypeOK /\ pc = "final" /\ pc' = "end" /\ test \in {"sacktest", "ackrange_test"}
      /\ i = Length[test] + 1
      /\ ret' = IF Verified THEN 0 ELSE -1
      /\ UNCHANGED <<test, errors, edits>>
  BY Lengths DEF Final, SackInv, TypeOK, SackWhere
<1>2. Rounds = Length[test]
  BY <1>1, Lengths DEF Rounds
<1>3. test = "sacktest" => Known(test) = Number /\ Due = Arrived(21)
  BY <1>1, <1>2, Lengths DEF Known, Due
<1>4. test = "ackrange_test" => Known(test) = Piece /\ Due = RangesUpTo(8) /\ Rounds = 8
  BY <1>1, <1>2, Lengths DEF Known, Due
<1>5. test = "sacktest" => (OneItem(1, 21) <=> received = Due)
  BY <1>3, AllArrived DEF OneItem
<1>6. test = "ackrange_test" => (OneItem(0, 7500) <=> received = Due)
  BY <1>4, AllRanges DEF OneItem
<1>7. errors = <<>> => Verified
  <2> SUFFICES ASSUME errors = <<>> PROVE Verified
    OBVIOUS
  <2>1. received = Due /\ (test = "sacktest" => largest_time = highest_seen_time)
        /\ (test = "ackrange_test" => blockmax = ack_range[8].range_max)
    BY <1>1, <1>4 DEF SackInv, Faultless
  <2>2. ack_range[8].range_max = 7500
    BY Ranges DEF Between
  <2> QED
    BY <1>1, <1>5, <1>6, <2>1, <2>2 DEF Verified
<1>8. Len(errors) = 1 => /\ test = "sacktest" => ~Verified
                         /\ test = "ackrange_test" => errors \in {<<"loss">>, <<"surplus">>}
  <2>1. ret = 0
    BY <1>1 DEF SackInv, SackWhere
  <2>2. Len(errors) = 1 /\ test = "sacktest" => received # Due
    BY <1>1, <2>1 DEF SackInv, OneError
  <2>3. Len(errors) = 1 /\ test = "ackrange_test" => errors \in {<<"loss">>, <<"surplus">>}
    BY <2>1 DEF SackInv, OneError
  <2> QED
    BY <1>5, <2>2, <2>3 DEF Verified
<1>9. Faultless'
  BY <1>1, <1>7 DEF Faultless
<1> QED
  BY <1>1, <1>8, <1>9 DEF OneError

\* The invariant is inductive.
LEMMA SackInvStep == SackInv /\ [Next]_vars => SackInv'
<1> SUFFICES ASSUME SackInv, [Next]_vars PROVE SackInv'
  OBVIOUS
<1>1. TypeOK' /\ SackWhere'
  BY SackStep DEF SackInv
<1>2. CASE UNCHANGED vars
  <2>1. Faultless' /\ OneError'
    BY <1>2 DEF vars, own, engine, SackInv, Faultless, OneError, Due, Rounds
  <2> QED
    BY <1>1, <2>1 DEF SackInv
<1>3. CASE Next
  <2>1. Faultless' /\ OneError'
    BY <1>2, <1>3, FaultlessRecordNew, FaultlessCheckOld, FaultlessOldDone, FaultlessCheckNew,
       FaultlessPrepareAck, FaultlessWrongField, FaultlessParse, FaultlessAddRange, FaultlessCheckRange,
       FaultlessRoundDone, FaultlessFinal DEF Next, Ended, SackInv
  <2> QED
    BY <1>1, <2>1 DEF SackInv
<1> QED
  BY <1>2, <1>3

\* So it always holds.
LEMMA SackInvariant == Spec => []SackInv
<1>1. Init => SackInv
  BY SackInit, FaultlessInit DEF SackInv
<1> QED
  BY <1>1, SackInvStep, PTL DEF Spec

-----------------------------------------------------------------------------
(***************************************************************************)
(* SackTest: the theorems.                                                 *)
(***************************************************************************)

\* The loops stay in the tables, with any number of errors of the engine and of
\* wrong fields, and the engine knows numbers of the tests only.
THEOREM SackTypeCorrect == Spec => []TypeOK
<1>1. SackInv => TypeOK
  BY DEF SackInv
<1> QED
  BY <1>1, SackInvariant, PTL

\* Of all frames that a faulty engine may write, with any number of wrong fields,
\* the parser accepts none but the one for the numbers that have arrived.
THEOREM OnlyRightFramesPass == Spec => []AcceptedIsRight
<1>1. SackInv => AcceptedIsRight
  <2> SUFFICES ASSUME SackInv, pc = "parse", Accepts(frame)
               PROVE  frame = FrameOf({test_pn64[k] : k \in 1 .. i})
    BY DEF AcceptedIsRight
  <2>1. i \in 1 .. 21 /\ frame \in Frame
    BY Lengths DEF SackInv, TypeOK, SackWhere
  <2> QED
    BY <2>1, AcceptedFrame DEF Arrived
<1> QED
  BY <1>1, SackInvariant, PTL

\* With an engine that does not err and no wrong field none of the three tests
\* fails: the tables, written by hand, agree with the order of the calls, and the
\* parser reads each frame as the numbers it was made for.
THEOREM FaultlessEnginePasses == Spec => []FaultlessPasses
<1>1. SackInv => FaultlessPasses
  BY DEF SackInv, Faultless, FaultlessPasses
<1> QED
  BY <1>1, SackInvariant, PTL

\* One error of the list, at any call of any round, fails sacktest and
\* sendacktest: a number lost or taken up too many is never made up for by a later
\* call.  In ackrange_test a wrong answer does.
THEOREM SingleErrorsAreFound == Spec => []ErrorsAreFound
<1>1. SackInv => ErrorsAreFound
  <2> SUFFICES ASSUME SackInv, pc = "end", ret = 0, Len(errors) <= 1
               PROVE  Range(errors) \subseteq (IF test = "ackrange_test" THEN {"loss", "surplus"} ELSE {})
    BY DEF ErrorsAreFound
  <2>1. errors \in Seq({"answer", "loss", "surplus"}) /\ Len(errors) \in Nat
    BY DEF SackInv, TypeOK, Errors
  <2>2. CASE Len(errors) = 0
    <3>1. errors = <<>>
      BY <2>1, <2>2
    <3>2. Range(<<>>) = {}
      BY DEF Range
    <3> QED
      BY <3>1, <3>2
  <2>3. CASE Len(errors) = 1
    <3>1. test = "ackrange_test" /\ errors \in {<<"loss">>, <<"surplus">>}
      BY <2>3 DEF SackInv, OneError, TypeOK, Length
    <3>2. Range(<<"loss">>) = {"loss"} /\ Range(<<"surplus">>) = {"surplus"}
      BY DEF Range
    <3> QED
      BY <3>1, <3>2
  <2>4. Len(errors) = 0 \/ Len(errors) = 1
    <3>1. PICK n \in Nat : n = Len(errors)
      BY <2>1
    <3>2. n <= 1
      BY <3>1
    <3>3. n = 0 \/ n = 1
      BY <3>2
    <3> QED
      BY <3>1, <3>3
  <2> QED
    BY <2>2, <2>3, <2>4
<1> QED
  BY <1>1, SackInvariant, PTL
=============================================================================
