------------------------------ MODULE PicoquicT ------------------------------
(***************************************************************************)
(* picoquic_ct, the program that runs the tests: options "-x test" and     *)
(* "-h", then either all tests that are not excluded, or named ones.  What *)
(* a test does is no part of it: it returns 0 or not.  getopt has put the  *)
(* options before the names.                                               *)
(***************************************************************************)
EXTENDS Integers, Sequences, FiniteSets

CONSTANTS
  test_table,     \* the names, in order
  Unknown,        \* names that are not in it
  MaxOptions,     \* bound: options on the command line
  MaxNames        \* bound: names on the command line

nb_tests == Len(test_table)
Name == {test_table[i] : i \in 1 .. nb_tests} \cup Unknown
Opt == {<<"x", n>> : n \in Name} \cup {<<"h">>}

ASSUME TableAssumption ==
  /\ \A i, j \in 1 .. nb_tests : test_table[i] = test_table[j] => i = j
  /\ \A i \in 1 .. nb_tests : test_table[i] \notin Unknown
  /\ MaxOptions \in Nat /\ MaxNames \in Nat

VARIABLES
  stage,          \* "options", "all" or "named" tests, "end"; "no_memory" for is_excluded
  options, names, \* what is left of the command line
  given, named,   \* the options and the names at the start
  next,           \* i of the loop over all tests
  is_excluded,
  tried,          \* the tests started, in order: their numbers
  failed,         \* nb_test_failed
  main_ret,       \* ret of main, which becomes the exit code
  printed         \* the tests named by the last call of usage

line == <<options, names, given, named>>
runnervars == <<stage, line, next, is_excluded, tried, failed, main_ret, printed>>

RunnerTypeOK ==
  /\ stage \in {"options", "all", "named", "end", "no_memory"}
  /\ options \in Seq(Opt) /\ given \in Seq(Opt)
  /\ names \in Seq(Name) /\ named \in Seq(Name)
  /\ next \in 1 .. nb_tests + 1
  /\ is_excluded \in [1 .. nb_tests -> BOOLEAN]
  /\ tried \in Seq(1 .. nb_tests)
  /\ failed \in 0 .. Len(tried)
  /\ main_ret \in {0, -1}
  /\ printed \in SUBSET (1 .. nb_tests)

\* get_test_number: the number of a name, none for an unknown one.
Numbers(name) == {i \in 1 .. nb_tests : test_table[i] = name}

\* usage prints four names on a line; x is incremented by both of its loops.
Listed == {i \in 1 .. nb_tests : (i - 1) % 5 # 4}

UpTo(S, n) == UNION {[1 .. m -> S] : m \in 0 .. n}

\* The table is_excluded may not be had: main then returns -1 and has run nothing.
NoMemory == stage = "no_memory" /\ main_ret = -1

RunnerInit ==
  /\ (stage = "options" /\ main_ret = 0) \/ NoMemory
  /\ options \in UpTo(Opt, MaxOptions) /\ given = options
  /\ names \in UpTo(Name, MaxNames) /\ named = names
  /\ next = 1
  /\ is_excluded = [i \in 1 .. nb_tests |-> FALSE]
  /\ tried = <<>>
  /\ failed = 0
  /\ printed = {}

-----------------------------------------------------------------------------

Exclude ==
  /\ stage = "options" /\ options # <<>>
  /\ Head(options)[1] = "x"
  /\ options' = Tail(options)
  /\ LET numbers == Numbers(Head(options)[2]) IN
       /\ is_excluded' = [i \in 1 .. nb_tests |-> is_excluded[i] \/ i \in numbers]
       /\ printed' = IF numbers = {} THEN Listed ELSE printed
  /\ UNCHANGED <<stage, names, given, named, next, tried, failed, main_ret>>

Help ==
  /\ stage = "options" /\ options # <<>>
  /\ Head(options)[1] = "h"
  /\ options' = Tail(options)
  /\ printed' = Listed
  /\ UNCHANGED <<stage, names, given, named, next, is_excluded, tried, failed, main_ret>>

OptionsDone ==
  /\ stage = "options" /\ options = <<>>
  /\ stage' = IF names = <<>> THEN "all" ELSE "named"
  /\ UNCHANGED <<line, next, is_excluded, tried, failed, main_ret, printed>>

\* do_one_test, and what main makes of its result.
DoOneTestLast(i) ==                                        \* faulty: main_ret is that of the last test
  \E result \in {0, -1} :
    /\ tried' = Append(tried, i)
    /\ failed' = IF result = 0 THEN failed ELSE failed + 1
    /\ main_ret' = result
DoOneTestCounted(i) ==                                     \* faulty: counts in two places
  \E result \in {0, -1} :
    /\ tried' = Append(tried, i)
    /\ failed' = IF result = 0 THEN failed ELSE failed + 2
    /\ main_ret' = IF result = 0 THEN main_ret ELSE -1
DoOneTest(i) ==
  \E result \in {0, -1} :
    /\ tried' = Append(tried, i)
    /\ failed' = IF result = 0 THEN failed ELSE failed + 1
    /\ main_ret' = IF result = 0 THEN main_ret ELSE -1

SelectedUntilFailure(i) == ~is_excluded[i] /\ main_ret = 0      \* faulty: nothing after a failure
Selected(i) == ~is_excluded[i]
RunAll ==
  /\ stage = "all" /\ next <= nb_tests
  /\ next' = next + 1
  /\ IF Selected(next) THEN DoOneTest(next) ELSE UNCHANGED <<tried, failed, main_ret>>
  /\ UNCHANGED <<stage, line, is_excluded, printed>>

AllDone ==
  /\ stage = "all" /\ next > nb_tests
  /\ stage' = "end"
  /\ UNCHANGED <<line, next, is_excluded, tried, failed, main_ret, printed>>

\* The loop over the names goes on after an unknown one and breaks after a test.
RunNamed ==
  /\ stage = "named" /\ names # <<>>
  /\ names' = Tail(names)
  /\ LET numbers == Numbers(Head(names)) IN
       \/ /\ numbers = {}
          /\ printed' = Listed
          /\ UNCHANGED <<stage, tried, failed, main_ret>>
       \/ /\ \E i \in numbers : DoOneTest(i)
          /\ stage' = "end"
          /\ UNCHANGED printed
  /\ UNCHANGED <<options, given, named, next, is_excluded>>

NamedDone ==
  /\ stage = "named" /\ names = <<>>
  /\ stage' = "end"
  /\ UNCHANGED <<line, next, is_excluded, tried, failed, main_ret, printed>>

RunnerEnded == stage \in {"end", "no_memory"} /\ UNCHANGED runnervars

RunnerNext ==
  \/ Exclude \/ Help \/ OptionsDone
  \/ RunAll \/ AllDone \/ RunNamed \/ NamedDone
  \/ RunnerEnded

RunnerSpec == RunnerInit /\ [][RunnerNext]_runnervars

-----------------------------------------------------------------------------
(***************************************************************************)
(* Properties.                                                             *)
(***************************************************************************)

ExcludedNames == {given[k][2] : k \in {j \in DOMAIN given : given[j][1] = "x"}}

Tests(S) == {i \in 1 .. nb_tests : test_table[i] \in S}
Named == {named[k] : k \in DOMAIN named}
TestsTried == {tried[k] : k \in DOMAIN tried}

\* Without names every test runs once and in order, but for those of -x, however
\* often and in whatever order these are given, and whichever tests fail.  With
\* names no other test than a named one runs, and none twice.
RunsAsAsked ==
  stage = "end" =>
    /\ \A k, l \in DOMAIN tried : k < l => tried[k] < tried[l]
    /\ IF named = <<>> THEN TestsTried = Tests(Name \ ExcludedNames)
                       ELSE TestsTried \subseteq Tests(Named)

\* What the help says: "[test1 [test2 ..[testN]]]", and of -x "Do not run the
\* specified test": of the named tests all run that are not excluded.
NamedTestsRun ==
  stage = "end" /\ named # <<>> => TestsTried = Tests(Named \ ExcludedNames)

\* The exit code, which the build looks at, is not 0 exactly if a test has failed
\* or there was no memory to run any.
ExitTellsFailure ==
  stage \in {"end", "no_memory"} => (main_ret # 0 <=> failed > 0 \/ stage = "no_memory")
=============================================================================
