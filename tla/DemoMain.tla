------------------------------ MODULE DemoMain ------------------------------
(***************************************************************************)
(* main of picoquicdemo: getopt (the one of getopt.c, which stops at the   *)
(* first word that is no option), the switch over the options, the server  *)
(* name and the port after them, and the choice between quic_server and    *)
(* quic_client.                                                            *)
(*                                                                         *)
(* A word of the command line is plain, or begins with a dash: then it is  *)
(* a list of letters without argument, at most one letter that takes one   *)
(* after them, and perhaps its argument attached.                          *)
(***************************************************************************)
EXTENDS Integers, Sequences, SequencesExt

CONSTANTS
  Plain,          \* words without a dash
  Number,         \* what atoi makes of them
  Version,        \* what parse_target_version makes of them; 0 is invalid
  Given,          \* what a user may mean: options with their words, and after them
                  \* the names, as getopt.c wants it
  AnyLine,        \* command lines of any kind, without argv[0]
  None

\* PICOQUIC_MAX_PACKET_SIZE, default_server_port and the version 0xFF000009.
MaxPacketSize == 1536
DefaultPort == 4443
DefaultVersion == 9

Flag == {"1", "r", "z", "h"}
WithArgument == {"c", "k", "p", "v", "i", "s", "l", "m", "t"}
Letter == Flag \cup {"-", "?"}          \* "?": one that getopt does not know

Dashed == {w \in [letters : Seq(Letter), option : WithArgument \cup {None}, attached : Plain \cup {None}] :
             w.option = None => w.attached = None}
Word == Plain \cup Dashed

\* An option and its words, the first of them attached to it or not.
Arity(option) ==
  CASE option \in Flag -> 0 [] option = "s" -> 2 [] option = "i" -> 3 [] OTHER -> 1
Item == {item \in [option : Flag \cup WithArgument, words : Seq(Plain), attached : BOOLEAN] :
           Len(item.words) = Arity(item.option)}

ASSUME WordAssumption ==
  /\ None \notin Word \cup WithArgument
  /\ \A w \in Plain : w \notin Dashed
  /\ Number \in [Plain -> Int]
  /\ Version \in [Plain -> Nat]
  /\ Given \subseteq [items : Seq(Item), joined : BOOLEAN, names : Seq(Plain)]
  /\ AnyLine \subseteq Seq(Word)

VARIABLES
  pc,             \* in "options", at "usage" (exit 1), running as "server" or "client"
  given,          \* history: what the user means, None for a line of any kind
  argv,           \* the words 1 .. argc - 1
  optind,
  place,          \* what is left of a word that getopt scans; Done if nothing
  set             \* the local variables of main that the options set

vars == <<pc, given, argv, optind, place, set>>

argc == Len(argv) + 1

Done == [letters |-> <<>>, option |-> None, attached |-> None]

\* Defaults; a setting that is a text holds the word, None for the default.
Defaults ==
  [cert |-> None, key |-> None, log |-> None, name |-> None,
   port |-> DefaultPort, version |-> DefaultVersion, mtu |-> 0,
   once |-> FALSE, hrr |-> FALSE, zero_share |-> FALSE, timing |-> FALSE,
   seed |-> None, cnx_id |-> None]

TypeOK ==
  /\ pc \in {"options", "usage", "server", "client"}
  /\ given \in Given \cup {None}
  /\ argv \in Seq(Word)
  /\ optind \in 1 .. Len(argv) + 3
  /\ place \in Dashed
  /\ set.port \in Nat \ {0} /\ set.version \in Nat \ {0} /\ set.mtu \in 0 .. MaxPacketSize

\* A word with a dash is no positive number and no version.
Atoi(w) == IF w \in Plain THEN Number[w] ELSE 0
ParseTargetVersion(w) == IF w \in Plain THEN Version[w] ELSE 0

\* The words of an option on the command line; flags may be joined with the
\* option after them.
Dash(letters, option, attached) == <<[letters |-> letters, option |-> option, attached |-> attached]>>
Spelled(item) ==
  IF item.option \in Flag THEN Dash(<<item.option>>, None, None)
  ELSE IF item.attached THEN Dash(<<>>, item.option, Head(item.words)) \o Tail(item.words)
  ELSE Dash(<<>>, item.option, None) \o item.words
Join(line, item) ==
  LET first == Spelled(item)[1] IN
    Append(Front(line), [first EXCEPT !.letters = Last(line).letters \o @]) \o Tail(Spelled(item))
Joins(line, joined) == joined /\ line # <<>> /\ Last(line) \in Dashed /\ Last(line).option = None
AddItem(line, item, joined) ==
  IF Joins(line, joined) THEN Join(line, item) ELSE line \o Spelled(item)
Line(g) ==
  LET line[k \in 0 .. Len(g.items)] ==
        IF k = 0 THEN <<>> ELSE AddItem(line[k - 1], g.items[k], g.joined)
  IN  line[Len(g.items)] \o g.names

Init ==
  /\ pc = "options"
  /\ \/ given \in Given /\ argv = Line(given)
     \/ given = None /\ argv \in AnyLine
  /\ optind = 1
  /\ place = Done
  /\ set = Defaults

-----------------------------------------------------------------------------
(***************************************************************************)
(* getopt.  The scanning pointer stands in a word until its last letter.   *)
(***************************************************************************)

AtWord == optind < argc /\ argv[optind] \notin Plain
Scanned == IF place # Done THEN place ELSE argv[optind]

\* "--" ends the options and is skipped.  A dash alone, or one among letters,
\* ends them too, and its word counts as the server's name.
DashDash == place = Done /\ AtWord /\ Scanned.letters # <<>> /\ Head(Scanned.letters) = "-"
DashAlone ==
  \/ place = Done /\ AtWord /\ Scanned = Done
  \/ place # Done /\ place.letters # <<>> /\ Head(place.letters) = "-"
NoMore == (place = Done /\ ~AtWord) \/ DashDash \/ DashAlone

\* A letter without argument, known or not, moves on in the word.
LetterNext == ~NoMore /\ Scanned.letters # <<>>
Rest == [Scanned EXCEPT !.letters = Tail(@)]
AfterLetter == IF Rest = Done THEN optind + 1 ELSE optind

\* An argument is attached or is the next word, whatever it looks like.
ArgumentNext == ~NoMore /\ Scanned.letters = <<>>
Missing == Scanned.attached = None /\ optind + 1 >= argc
Optarg == IF Scanned.attached # None THEN Scanned.attached ELSE argv[optind + 1]
AfterArgumentTwo == optind + 2                             \* faulty: though it is attached
AfterArgument == IF Scanned.attached # None THEN optind + 1 ELSE optind + 2

-----------------------------------------------------------------------------
(***************************************************************************)
(* The switch.                                                             *)
(***************************************************************************)

Usage == pc' = "usage" /\ UNCHANGED set

FlagOption ==
  /\ pc = "options" /\ LetterNext
  /\ optind' = AfterLetter
  /\ place' = Rest
  /\ LET letter == Head(Scanned.letters) IN
       \/ letter = "h" /\ Usage
       \/ letter # "h" /\ UNCHANGED pc
            /\ set' = [set EXCEPT !.once = @ \/ letter = "1", !.hrr = @ \/ letter = "r",
                                  !.zero_share = @ \/ letter = "z"]
  /\ UNCHANGED <<given, argv>>

\* "option requires an argument" is printed, and the options go on.
MissingArgument ==
  /\ pc = "options" /\ ArgumentNext /\ Missing
  /\ optind' = optind + 1
  /\ place' = Done
  /\ UNCHANGED <<pc, given, argv, set>>

\* -v, -l and -s want a word after their argument, -i wants two.
WantsLess(option) == CASE option = "i" -> 1 [] OTHER -> 0  \* faulty: one word short
Wants(option) ==
  CASE option \in {"v", "l", "s"} -> 1
    [] option = "i" -> 2
    [] OTHER -> 0

\* Those -s and -i read and skip.
Reads(option) == CASE option = "s" -> 1 [] option = "i" -> 2 [] OTHER -> 0

\* port > 0, version # 0, 0 < mtu_max <= PICOQUIC_MAX_PACKET_SIZE.
ValidUnlimited(option, w) ==                               \* faulty: no upper limit of the mtu
  CASE option \in {"p", "m"} -> Atoi(w) > 0 [] option = "v" -> ParseTargetVersion(w) # 0 [] OTHER -> TRUE
Valid(option, w) ==
  CASE option = "p" -> Atoi(w) > 0
    [] option = "v" -> ParseTargetVersion(w) # 0
    [] option = "m" -> Atoi(w) \in 1 .. MaxPacketSize
    [] OTHER -> TRUE

\* argv[argc] is NULL.
Argv(k) == IF k < argc THEN argv[k] ELSE None

\* What an option with argument w sets, next being the index after it.  -s
\* reads the word after its argument into both halves of the seed.
With(option, w, next) ==
  CASE option = "c" -> [set EXCEPT !.cert = w]
    [] option = "k" -> [set EXCEPT !.key = w]
    [] option = "p" -> [set EXCEPT !.port = Atoi(w)]
    [] option = "v" -> [set EXCEPT !.version = ParseTargetVersion(w)]
    [] option = "s" -> [set EXCEPT !.seed = <<Argv(next), Argv(next)>>]
    [] option = "i" -> [set EXCEPT !.cnx_id = [select |-> Atoi(w), mask |-> Argv(next),
                                               val |-> Argv(next + 1)]]
    [] option = "l" -> [set EXCEPT !.log = w]
    [] option = "m" -> [set EXCEPT !.mtu = Atoi(w)]
    [] option = "t" -> [set EXCEPT !.timing = TRUE]

ArgumentOption ==
  /\ pc = "options" /\ ArgumentNext /\ ~Missing
  /\ place' = Done
  /\ LET option == Scanned.option
         next == AfterArgument
     IN \/ /\ next + Wants(option) <= argc /\ Valid(option, Optarg)
           /\ set' = With(option, Optarg, next)
           /\ optind' = next + Reads(option)
           /\ UNCHANGED pc
        \/ /\ next + Wants(option) > argc \/ ~Valid(option, Optarg)
           /\ Usage
           /\ optind' = next
  /\ UNCHANGED <<given, argv>>

-----------------------------------------------------------------------------
(***************************************************************************)
(* After the options: "Simplified style params", and the start.            *)
(***************************************************************************)

FirstWord == IF DashDash THEN optind + 1 ELSE optind

Start ==
  /\ pc = "options" /\ NoMore
  /\ place' = Done
  /\ LET words == SubSeq(argv, FirstWord, Len(argv))
         client == words # <<>>
     IN \/ /\ Len(words) >= 2 /\ Atoi(words[2]) <= 0
           /\ optind' = FirstWord + 2
           /\ Usage
        \/ /\ Len(words) >= 2 => Atoi(words[2]) > 0
           /\ pc' = IF client THEN "client" ELSE "server"
           /\ optind' = FirstWord + (IF Len(words) < 2 THEN Len(words) ELSE 2)
           /\ set' = [set EXCEPT !.name = IF client THEN words[1] ELSE @,
                                 !.port = IF Len(words) >= 2 THEN Atoi(words[2]) ELSE @]
  /\ UNCHANGED <<given, argv>>

Ended == pc # "options" /\ UNCHANGED vars

Next == FlagOption \/ MissingArgument \/ ArgumentOption \/ Start \/ Ended

Spec == Init /\ [][Next]_vars

-----------------------------------------------------------------------------
(***************************************************************************)
(* Properties.                                                             *)
(***************************************************************************)

\* Whatever the words are, -s and -i, which advance optind by themselves, do
\* not hand the NULL behind the last word to strtoul.
NoReadBeyond ==
  /\ set.seed # None => \A k \in {1, 2} : set.seed[k] # None
  /\ set.cnx_id # None => set.cnx_id.mask # None /\ set.cnx_id.val # None

\* The words of the last item with an option.
Those(option, items) == {k \in DOMAIN items : items[k].option = option}
Holds(option, items) == Those(option, items) # {}
WordsOf(option, items) ==
  IF Holds(option, items) THEN items[Max(Those(option, items))].words ELSE <<None>>
NumberOf(option, items, default) ==
  IF Holds(option, items) THEN Number[WordsOf(option, items)[1]] ELSE default

\* What the user means by options and names: the last of equal options counts,
\* a port after the name counts more than -p.
Meant(g) ==
  [cert |-> WordsOf("c", g.items)[1], key |-> WordsOf("k", g.items)[1], log |-> WordsOf("l", g.items)[1],
   name |-> IF g.names = <<>> THEN None ELSE g.names[1],
   port |-> IF Len(g.names) > 1 THEN Number[g.names[2]] ELSE NumberOf("p", g.items, DefaultPort),
   version |-> IF Holds("v", g.items) THEN Version[WordsOf("v", g.items)[1]] ELSE DefaultVersion,
   mtu |-> NumberOf("m", g.items, 0),
   once |-> Holds("1", g.items), hrr |-> Holds("r", g.items), zero_share |-> Holds("z", g.items),
   timing |-> Holds("t", g.items),
   seed |-> None,
   cnx_id |-> IF ~Holds("i", g.items) THEN None
              ELSE LET w == WordsOf("i", g.items) IN [select |-> Number[w[1]], mask |-> w[2], val |-> w[3]]]

\* Every number and version is valid and there is no -h.
Acceptable(g) ==
  /\ ~Holds("h", g.items)
  /\ \A k \in DOMAIN g.items :
       LET item == g.items[k] IN item.words # <<>> => Valid(item.option, item.words[1])
  /\ Len(g.names) > 1 => Number[g.names[2]] > 0

\* -v and -l want a word after their argument: as the last words of the line they
\* show the usage, though the usage itself has no such word.
LastIsRefused(g) == g.items # <<>> /\ Last(g.items).option \in {"v", "l"} /\ g.names = <<>>

\* However the options are spelled, joined, attached, repeated and ordered, the
\* program starts as client or server with the settings meant by them, or shows
\* the usage if they are not acceptable.  It says nothing of the lines that
\* LastIsRefused names, nor of the seed of -s (the second of its two words is
\* taken for both halves).
StartsAsMeant ==
  given # None /\ pc # "options" /\ ~LastIsRefused(given) =>
    IF Acceptable(given)
      THEN /\ pc = IF given.names = <<>> THEN "server" ELSE "client"
           /\ [set EXCEPT !.seed = None] = Meant(given)
      ELSE pc = "usage"
=============================================================================
