--------------------------- MODULE DemoMainProofs ---------------------------
(***************************************************************************)
(* Theorems about DemoMain, for any command line.                          *)
(***************************************************************************)
EXTENDS DemoMain, SequenceTheorems, NaturalsInduction, WellFoundedInduction, TLAPS

-----------------------------------------------------------------------------
(***************************************************************************)
(* Command lines. An item is put behind a line, or its first word into the *)
(* last word of the line; the line of all items continues each of the      *)
(* lines before, by induction over their number.                           *)
(***************************************************************************)

LEMMA NoneIsNoOption == None \notin Word /\ None \notin WithArgument
BY WordAssumption

LEMMA Joined ==
  ASSUME NEW S, NEW a \in Seq(S), NEW b \in Seq(S)
  PROVE  /\ a \o b \in Seq(S) /\ Len(a \o b) = Len(a) + Len(b)
         /\ \A j \in 1 .. Len(a) : (a \o b)[j] = a[j]
         /\ \A j \in 1 .. Len(b) : (a \o b)[Len(a) + j] = b[j]
OBVIOUS

LEMMA SpelledFacts ==
  ASSUME NEW item \in Item
  PROVE  /\ Spelled(item) \in Seq(Word) /\ Len(Spelled(item)) \in Nat /\ Len(Spelled(item)) >= 1
         /\ Spelled(item)[1] \in Dashed
         /\ item.option \in Flag =>
              /\ Spelled(item) = <<[letters |-> <<item.option>>, option |-> None, attached |-> None]>>
              /\ item.option \notin WithArgument
              /\ item.words = <<>>
         /\ item.option \notin Flag =>
              /\ item.option \in WithArgument
              /\ item.words \in Seq(Plain) /\ Len(item.words) = Arity(item.option)
              /\ item.words[1] \in Plain
              /\ Spelled(item)[1] = [letters |-> <<>>, option |-> item.option,
                                     attached |-> IF item.attached THEN item.words[1] ELSE None]
              /\ Len(Spelled(item)) = IF item.attached THEN Len(item.words) ELSE Len(item.words) + 1
              /\ \A j \in 2 .. Len(Spelled(item)) :
                   Spelled(item)[j] = IF item.attached THEN item.words[j] ELSE item.words[j - 1]
<1>1. /\ item.option \in Flag \cup WithArgument /\ item.words \in Seq(Plain)
      /\ Len(item.words) = Arity(item.option)
  BY DEF Item
<1>2. CASE item.option \in Flag
  <2>1. Spelled(item) = <<[letters |-> <<item.option>>, option |-> None, attached |-> None]>>
    BY <1>2 DEF Spelled, Dash
  <2>2. item.words = <<>>
    <3>1. Len(item.words) = 0
      BY <1>1, <1>2 DEF Arity, Flag
    <3> QED
      BY <1>1, <3>1
  <2>3. <<item.option>> \in Seq(Letter)
    BY <1>2 DEF Letter
  <2>4. [letters |-> <<item.option>>, option |-> None, attached |-> None] \in Dashed
    BY <2>3 DEF Dashed
  <2> DEFINE w == [letters |-> <<item.option>>, option |-> None, attached |-> None]
  <2>5. w \in Word /\ w \in Dashed /\ Spelled(item) = <<w>>
    BY <2>1, <2>4 DEF Word
  <2>6. item.option \notin WithArgument
    BY <1>2 DEF Flag, WithArgument
  <2> HIDE DEF w
  <2>7. Spelled(item) \in Seq(Word) /\ Len(Spelled(item)) = 1 /\ Spelled(item)[1] = w
    BY <2>5
  <2>8. Spelled(item) \in Seq(Word) /\ Len(Spelled(item)) \in Nat /\ Len(Spelled(item)) >= 1 /\ Spelled(item)[1] \in Dashed
    BY <2>5, <2>7
  <2> QED
    BY <1>2, <2>1, <2>2, <2>6, <2>8
<1>3. CASE item.option \notin Flag
  <2>1. item.option \in WithArgument /\ Arity(item.option) \in {1, 2, 3}
    BY <1>1, <1>3 DEF Arity
  <2>2. item.words # <<>> /\ item.words[1] \in Plain /\ Head(item.words) = item.words[1]
    BY <1>1, <2>1
  <2>3. CASE item.attached
    <3> DEFINE w == [letters |-> <<>>, option |-> item.option, attached |-> item.words[1]]
    <3>1. Spelled(item) = <<w>> \o Tail(item.words)
      BY <1>3, <2>2, <2>3 DEF Spelled, Dash
    <3>2. w \in Dashed
      BY <2>1, <2>2, NoneIsNoOption DEF Dashed
    <3>3. w = [letters |-> <<>>, option |-> item.option, attached |-> IF item.attached THEN item.words[1] ELSE None]
      BY <2>3
    <3>4. Tail(item.words) \in Seq(Plain) /\ Len(Tail(item.words)) = Len(item.words) - 1
          /\ \A j \in 1 .. Len(item.words) - 1 : Tail(item.words)[j] = item.words[j + 1]
      BY <1>1, <2>2
    <3> HIDE DEF w
    <3>5. Spelled(item) \in Seq(Word) /\ Len(Spelled(item)) = Len(item.words) /\ Spelled(item)[1] = w
      BY <1>1, <2>1, <3>1, <3>2, <3>4 DEF Word
    <3>6. \A j \in 2 .. Len(item.words) : Spelled(item)[j] = item.words[j]
      BY <1>1, <2>1, <3>1, <3>2, <3>4
    <3> QED
      BY <1>1, <1>3, <2>1, <2>2, <2>3, <3>2, <3>3, <3>5, <3>6
  <2>4. CASE ~item.attached
    <3> DEFINE w == [letters |-> <<>>, option |-> item.option, attached |-> None]
    <3>1. Spelled(item) = <<w>> \o item.words
      BY <1>3, <2>2, <2>4 DEF Spelled, Dash
    <3>2. w \in Dashed
      BY <2>1 DEF Dashed
    <3>3. w = [letters |-> <<>>, option |-> item.option, attached |-> IF item.attached THEN item.words[1] ELSE None]
      BY <2>4
    <3> HIDE DEF w
    <3>5. Spelled(item) \in Seq(Word) /\ Len(Spelled(item)) = Len(item.words) + 1 /\ Spelled(item)[1] = w
      BY <1>1, <2>1, <3>1, <3>2 DEF Word
    <3>6. \A j \in 2 .. Len(item.words) + 1 : Spelled(item)[j] = item.words[j - 1]
      BY <1>1, <2>1, <3>1, <3>2
    <3> QED
      BY <1>1, <1>3, <2>1, <2>2, <2>4, <3>2, <3>3, <3>5, <3>6
  <2> QED
    BY <2>3, <2>4
<1> QED
  BY <1>2, <1>3

\* The word an item is put in, and the letters before it there.
Place(line, joined) == IF Joins(line, joined) THEN Len(line) ELSE Len(line) + 1
Before(line, joined) == IF Joins(line, joined) THEN Last(line).letters ELSE <<>>

Longer(w, b) == [w EXCEPT !.letters = b \o @]
AddedAt(new, line, s, p, b) ==
  /\ new \in Seq(Word) /\ Len(new) = p + Len(s) - 1
  /\ \A j \in 1 .. p - 1 : new[j] = line[j]
  /\ new[p] = Longer(s[1], b)
  /\ \A j \in 2 .. Len(s) : new[p + j - 1] = s[j]

LEMMA AddFacts ==
  ASSUME NEW line \in Seq(Word), NEW item \in Item, NEW joined
  PROVE  /\ Place(line, joined) \in Nat \ {0} /\ Before(line, joined) \in Seq(Letter)
         /\ AddedAt(AddItem(line, item, joined), line, Spelled(item), Place(line, joined), Before(line, joined))
<1> DEFINE s == Spelled(item)
           w == s[1]
           p == Place(line, joined)
           b == Before(line, joined)
           v == [w EXCEPT !.letters = b \o @]
           new == AddItem(line, item, joined)
<1>1. s \in Seq(Word) /\ Len(s) \in Nat /\ Len(s) >= 1 /\ w \in Dashed
  BY SpelledFacts
<1>2. line # <<>> => Len(line) \in Nat \ {0} /\ Last(line) = line[Len(line)]
  BY DEF Last
<1>3. p \in Nat \ {0} /\ b \in Seq(Letter) /\ (Joins(line, joined) => p = Len(line) /\ p \in Nat \ {0})
  <2>1. Joins(line, joined) => Last(line) \in Dashed /\ line # <<>>
    BY DEF Joins
  <2> QED
    BY <1>2, <2>1 DEF Place, Before, Dashed
<1>4. v \in Dashed
  <2>1. w.letters \in Seq(Letter)
    BY <1>1 DEF Dashed
  <2>2. b \o w.letters \in Seq(Letter)
    BY <1>3, <2>1
  <2> HIDE DEF w, b
  <2> QED
    BY <1>1, <2>2 DEF Dashed
<1> HIDE DEF v
<1> SUFFICES AddedAt(new, line, s, p, b)
  BY <1>3
<1>5. CASE Joins(line, joined)
  <2> DEFINE front == SubSeq(line, 1, Len(line) - 1)
  <2>1. new = Append(front, v) \o Tail(s)
    BY <1>5 DEF AddItem, Join, Front, Before, v
  <2>2. front \in Seq(Word) /\ Len(front) = p - 1 /\ \A j \in 1 .. p - 1 : front[j] = line[j]
    BY <1>3, <1>5
  <2>3. Tail(s) \in Seq(Word) /\ Len(Tail(s)) = Len(s) - 1 /\ \A j \in 2 .. Len(s) : Tail(s)[j - 1] = s[j]
    BY <1>1
  <2> HIDE DEF front, s, p
  <2>4. /\ Append(front, v) \in Seq(Word) /\ Len(Append(front, v)) = p /\ Append(front, v)[p] = v
        /\ \A j \in 1 .. p - 1 : Append(front, v)[j] = line[j]
    BY <1>3, <1>4, <2>2 DEF Word
  <2> DEFINE head == Append(front, v)
             tail == Tail(s)
  <2>5. new = head \o tail /\ head \in Seq(Word) /\ tail \in Seq(Word) /\ Len(head) = p /\ Len(tail) = Len(s) - 1
    BY <2>1, <2>3, <2>4
  <2> HIDE DEF head, tail, new
  <2>6. /\ new \in Seq(Word) /\ Len(new) = Len(head) + Len(tail)
        /\ \A j \in 1 .. Len(head) : new[j] = head[j]
        /\ \A j \in 1 .. Len(tail) : new[Len(head) + j] = tail[j]
    <3> HIDE DEF w, b
    <3>1. /\ head \o tail \in Seq(Word) /\ Len(head \o tail) = Len(head) + Len(tail)
          /\ \A j \in 1 .. Len(head) : (head \o tail)[j] = head[j]
          /\ \A j \in 1 .. Len(tail) : (head \o tail)[Len(head) + j] = tail[j]
      <4>1. head \in Seq(Word) /\ tail \in Seq(Word)
        BY <2>5
      <4> QED
        BY <4>1, Joined
    <3> QED
      BY <2>5, <3>1
  <2>7. Len(new) = p + Len(s) - 1 /\ new[p] = v /\ \A j \in 1 .. p - 1 : new[j] = line[j]
    BY <1>1, <1>3, <2>4, <2>5, <2>6 DEF head, s
  <2>8. \A j \in 2 .. Len(s) : new[p + j - 1] = s[j]
    <3> TAKE j \in 2 .. Len(s)
    <3>1. j - 1 \in 1 .. Len(tail) /\ Len(head) + (j - 1) = p + j - 1
      BY <1>1, <1>3, <2>5 DEF s
    <3> QED
      BY <2>3, <2>6, <3>1 DEF tail
  <2> QED
    BY <2>6, <2>7, <2>8 DEF AddedAt, v, Longer
<1>6. CASE ~Joins(line, joined)
  <2>1. new = line \o s /\ p = Len(line) + 1 /\ b = <<>> /\ Len(line) \in Nat
    BY <1>6 DEF AddItem, Place, Before
  <2>2. v = w
    <3>1. w.letters \in Seq(Letter)
      BY <1>1 DEF Dashed
    <3>2. <<>> \o w.letters = w.letters
      BY <3>1
    <3>3. b \o w.letters = w.letters
      BY <2>1, <3>2
    <3> HIDE DEF w, b
    <3> QED
      BY <1>1, <3>3 DEF Dashed, v
  <2> HIDE DEF s, new
  <2>3. /\ new \in Seq(Word) /\ Len(new) = Len(line) + Len(s)
        /\ \A j \in 1 .. Len(line) : new[j] = line[j]
        /\ \A j \in 1 .. Len(s) : new[Len(line) + j] = s[j]
    <3> HIDE DEF w, b
    <3>1. s \in Seq(Word)
      BY <1>1
    <3> QED
      BY <2>1, <3>1
  <2>4. Len(new) = p + Len(s) - 1 /\ new[p] = v /\ \A j \in 1 .. p - 1 : new[j] = line[j]
    BY <1>1, <2>1, <2>2, <2>3 DEF s
  <2>5. \A j \in 2 .. Len(s) : new[p + j - 1] = s[j]
    <3> TAKE j \in 2 .. Len(s)
    <3>1. j \in 1 .. Len(s) /\ Len(line) + j = p + j - 1
      BY <1>1, <2>1 DEF s
    <3> QED
      BY <2>3, <3>1
  <2> QED
    BY <2>3, <2>4, <2>5 DEF AddedAt, v, Longer
<1> QED
  BY <1>5, <1>6

\* What may become of the last word of a line when items are added: flags are
\* joined to it.
Extends(v, w) ==
  \/ v = w
  \/ /\ w \in Dashed /\ w.option = None /\ v \in Dashed
     /\ Len(v.letters) >= Len(w.letters)
     /\ \A j \in 1 .. Len(w.letters) : v.letters[j] = w.letters[j]
Continues(line, M) ==
  /\ M \in Seq(Word) /\ Len(M) >= Len(line)
  /\ \A j \in 1 .. Len(line) - 1 : M[j] = line[j]
  /\ line # <<>> => Extends(M[Len(line)], line[Len(line)])

LEMMA LongerLetters ==
  ASSUME NEW w \in Dashed, NEW b \in Seq(Letter)
  PROVE  /\ Longer(w, b) \in Dashed
         /\ Longer(w, b).option = w.option /\ Longer(w, b).attached = w.attached
         /\ Longer(w, b).letters = b \o w.letters
         /\ Len(Longer(w, b).letters) = Len(b) + Len(w.letters) /\ Len(w.letters) \in Nat
         /\ \A j \in 1 .. Len(b) : Longer(w, b).letters[j] = b[j]
<1>1. w.letters \in Seq(Letter)
  BY DEF Dashed
<1>2. /\ b \o w.letters \in Seq(Letter) /\ Len(b \o w.letters) = Len(b) + Len(w.letters)
      /\ \A j \in 1 .. Len(b) : (b \o w.letters)[j] = b[j]
  BY <1>1, Joined
<1> DEFINE c == b \o w.letters
<1> HIDE DEF c
<1>3. [w EXCEPT !.letters = c] \in Dashed
  BY <1>2 DEF Dashed, c
<1>4. /\ [w EXCEPT !.letters = c].option = w.option
      /\ [w EXCEPT !.letters = c].attached = w.attached
      /\ [w EXCEPT !.letters = c].letters = c
  BY DEF Dashed
<1> QED
  BY <1>1, <1>2, <1>3, <1>4 DEF c, Longer

LEMMA ExtendsTwice ==
  ASSUME NEW u, NEW v \in Dashed, NEW w \in Dashed, w.option = None, Extends(u, v),
         Len(v.letters) >= Len(w.letters), \A j \in 1 .. Len(w.letters) : v.letters[j] = w.letters[j]
  PROVE  Extends(u, w)
<1>1. Len(v.letters) \in Nat /\ Len(w.letters) \in Nat
  BY DEF Dashed
<1>2. CASE u = v
  BY <1>2 DEF Extends
<1>3. CASE u # v
  <2>1. /\ u \in Dashed /\ Len(u.letters) >= Len(v.letters)
        /\ \A j \in 1 .. Len(v.letters) : u.letters[j] = v.letters[j]
    BY <1>3 DEF Extends
  <2>2. Len(u.letters) \in Nat
    BY <2>1 DEF Dashed
  <2>3. \A j \in 1 .. Len(w.letters) : j \in 1 .. Len(v.letters)
    BY <1>1
  <2>4. Len(u.letters) >= Len(w.letters)
    BY <1>1, <2>1, <2>2
  <2>5. \A j \in 1 .. Len(w.letters) : u.letters[j] = w.letters[j]
    BY <2>1, <2>3
  <2> QED
    BY <2>1, <2>4, <2>5 DEF Extends
<1> QED
  BY <1>2, <1>3

LEMMA LongerType ==
  ASSUME NEW w \in Dashed, NEW b \in Seq(Letter)
  PROVE  /\ Longer(w, b) \in Dashed /\ Longer(w, b).option = w.option /\ Len(w.letters) \in Nat
         /\ Len(Longer(w, b).letters) = Len(b) + Len(w.letters) /\ Len(b) \in Nat
<1>1. Len(b) \in Nat
  OBVIOUS
<1> QED
  BY <1>1, LongerLetters

LEMMA FlagSpelled ==
  ASSUME NEW item \in Item, item.option \in Flag, NEW s, s = Spelled(item)
  PROVE  /\ s = <<[letters |-> <<item.option>>, option |-> None, attached |-> None]>>
         /\ s[1].letters = <<item.option>> /\ s[1].option = None /\ s[1].attached = None
         /\ item.words = <<>>
<1>1. s = <<[letters |-> <<item.option>>, option |-> None, attached |-> None]>> /\ item.words = <<>>
  BY SpelledFacts
<1>2. s[1] = [letters |-> <<item.option>>, option |-> None, attached |-> None]
  BY <1>1
<1> QED
  BY <1>1, <1>2

LEMMA ArgumentSpelled ==
  ASSUME NEW item \in Item, item.option \notin Flag, NEW s, s = Spelled(item)
  PROVE  /\ item.option \in WithArgument /\ item.option # None
         /\ item.words \in Seq(Plain) /\ Len(item.words) = Arity(item.option) /\ item.words[1] \in Plain
         /\ s[1].letters = <<>> /\ s[1].option = item.option
         /\ s[1].attached = IF item.attached THEN item.words[1] ELSE None
         /\ Len(s) = IF item.attached THEN Len(item.words) ELSE Len(item.words) + 1
         /\ \A j \in 2 .. Len(s) : s[j] = IF item.attached THEN item.words[j] ELSE item.words[j - 1]
<1>1. /\ item.option \in WithArgument
      /\ item.words \in Seq(Plain) /\ Len(item.words) = Arity(item.option) /\ item.words[1] \in Plain
      /\ Spelled(item)[1] = [letters |-> <<>>, option |-> item.option,
                             attached |-> IF item.attached THEN item.words[1] ELSE None]
      /\ Len(Spelled(item)) = IF item.attached THEN Len(item.words) ELSE Len(item.words) + 1
      /\ \A j \in 2 .. Len(Spelled(item)) :
           Spelled(item)[j] = IF item.attached THEN item.words[j] ELSE item.words[j - 1]
  BY SpelledFacts
<1> DEFINE a == IF item.attached THEN item.words[1] ELSE None
<1>2. s[1] = [letters |-> <<>>, option |-> item.option, attached |-> a]
  BY <1>1
<1> HIDE DEF a
<1>3. s[1].letters = <<>> /\ s[1].option = item.option /\ s[1].attached = a
  BY <1>2
<1> QED
  BY <1>1, <1>3, NoneIsNoOption DEF a

LEMMA ContinuesStep ==
  ASSUME NEW line \in Seq(Word), NEW item \in Item, NEW joined, NEW M,
         Continues(AddItem(line, item, joined), M)
  PROVE  /\ Continues(line, M)
         /\ line # <<>> /\ ~Joins(line, joined) => M[Len(line)] = line[Len(line)]
<1> DEFINE new == AddItem(line, item, joined)
           s == Spelled(item)
           p == Place(line, joined)
           b == Before(line, joined)
           v == Longer(s[1], b)
<1>1. p \in Nat \ {0} /\ b \in Seq(Letter) /\ AddedAt(new, line, s, p, b)
  BY AddFacts
<1>2. s \in Seq(Word) /\ Len(s) \in Nat /\ Len(s) >= 1 /\ s[1] \in Dashed
  BY SpelledFacts
<1>3. new \in Seq(Word) /\ Len(new) = p + Len(s) - 1 /\ new[p] = v /\ \A j \in 1 .. p - 1 : new[j] = line[j]
  BY <1>1 DEF AddedAt
<1>4. /\ M \in Seq(Word) /\ Len(M) >= Len(new) /\ \A j \in 1 .. Len(new) - 1 : M[j] = new[j]
      /\ new # <<>> => Extends(M[Len(new)], new[Len(new)])
  BY DEF Continues
<1>5. /\ v \in Dashed /\ v.option = s[1].option
      /\ Len(v.letters) = Len(b) + Len(s[1].letters) /\ Len(s[1].letters) \in Nat /\ Len(b) \in Nat
      /\ \A j \in 1 .. Len(b) : v.letters[j] = b[j]
  <2> HIDE DEF s, p, b
  <2> QED
    <3>1. s[1] \in Dashed /\ b \in Seq(Letter) /\ Len(b) \in Nat
      BY <1>1, <1>2
    <3> DEFINE w == s[1]
    <3>2. w \in Dashed
      BY <3>1
    <3> HIDE DEF w
    <3>3. /\ Longer(w, b) \in Dashed /\ Longer(w, b).option = w.option
      BY <3>1, <3>2, LongerLetters
    <3>4. Len(Longer(w, b).letters) = Len(b) + Len(w.letters) /\ Len(w.letters) \in Nat
      BY <3>1, <3>2, LongerLetters
    <3>5. \A j \in 1 .. Len(b) : Longer(w, b).letters[j] = b[j]
      BY <3>1, <3>2, LongerLetters
    <3> QED
      BY <3>1, <3>3, <3>4, <3>5 DEF w
<1> HIDE DEF new, s, p, b, v
<1>6. CASE Joins(line, joined)
  <2>1. /\ p = Len(line) /\ line # <<>> /\ Last(line) = line[Len(line)] /\ b = line[p].letters
        /\ line[p] \in Dashed /\ line[p].option = None
    BY <1>6 DEF Joins, p, b, Place, Before, Last
  <2>2. Len(M) >= Len(line) /\ \A j \in 1 .. Len(line) - 1 : M[j] = line[j]
    BY <1>1, <1>2, <1>3, <1>4, <2>1
  <2>3. Extends(M[p], line[p])
    <3> PICK w \in Dashed : w = line[p]
      BY <2>1
    <3>1. w.option = None /\ w.letters = b
      BY <2>1
    <3>2. Len(v.letters) >= Len(w.letters) /\ \A j \in 1 .. Len(w.letters) : v.letters[j] = w.letters[j]
      BY <1>5, <3>1
    <3>3. Extends(M[p], v)
      <4>1. Len(new) >= p /\ p >= 1
        BY <1>1, <1>2, <1>3
      <4>2. CASE Len(new) > p
        <5>1. p \in 1 .. Len(new) - 1
          BY <1>1, <1>3, <4>2
        <5> QED
          BY <1>3, <1>4, <5>1 DEF Extends
      <4>3. CASE Len(new) <= p
        <5>1. Len(new) = p /\ new # <<>>
          BY <1>1, <1>3, <4>1, <4>3
        <5>2. Extends(M[Len(new)], new[Len(new)])
          BY <1>4, <5>1
        <5> QED
          BY <1>3, <5>1, <5>2
      <4> QED
        BY <1>1, <1>3, <4>2, <4>3
    <3>4. Extends(M[p], w)
      BY <1>5, <3>1, <3>2, <3>3, ExtendsTwice
    <3> QED
      BY <3>4
  <2> QED
    BY <1>4, <1>6, <2>1, <2>2, <2>3 DEF Continues
<1>7. CASE ~Joins(line, joined)
  <2>1. p = Len(line) + 1 /\ Len(line) \in Nat
    BY <1>7 DEF p, Place
  <2>0. Len(new) = Len(line) + Len(s) /\ Len(s) >= 1 /\ Len(M) \in Nat
    BY <1>2, <1>3, <1>4, <2>1
  <2>2. Len(M) >= Len(line) /\ \A j \in 1 .. Len(line) : M[j] = line[j]
    BY <1>2, <1>3, <1>4, <2>0, <2>1
  <2>3. line # <<>> => M[Len(line)] = line[Len(line)]
    BY <2>1, <2>2
  <2> QED
    BY <1>4, <2>1, <2>2, <2>3 DEF Continues, Extends
<1> QED
  BY <1>6, <1>7

\* A word of which getopt has read some letters.
Drop(w, a) == [w EXCEPT !.letters = SubSeq(@, a + 1, Len(@))]

LEMMA WithLetters ==
  ASSUME NEW w \in Dashed, NEW l
  PROVE  [w EXCEPT !.letters = l] = [letters |-> l, option |-> w.option, attached |-> w.attached]
BY DEF Dashed

Dropped(d, w, a) ==
  /\ d \in Dashed /\ d.option = w.option /\ d.attached = w.attached
  /\ a < Len(w.letters) =>
       /\ d.letters # <<>> /\ Head(d.letters) = w.letters[a + 1]
       /\ [d EXCEPT !.letters = Tail(@)] = Drop(w, a + 1)
  /\ a >= Len(w.letters) => d.letters = <<>>

LEMMA DropFacts ==
  ASSUME NEW w \in Dashed, NEW a \in 0 .. Len(w.letters)
  PROVE  Dropped(Drop(w, a), w, a) /\ Drop(w, 0) = w
<1>1. /\ w.letters \in Seq(Letter) /\ w.option \in WithArgument \cup {None}
      /\ w.attached \in Plain \cup {None} /\ (w.option = None => w.attached = None)
      /\ w = [letters |-> w.letters, option |-> w.option, attached |-> w.attached]
  BY DEF Dashed
<1> DEFINE q == w.letters
           rest(i) == SubSeq(q, i + 1, Len(q))
           word(l) == [letters |-> l, option |-> w.option, attached |-> w.attached]
<1>2. \A i : Drop(w, i) = word(rest(i))
  BY WithLetters DEF Drop
<1>3. rest(a) \in Seq(Letter)
  BY <1>1
<1>4. rest(0) = q
  BY <1>1, SubSeqFull
<1>5. a >= Len(q) => rest(a) = <<>>
  BY <1>1, SubSeqEmpty
<1>6. a < Len(q) => rest(a) # <<>> /\ Head(rest(a)) = q[a + 1] /\ Tail(rest(a)) = rest(a + 1)
  <2> SUFFICES ASSUME a < Len(q) PROVE rest(a) # <<>> /\ Head(rest(a)) = q[a + 1] /\ Tail(rest(a)) = rest(a + 1)
    OBVIOUS
  <2>1. Len(q) \in Nat /\ a + 1 \in 1 .. Len(q) /\ Len(q) \in a + 1 .. Len(q)
    BY <1>1
  <2>2. Head(rest(a)) = q[a + 1] /\ Tail(rest(a)) = rest(a + 1)
    BY <1>1, <2>1, HeadTailOfSubSeq
  <2>3. Len(rest(a)) = Len(q) - a
    BY <1>1, <2>1
  <2>4. rest(a) # <<>>
    <3> HIDE DEF rest
    <3>1. Len(rest(a)) >= 1
      BY <2>1, <2>3
    <3>2. Len(<<>>) = 0
      OBVIOUS
    <3> QED
      BY <3>1, <3>2
  <2> QED
    BY <2>2, <2>4
<1>7. word(rest(a)) \in Dashed
  BY <1>1, <1>3 DEF Dashed
<1>8. a < Len(q) => [Drop(w, a) EXCEPT !.letters = Tail(@)] = Drop(w, a + 1)
  <2> SUFFICES ASSUME a < Len(q) PROVE [word(rest(a)) EXCEPT !.letters = Tail(@)] = word(rest(a + 1))
    BY <1>2
  <2>1. word(rest(a)).letters = rest(a) /\ word(rest(a)).option = w.option /\ word(rest(a)).attached = w.attached
    OBVIOUS
  <2> HIDE DEF rest, word
  <2>2. [word(rest(a)) EXCEPT !.letters = Tail(rest(a))] =
          [letters |-> Tail(rest(a)), option |-> word(rest(a)).option, attached |-> word(rest(a)).attached]
    BY <1>7, WithLetters
  <2>3. [word(rest(a)) EXCEPT !.letters = Tail(rest(a))] = word(Tail(rest(a)))
    BY <2>1, <2>2 DEF word
  <2> QED
    BY <1>6, <2>1, <2>3
<1>9. Drop(w, 0) = w
  BY <1>1, <1>2, <1>4
<1> HIDE DEF rest
<1>10. Drop(w, a).letters = rest(a) /\ Drop(w, a) = word(rest(a))
  BY <1>2
<1>11. word(rest(a)).option = w.option /\ word(rest(a)).attached = w.attached
  OBVIOUS
<1> HIDE DEF word
<1>12. Drop(w, a) \in Dashed /\ Drop(w, a).option = w.option /\ Drop(w, a).attached = w.attached
  BY <1>7, <1>10, <1>11
<1>13. a < Len(q) => Drop(w, a).letters # <<>> /\ Head(Drop(w, a).letters) = q[a + 1]
  BY <1>6, <1>10
<1>14. a >= Len(q) => Drop(w, a).letters = <<>>
  BY <1>5, <1>10
<1> QED
  BY <1>8, <1>9, <1>12, <1>13, <1>14 DEF Dropped

\* Where the line of all items holds one of them.
LEMMA ItemInLine ==
  ASSUME NEW line \in Seq(Word), NEW item \in Item, NEW joined, NEW M,
         Continues(AddItem(line, item, joined), M),
         NEW p, p = Place(line, joined), NEW b, b = Before(line, joined),
         NEW s, s = Spelled(item)
  PROVE  /\ M \in Seq(Word) /\ p \in 1 .. Len(M) /\ b \in Seq(Letter)
         /\ M[p] \in Dashed /\ Len(b) \in 0 .. Len(M[p].letters)
         /\ item.option \in Flag => Len(b) < Len(M[p].letters) /\ M[p].letters[Len(b) + 1] = item.option
         /\ item.option \notin Flag =>
              /\ M[p] = Longer(s[1], b)
              /\ p + Len(s) - 1 <= Len(M)
              /\ \A j \in 2 .. Len(s) : M[p + j - 1] = s[j]
<1> DEFINE new == AddItem(line, item, joined)
           v == Longer(s[1], b)
<1>1. p \in Nat \ {0} /\ b \in Seq(Letter) /\ AddedAt(new, line, s, p, b)
  BY AddFacts
<1>2. s \in Seq(Word) /\ Len(s) \in Nat /\ Len(s) >= 1 /\ s[1] \in Dashed
  BY SpelledFacts
<1>3. /\ new \in Seq(Word) /\ Len(new) = p + Len(s) - 1 /\ new[p] = v
      /\ \A j \in 2 .. Len(s) : new[p + j - 1] = s[j]
  BY <1>1 DEF AddedAt
<1>4. /\ M \in Seq(Word) /\ Len(M) >= Len(new) /\ \A j \in 1 .. Len(new) - 1 : M[j] = new[j]
      /\ new # <<>> => Extends(M[Len(new)], new[Len(new)])
  BY DEF Continues
<1>5. /\ v \in Dashed /\ v.option = s[1].option
      /\ Len(v.letters) = Len(b) + Len(s[1].letters) /\ Len(s[1].letters) \in Nat /\ Len(b) \in Nat
  BY <1>1, <1>2, LongerType
<1> HIDE DEF new, v
<1>6. \A j \in 1 .. Len(new) : M[j] = new[j] \/ Extends(M[j], new[j])
  <2> TAKE j \in 1 .. Len(new)
  <2>1. new # <<>> /\ Len(new) \in Nat
    BY <1>3
  <2>2. CASE j < Len(new)
    BY <1>4, <2>1, <2>2
  <2>3. CASE j >= Len(new)
    <3>1. j = Len(new)
      BY <2>1, <2>3
    <3> QED
      BY <1>4, <2>1, <3>1
  <2> QED
    BY <2>1, <2>2, <2>3
<1>7. p \in 1 .. Len(new) /\ Len(new) \in Nat /\ Len(M) \in Nat
  BY <1>1, <1>2, <1>3, <1>4
<1>8. M[p] = v \/ Extends(M[p], v)
  BY <1>3, <1>6, <1>7
<1>9. M[p] \in Dashed /\ Len(M[p].letters) \in Nat /\ Len(M[p].letters) >= Len(v.letters)
  <2>1. \A w \in Dashed : Len(w.letters) \in Nat
    BY DEF Dashed
  <2>2. M[p] = v => Len(M[p].letters) >= Len(v.letters)
    BY <1>5, <2>1
  <2> QED
    BY <1>5, <1>8, <2>1, <2>2 DEF Extends
<1>10. ASSUME item.option \in Flag
       PROVE  Len(b) < Len(M[p].letters) /\ M[p].letters[Len(b) + 1] = item.option
  <2>2. s[1].letters = <<item.option>>
    BY <1>10, FlagSpelled
  <2>3. v.letters = b \o <<item.option>>
    <3>1. Longer(s[1], b).letters = b \o s[1].letters
      BY <1>1, <1>2, LongerLetters
    <3> QED
      BY <2>2, <3>1 DEF v
  <2>4. Len(b \o <<item.option>>) = Len(b) + 1 /\ (b \o <<item.option>>)[Len(b) + 1] = item.option
    <3>1. <<item.option>> \in Seq({item.option}) /\ b \in Seq(Letter)
      BY <1>1
    <3> QED
      BY <3>1
  <2>5. Len(v.letters) = Len(b) + 1 /\ v.letters[Len(b) + 1] = item.option
    BY <2>3, <2>4
  <2>6. Len(b) + 1 \in 1 .. Len(v.letters)
    BY <1>5, <2>5
  <2>7. M[p].letters[Len(b) + 1] = v.letters[Len(b) + 1]
    BY <1>8, <2>6 DEF Extends
  <2> QED
    BY <1>5, <1>9, <2>5, <2>7
<1>11. ASSUME item.option \notin Flag
       PROVE  /\ M[p] = v /\ p + Len(s) - 1 <= Len(M)
              /\ \A j \in 2 .. Len(s) : M[p + j - 1] = s[j]
  <2>1. v.option # None
    <3>1. item.option \in WithArgument /\ s[1].option = item.option
      BY <1>11, ArgumentSpelled
    <3> QED
      BY <1>5, <3>1, NoneIsNoOption
  <2>2. M[p] = v
    BY <1>8, <2>1 DEF Extends
  <2>3. \A j \in 2 .. Len(s) : M[p + j - 1] = s[j]
    <3> TAKE j \in 2 .. Len(s)
    <3>1. p + j - 1 \in 1 .. Len(new)
      BY <1>1, <1>2, <1>3
    <3>2. s[j] \in Plain
      <4>1. /\ item.words \in Seq(Plain)
            /\ Len(s) = IF item.attached THEN Len(item.words) ELSE Len(item.words) + 1
            /\ s[j] = IF item.attached THEN item.words[j] ELSE item.words[j - 1]
        BY <1>11, ArgumentSpelled
      <4>2. (IF item.attached THEN j ELSE j - 1) \in 1 .. Len(item.words)
        BY <4>1
      <4> QED
        BY <4>1, <4>2
    <3>3. s[j] \notin Dashed
      BY <3>2, WordAssumption
    <3> QED
      BY <1>3, <1>6, <3>1, <3>3 DEF Extends
  <2> QED
    BY <1>1, <1>2, <1>3, <1>4, <1>7, <2>2, <2>3
<1> QED
  BY <1>1, <1>4, <1>5, <1>7, <1>9, <1>10, <1>11 DEF v
Grown(line, g, k) == IF k = 0 THEN <<>> ELSE AddItem(line[k - 1], g.items[k], g.joined)
AreLines(line, g, n) == line = [k \in 0 .. n |-> Grown(line, g, k)]
Lines(g) == CHOOSE line : AreLines(line, g, Len(g.items))

LEMMA LinesExist ==
  ASSUME NEW g, NEW n \in Nat
  PROVE  \E line : AreLines(line, g, n)
<1> DEFINE T == {m \in Nat : ~\E line : AreLines(line, g, m)}
<1>1. SUFFICES ASSUME T # {} PROVE FALSE
  OBVIOUS
<1>2. PICK m \in T : \A j \in T : ~ (j < m)
  <2>1. \E m \in T : \A j \in T : ~ (<<j, m>> \in OpToRel(<, Nat))
    BY <1>1, NatLessThanWellFounded, WFMin
  <2> QED
    BY <2>1 DEF OpToRel
<1>3. m # 0
  <2>1. AreLines([k \in 0 .. 0 |-> <<>>], g, 0)
    BY DEF AreLines, Grown
  <2> QED
    BY <2>1
<1>4. m - 1 \in Nat /\ m - 1 \notin T
  BY <1>2, <1>3
<1>5. PICK line : AreLines(line, g, m - 1)
  BY <1>4
<1> DEFINE more == [k \in 0 .. m |-> IF k < m THEN line[k] ELSE Grown(line, g, m)]
<1>6. ASSUME NEW k \in 0 .. m PROVE more[k] = Grown(more, g, k)
  <2>1. k # 0 => more[k - 1] = line[k - 1]
    OBVIOUS
  <2>2. Grown(more, g, k) = Grown(line, g, k)
    BY <2>1 DEF Grown
  <2>3. k < m => line[k] = Grown(line, g, k)
    BY <1>4, <1>5 DEF AreLines
  <2> QED
    BY <2>2, <2>3
<1>7. AreLines(more, g, m)
  BY <1>6 DEF AreLines
<1> QED
  BY <1>7

LEMMA LineIsLast ==
  ASSUME NEW g
  PROVE  Line(g) = Lines(g)[Len(g.items)] \o g.names
BY DEF Line, Lines, AreLines, Grown

\* The end of a line to which an item is added.
LEMMA EndOfAdded ==
  ASSUME NEW line \in Seq(Word), NEW item \in Item, NEW joined, NEW new, new = AddItem(line, item, joined),
         NEW p, p = Place(line, joined), NEW b, b = Before(line, joined),
         NEW s, s = Spelled(item)
  PROVE  /\ new \in Seq(Word) /\ new # <<>> /\ Len(new) = p + Len(s) - 1
         /\ item.option \in Flag =>
              /\ new[Len(new)] \in Dashed /\ Len(new[Len(new)].letters) = Len(b) + 1 /\ Len(new) = p
              /\ new[Len(new)].option = None /\ new[Len(new)].attached = None
              /\ \A more \in BOOLEAN : Joins(new, more) <=> more
         /\ item.option \notin Flag => \A more : ~Joins(new, more)
<1>1. p \in Nat \ {0} /\ b \in Seq(Letter) /\ AddedAt(new, line, s, p, b)
  BY AddFacts
<1>2. s \in Seq(Word) /\ Len(s) \in Nat /\ Len(s) >= 1 /\ s[1] \in Dashed
  BY SpelledFacts
<1>3. /\ new \in Seq(Word) /\ Len(new) = p + Len(s) - 1 /\ new[p] = Longer(s[1], b)
      /\ \A j \in 2 .. Len(s) : new[p + j - 1] = s[j]
  BY <1>1 DEF AddedAt
<1>4. Len(new) \in Nat /\ Len(new) >= 1
  BY <1>1, <1>2, <1>3
<1>5. new # <<>> /\ Last(new) = new[Len(new)]
  <2>1. Len(<<>>) = 0
    OBVIOUS
  <2> QED
    BY <1>4, <2>1 DEF Last
<1>6. /\ Longer(s[1], b) \in Dashed /\ Longer(s[1], b).option = s[1].option
      /\ Longer(s[1], b).attached = s[1].attached
      /\ Len(Longer(s[1], b).letters) = Len(b) + Len(s[1].letters)
  BY <1>1, <1>2, LongerLetters
<1>7. ASSUME item.option \in Flag
      PROVE  /\ new[Len(new)] \in Dashed /\ Len(new[Len(new)].letters) = Len(b) + 1 /\ Len(new) = p
             /\ new[Len(new)].option = None /\ new[Len(new)].attached = None
             /\ \A more \in BOOLEAN : Joins(new, more) <=> more
  <2>1. /\ s = <<[letters |-> <<item.option>>, option |-> None, attached |-> None]>>
        /\ s[1].letters = <<item.option>> /\ s[1].option = None /\ s[1].attached = None
    BY <1>7, FlagSpelled
  <2>2. Len(s) = 1
    BY <2>1
  <2>3. Len(new) = p
    BY <1>1, <1>3, <2>2
  <2>4. Len(<<item.option>>) = 1
    OBVIOUS
  <2>5. /\ new[Len(new)] \in Dashed /\ Len(new[Len(new)].letters) = Len(b) + 1
        /\ new[Len(new)].option = None /\ new[Len(new)].attached = None
    BY <1>3, <1>6, <2>1, <2>3, <2>4
  <2>6. \A more \in BOOLEAN : Joins(new, more) <=> more
    BY <1>5, <2>5 DEF Joins
  <2> QED
    BY <2>3, <2>5, <2>6
<1>8. ASSUME item.option \notin Flag PROVE \A more : ~Joins(new, more)
  <2>1. /\ item.words \in Seq(Plain) /\ item.option # None /\ s[1].option = item.option
        /\ Len(s) = IF item.attached THEN Len(item.words) ELSE Len(item.words) + 1
        /\ \A j \in 2 .. Len(s) : s[j] = IF item.attached THEN item.words[j] ELSE item.words[j - 1]
    BY <1>8, ArgumentSpelled
  <2>2. CASE Len(s) <= 1
    <3>1. Len(new) = p
      BY <1>1, <1>2, <1>3, <2>2
    <3>2. Last(new).option # None
      BY <1>3, <1>5, <1>6, <2>1, <3>1
    <3> QED
      BY <3>2 DEF Joins
  <2>3. CASE Len(s) > 1
    <3>1. (IF item.attached THEN Len(s) ELSE Len(s) - 1) \in 1 .. Len(item.words)
      BY <1>2, <2>1, <2>3
    <3>2. s[Len(s)] \in Plain
      BY <1>2, <2>1, <2>3, <3>1
    <3>3. new[Len(new)] = s[Len(s)]
      <4>1. PICK m \in 2 .. Len(s) : m = Len(s)
        BY <1>2, <2>3
      <4>2. new[p + m - 1] = s[m]
        BY <1>3
      <4>3. Len(new) = p + m - 1
        BY <1>3, <4>1
      <4> QED
        BY <4>1, <4>2, <4>3
    <3>4. Last(new) \notin Dashed
      BY <1>5, <3>2, <3>3, WordAssumption
    <3> QED
      BY <3>4 DEF Joins
  <2> QED
    BY <1>2, <2>2, <2>3
<1> QED
  BY <1>3, <1>5, <1>7, <1>8

\* The lines of more and more items, each continued by the line of them all.
LEMMA LinesAre ==
  ASSUME NEW g \in Given
  PROVE  /\ g.items \in Seq(Item) /\ g.joined \in BOOLEAN /\ g.names \in Seq(Plain) /\ Len(g.items) \in Nat
         /\ Lines(g)[0] = <<>>
         /\ \A k \in 1 .. Len(g.items) : Lines(g)[k] = AddItem(Lines(g)[k - 1], g.items[k], g.joined)
         /\ \A k \in 0 .. Len(g.items) : Lines(g)[k] \in Seq(Word)
<1>1. g.items \in Seq(Item) /\ g.joined \in BOOLEAN /\ g.names \in Seq(Plain) /\ Len(g.items) \in Nat
  <2>1. g \in [items : Seq(Item), joined : BOOLEAN, names : Seq(Plain)]
    BY WordAssumption
  <2> QED
    BY <2>1
<1> DEFINE n == Len(g.items)
           line == Lines(g)
<1>2. AreLines(line, g, n)
  BY <1>1, LinesExist DEF Lines
<1>3. line[0] = <<>> /\ \A k \in 1 .. n : line[k] = AddItem(line[k - 1], g.items[k], g.joined)
  <2> HIDE DEF line
  <2>1. \A k \in 0 .. n : line[k] = Grown(line, g, k)
    BY <1>2 DEF AreLines
  <2> QED
    BY <1>1, <2>1 DEF Grown
<1> HIDE DEF line
<1>4. \A k \in 0 .. n : line[k] \in Seq(Word)
  <2> DEFINE T == {k \in Nat : k <= n /\ line[k] \notin Seq(Word)}
  <2>1. SUFFICES ASSUME T # {} PROVE FALSE
    BY <1>1
  <2>2. PICK m \in T : \A j \in T : ~ (j < m)
    <3>1. \E m \in T : \A j \in T : ~ (<<j, m>> \in OpToRel(<, Nat))
      BY <2>1, NatLessThanWellFounded, WFMin
    <3> QED
      BY <3>1 DEF OpToRel
  <2>3. m \in 1 .. n
    <3>1. <<>> \in Seq(Word)
      OBVIOUS
    <3>2. m # 0
      BY <1>3, <2>2, <3>1
    <3> QED
      BY <1>1, <2>2, <3>2
  <2>4. line[m - 1] \in Seq(Word)
    BY <1>1, <2>2, <2>3
  <2>5. g.items[m] \in Item
    BY <1>1, <2>3
  <2>6. line[m] \in Seq(Word)
    BY <1>3, <2>3, <2>4, <2>5, EndOfAdded
  <2> QED
    BY <2>6
<1> QED
  BY <1>1, <1>3, <1>4 DEF line

LEMMA LineContinues ==
  ASSUME NEW g \in Given
  PROVE  /\ Line(g) \in Seq(Word) /\ Line(g) = Lines(g)[Len(g.items)] \o g.names
         /\ \A k \in 0 .. Len(g.items) : Continues(Lines(g)[k], Line(g))
<1> DEFINE n == Len(g.items)
           line == Lines(g)
           all == Line(g)
<1>1. /\ n \in Nat /\ g.items \in Seq(Item) /\ g.names \in Seq(Plain)
      /\ \A k \in 1 .. n : line[k] = AddItem(line[k - 1], g.items[k], g.joined)
      /\ \A k \in 0 .. n : line[k] \in Seq(Word)
  BY LinesAre
<1>2. all = line[n] \o g.names
  BY LineIsLast
<1>3. g.names \in Seq(Word)
  BY <1>1 DEF Word
<1> HIDE DEF line, all
<1>4. all \in Seq(Word) /\ Len(all) = Len(line[n]) + Len(g.names) /\ \A j \in 1 .. Len(line[n]) : all[j] = line[n][j]
  <2>1. line[n] \in Seq(Word)
    BY <1>1
  <2> DEFINE last == line[n]
  <2> HIDE DEF last
  <2>2. last \in Seq(Word) /\ g.names \in Seq(Word)
    BY <1>3, <2>1 DEF last
  <2>3. last \o g.names \in Seq(Word) /\ Len(last \o g.names) = Len(last) + Len(g.names)
        /\ \A j \in 1 .. Len(last) : (last \o g.names)[j] = last[j]
    BY <2>2, Joined
  <2>4. all = last \o g.names
    BY <1>2 DEF last
  <2> QED
    BY <2>3, <2>4 DEF last
<1>5. Continues(line[n], all)
  <2>1. line[n] \in Seq(Word) /\ Len(line[n]) \in Nat /\ Len(g.names) \in Nat
    BY <1>1
  <2>2. line[n] # <<>> => Len(line[n]) \in 1 .. Len(line[n])
    BY <2>1
  <2>3. Len(all) >= Len(line[n]) /\ \A j \in 1 .. Len(line[n]) - 1 : all[j] = line[n][j]
    <3>1. \A j \in 1 .. Len(line[n]) - 1 : j \in 1 .. Len(line[n])
      BY <2>1
    <3>2. Len(all) >= Len(line[n])
      <4>1. PICK a \in Nat, c \in Nat : a = Len(line[n]) /\ c = Len(g.names)
        BY <2>1
      <4>2. Len(all) = a + c
        BY <1>4, <4>1
      <4>3. a + c >= a
        OBVIOUS
      <4> QED
        BY <4>1, <4>2, <4>3, Zenon
    <3> QED
      BY <1>4, <3>1, <3>2
  <2>4. line[n] # <<>> => all[Len(line[n])] = line[n][Len(line[n])]
    BY <1>4, <2>2
  <2> QED
    BY <1>4, <2>3, <2>4 DEF Continues, Extends
<1>6. \A k \in 0 .. n : Continues(line[k], all)
  <2> DEFINE T == {d \in Nat : d <= n /\ ~Continues(line[n - d], all)}
  <2>1. SUFFICES ASSUME T # {} PROVE FALSE
    <3>1. \A k \in 0 .. n : n - k \in Nat /\ n - k <= n /\ n - (n - k) = k
      BY <1>1
    <3> QED
      BY <3>1
  <2>2. PICK m \in T : \A j \in T : ~ (j < m)
    <3>1. \E m \in T : \A j \in T : ~ (<<j, m>> \in OpToRel(<, Nat))
      BY <2>1, NatLessThanWellFounded, WFMin
    <3> QED
      BY <3>1 DEF OpToRel
  <2>3. m # 0
    BY <1>1, <1>5, <2>2
  <2>4. n - m \in 0 .. n /\ n - m + 1 \in 1 .. n /\ n - (m - 1) = n - m + 1 /\ n - m + 1 - 1 = n - m
    BY <1>1, <2>2, <2>3
  <2>5. Continues(line[n - m + 1], all)
    BY <1>1, <2>2, <2>3, <2>4
  <2>6. line[n - m + 1] = AddItem(line[n - m], g.items[n - m + 1], g.joined) /\ line[n - m] \in Seq(Word)
        /\ g.items[n - m + 1] \in Item
    <3>1. PICK j \in 1 .. n : j = n - m + 1
      BY <2>4
    <3>0. j - 1 \in 0 .. n /\ j - 1 = n - m
      BY <2>4, <3>1
    <3>2. line[j] = AddItem(line[j - 1], g.items[j], g.joined) /\ j - 1 \in 0 .. n /\ j - 1 = n - m
      BY <1>1, <3>0, Zenon
    <3>3. line[j - 1] \in Seq(Word)
      BY <1>1, <3>2
    <3>4. g.items[j] \in Item
      BY <1>1, <3>1
    <3> QED
      BY <3>1, <3>2, <3>3, <3>4, Zenon
  <2>7. Continues(line[n - m], all)
    BY <2>5, <2>6, ContinuesStep
  <2> QED
    BY <2>2, <2>7
<1> QED
  BY <1>2, <1>4, <1>6 DEF line, all

-----------------------------------------------------------------------------
(***************************************************************************)
(* Type correctness, for any command line.                                 *)
(***************************************************************************)

\* What main's settings may hold.  The words of -s and -i are words of the
\* command line: None would be the NULL behind the last one.
SettingsOver(B) ==
  [cert : Word \cup {None}, key : Word \cup {None}, log : Word \cup {None}, name : Word \cup {None},
   port : Nat \ {0}, version : Nat \ {0}, mtu : 0 .. MaxPacketSize,
   once : B, hrr : B, zero_share : B, timing : B,
   seed : (Word \X Word) \cup {None},
   cnx_id : [select : Int, mask : Word, val : Word] \cup {None}]
Settings == SettingsOver(BOOLEAN)

LineInv ==
  /\ pc \in {"options", "usage", "server", "client"}
  /\ given \in Given \cup {None}
  /\ argv \in Seq(Word)
  /\ optind \in 1 .. Len(argv) + 3
  /\ pc = "options" => optind \in 1 .. argc
  /\ place \in Dashed
  /\ place # Done => optind < argc
  /\ set \in Settings

LEMMA DoneType == Done \in Dashed
BY DEF Done, Dashed

LEMMA LineInit == Init => LineInv
<1> SUFFICES ASSUME Init PROVE LineInv
  OBVIOUS
<1>1. argv \in Seq(Word)
  BY WordAssumption, LineContinues DEF Init
<1>2. Defaults \in Settings
  BY DEF Defaults, Settings, SettingsOver, DefaultPort, DefaultVersion, MaxPacketSize
<1> QED
  BY <1>1, <1>2, DoneType DEF Init, LineInv, argc

LEMMA ScannedType ==
  ASSUME LineInv, pc = "options", ~NoMore
  PROVE  Scanned \in Dashed /\ optind < argc /\ optind \in Nat \ {0} /\ argc \in Nat
<1>1. argc = Len(argv) + 1 /\ Len(argv) \in Nat /\ optind \in Nat \ {0}
  BY DEF LineInv, argc
<1>2. CASE place # Done
  BY <1>1, <1>2 DEF LineInv, Scanned
<1>3. CASE place = Done
  <2>1. optind < argc /\ argv[optind] \notin Plain
    BY <1>3 DEF NoMore, AtWord
  <2>2. argv[optind] \in Word
    BY <1>1, <2>1 DEF LineInv
  <2> QED
    BY <1>1, <1>3, <2>1, <2>2 DEF Scanned, Word
<1> QED
  BY <1>2, <1>3

LEMMA NumbersType == (\A w : Atoi(w) \in Int) /\ \A w : ParseTargetVersion(w) \in Nat
BY WordAssumption DEF Atoi, ParseTargetVersion

LEMMA FlagsType ==
  ASSUME NEW B, NEW s \in SettingsOver(B), NEW a \in B, NEW b \in B, NEW c \in B
  PROVE  [s EXCEPT !.once = a, !.hrr = b, !.zero_share = c] \in SettingsOver(B)
BY DEF SettingsOver

\* What a valid option sets.
LEMMA WithType ==
  ASSUME LineInv, NEW option \in WithArgument, NEW w \in Word, NEW n \in Nat \ {0},
         n + Wants(option) <= argc, Valid(option, w)
  PROVE  With(option, w, n) \in Settings
<1>1. argc = Len(argv) + 1 /\ Len(argv) \in Nat
  BY DEF LineInv, argc
<1>2. \A k \in Nat \ {0} : k < argc => Argv(k) \in Word
  BY <1>1 DEF LineInv, Argv
<1>3. set \in Settings
  BY DEF LineInv
<1>4. CASE option = "s"
  <2>1. n < argc
    BY <1>1, <1>4 DEF Wants
  <2>2. <<Argv(n), Argv(n)>> \in Word \X Word
    BY <1>2, <2>1
  <2>3. With(option, w, n) = [set EXCEPT !.seed = <<Argv(n), Argv(n)>>]
    BY <1>4 DEF With
  <2> QED
    BY <1>3, <2>2, <2>3 DEF Settings, SettingsOver
<1>5. CASE option = "i"
  <2>1. n < argc /\ n + 1 < argc /\ n + 1 \in Nat \ {0}
    BY <1>1, <1>5 DEF Wants
  <2> DEFINE id == [select |-> Atoi(w), mask |-> Argv(n), val |-> Argv(n + 1)]
  <2>2. id \in [select : Int, mask : Word, val : Word]
    BY <1>2, <2>1, NumbersType
  <2>3. With(option, w, n) = [set EXCEPT !.cnx_id = id]
    BY <1>5 DEF With
  <2> HIDE DEF id
  <2> QED
    BY <1>3, <2>2, <2>3 DEF Settings, SettingsOver
<1>6. CASE option = "p"
  <2>1. Atoi(w) \in Nat \ {0}
    BY <1>6, NumbersType DEF Valid
  <2>2. With(option, w, n) = [set EXCEPT !.port = Atoi(w)]
    BY <1>6 DEF With
  <2> QED
    BY <1>3, <2>1, <2>2 DEF Settings, SettingsOver
<1>7. CASE option = "v"
  <2>1. ParseTargetVersion(w) \in Nat \ {0}
    BY <1>7, NumbersType DEF Valid
  <2>2. With(option, w, n) = [set EXCEPT !.version = ParseTargetVersion(w)]
    BY <1>7 DEF With
  <2> QED
    BY <1>3, <2>1, <2>2 DEF Settings, SettingsOver
<1>8. CASE option = "m"
  <2>1. Atoi(w) \in 0 .. MaxPacketSize
    BY <1>8 DEF Valid, MaxPacketSize
  <2>2. With(option, w, n) = [set EXCEPT !.mtu = Atoi(w)]
    BY <1>8 DEF With
  <2> QED
    BY <1>3, <2>1, <2>2 DEF Settings, SettingsOver
<1>9. CASE option \in {"c", "k", "l"}
  <2>1. \/ With(option, w, n) = [set EXCEPT !.cert = w]
        \/ With(option, w, n) = [set EXCEPT !.key = w]
        \/ With(option, w, n) = [set EXCEPT !.log = w]
    BY <1>9 DEF With
  <2> QED
    BY <1>3, <2>1 DEF Settings, SettingsOver
<1>10. CASE option = "t"
  <2>1. With(option, w, n) = [set EXCEPT !.timing = TRUE]
    BY <1>10 DEF With
  <2> QED
    BY <1>3, <2>1 DEF Settings, SettingsOver
<1> QED
  BY <1>4, <1>5, <1>6, <1>7, <1>8, <1>9, <1>10 DEF WithArgument

LEMMA LineStep == LineInv /\ [Next]_vars => LineInv'
<1> SUFFICES ASSUME LineInv, [Next]_vars PROVE LineInv'
  OBVIOUS
<1>0. argc = Len(argv) + 1 /\ Len(argv) \in Nat /\ optind \in Nat \ {0}
  BY DEF LineInv, argc
<1>1. CASE FlagOption
  <2>1. Scanned \in Dashed /\ optind < argc /\ Scanned.letters # <<>>
    BY <1>1, ScannedType DEF FlagOption, LetterNext
  <2>2. Rest \in Dashed
    BY <2>1 DEF Rest, Dashed
  <2>3. optind' \in 1 .. argc /\ (Rest # Done => optind' < argc)
    BY <1>0, <1>1, <2>1 DEF FlagOption, AfterLetter
  <2>4. set' \in Settings /\ pc' \in {"options", "usage"}
    <3>1. CASE Head(Scanned.letters) = "h"
      BY <1>1, <3>1 DEF FlagOption, Usage, LineInv
    <3>2. CASE Head(Scanned.letters) # "h"
      <4> DEFINE letter == Head(Scanned.letters)
                 once == set.once \/ letter = "1"
                 hrr == set.hrr \/ letter = "r"
                 zero_share == set.zero_share \/ letter = "z"
      <4>1. set' = [set EXCEPT !.once = once, !.hrr = hrr, !.zero_share = zero_share] /\ pc' = pc
        BY <1>1, <3>2 DEF FlagOption
      <4>2. once \in BOOLEAN /\ hrr \in BOOLEAN /\ zero_share \in BOOLEAN
        OBVIOUS
      <4> HIDE DEF letter, once, hrr, zero_share
      <4> QED
        <5>1. set' \in Settings
          <6>1. set \in SettingsOver(BOOLEAN)
            BY DEF LineInv, Settings
          <6>2. [set EXCEPT !.once = once, !.hrr = hrr, !.zero_share = zero_share] \in SettingsOver(BOOLEAN)
            BY <4>2, <6>1, FlagsType
          <6> QED
            BY <4>1, <6>2 DEF Settings
        <5> QED
          BY <1>1, <4>1, <5>1 DEF FlagOption
    <3> QED
      BY <3>1, <3>2
  <2> QED
    BY <1>0, <1>1, <2>2, <2>3, <2>4 DEF FlagOption, LineInv, argc
<1>2. CASE MissingArgument
  <2>1. optind < argc
    BY <1>2, ScannedType DEF MissingArgument, ArgumentNext
  <2> QED
    BY <1>0, <1>2, <2>1, DoneType DEF MissingArgument, LineInv, argc
<1>3. CASE ArgumentOption
  <2>1. Scanned \in Dashed /\ optind < argc /\ Scanned.letters = <<>> /\ ~NoMore
    BY <1>3, ScannedType DEF ArgumentOption, ArgumentNext
  <2>2. Scanned # Done
    BY <2>1 DEF NoMore, DashAlone, Scanned
  <2>3. Scanned.option \in WithArgument
    BY <2>1, <2>2 DEF Dashed, Done
  <2>4. Optarg \in Word /\ AfterArgument \in 2 .. argc
    <3>1. CASE Scanned.attached # None
      BY <1>0, <2>1, <3>1 DEF Optarg, AfterArgument, Dashed, Word
    <3>2. CASE Scanned.attached = None
      <4>1. optind + 1 < argc
        BY <1>0, <1>3, <3>2 DEF ArgumentOption, Missing
      <4> QED
        BY <1>0, <3>2, <4>1 DEF Optarg, AfterArgument, LineInv
    <3> QED
      BY <3>1, <3>2
  <2> DEFINE option == Scanned.option
             next == AfterArgument
  <2>0. Wants(option) \in 0 .. 2 /\ next + Wants(option) \in Int /\ argc \in Int
    BY <1>0, <2>4 DEF Wants
  <2>5. CASE next + Wants(option) <= argc /\ Valid(option, Optarg)
    <3>1. set' = With(option, Optarg, next) /\ optind' = next + Reads(option) /\ pc' = pc
      BY <1>3, <2>0, <2>5 DEF ArgumentOption
    <3>2. set' \in Settings
      BY <1>0, <2>3, <2>4, <2>5, <3>1, WithType
    <3>3. Reads(option) \in {0, 1, 2} /\ (Reads(option) = 0 \/ Reads(option) = Wants(option))
      BY DEF Reads, Wants
    <3>4. optind' \in 1 .. argc
      BY <1>0, <2>4, <2>5, <3>1, <3>3
    <3> QED
      BY <1>0, <1>3, <3>1, <3>2, <3>4, DoneType DEF ArgumentOption, LineInv, argc
  <2>6. CASE ~(next + Wants(option) <= argc /\ Valid(option, Optarg))
    <3>1. set' = set /\ optind' = next /\ pc' = "usage"
      BY <1>3, <2>6 DEF ArgumentOption, Usage
    <3> QED
      BY <1>0, <1>3, <2>4, <3>1, DoneType DEF ArgumentOption, LineInv, argc
  <2> QED
    BY <2>5, <2>6
<1>4. CASE Start
  <2> DEFINE words == SubSeq(argv, FirstWord, Len(argv))
  <2>1. FirstWord \in 1 .. argc
    <3>1. DashDash => optind < argc
      BY DEF DashDash, AtWord
    <3> QED
      BY <1>0, <1>4, <3>1 DEF FirstWord, LineInv, Start
  <2>2. words \in Seq(Word) /\ Len(words) = argc - FirstWord
    BY <1>0, <2>1 DEF LineInv
  <2> HIDE DEF words
  <2>3. CASE Len(words) >= 2 /\ Atoi(words[2]) <= 0
    <3>1. optind' = FirstWord + 2 /\ pc' = "usage" /\ set' = set
      BY <1>4, <2>2, <2>3, NumbersType DEF Start, Usage, words
    <3> QED
      BY <1>0, <1>4, <2>1, <2>2, <2>3, <3>1, DoneType DEF Start, LineInv, argc
  <2>4. CASE ~(Len(words) >= 2 /\ Atoi(words[2]) <= 0)
    <3> DEFINE name == IF words # <<>> THEN words[1] ELSE set.name
               port == IF Len(words) >= 2 THEN Atoi(words[2]) ELSE set.port
    <3>1. /\ pc' \in {"client", "server"}
          /\ optind' = FirstWord + (IF Len(words) < 2 THEN Len(words) ELSE 2)
          /\ set' = [set EXCEPT !.name = name, !.port = port]
      BY <1>4, <2>4 DEF Start, words
    <3>2. name \in Word \cup {None} /\ port \in Nat \ {0}
      BY <2>2, <2>4, NumbersType DEF LineInv, Settings, SettingsOver
    <3> HIDE DEF name, port
    <3>3. set' \in Settings
      BY <3>1, <3>2 DEF LineInv, Settings, SettingsOver
    <3>4. optind' \in 1 .. Len(argv) + 3
      BY <1>0, <2>1, <2>2, <3>1
    <3> QED
      BY <1>0, <1>4, <3>1, <3>3, <3>4, DoneType DEF Start, LineInv, argc
  <2> QED
    BY <2>3, <2>4
<1>5. CASE Ended \/ UNCHANGED vars
  BY <1>5 DEF Ended, vars, LineInv, argc
<1> QED
  BY <1>1, <1>2, <1>3, <1>4, <1>5 DEF Next

LEMMA LineInvariant == Spec => []LineInv
BY LineInit, LineStep, PTL DEF Spec

\* getopt never looks behind the last word but for the two optind may skip, and
\* ports, versions and sizes are in their ranges, for any command line.
THEOREM MainTypeCorrect == Spec => []TypeOK
<1>1. LineInv => TypeOK
  BY DEF LineInv, TypeOK, Settings, SettingsOver
<1> QED
  BY <1>1, LineInvariant, PTL

\* For any command line, however long, -s and -i only take words that there are.
THEOREM ReadsOnlyWords == Spec => []NoReadBeyond
<1>1. LineInv => NoReadBeyond
  BY WordAssumption DEF LineInv, Settings, SettingsOver, NoReadBeyond
<1> QED
  BY <1>1, LineInvariant, PTL

-----------------------------------------------------------------------------
(***************************************************************************)
(* What settings mean. One more item changes only what its option means.   *)
(***************************************************************************)

LEMMA MaxIs ==
  ASSUME NEW n \in Nat, NEW S \in SUBSET (1 .. n), S # {}
  PROVE  Max(S) \in S /\ \A k \in S : k <= Max(S)
<1> DEFINE B == {m \in Nat : \A k \in S : k <= m}
<1>1. B # {}
  OBVIOUS
<1>2. PICK m \in B : \A j \in B : ~ (j < m)
  <2>1. \E m \in B : \A j \in B : ~ (<<j, m>> \in OpToRel(<, Nat))
    BY <1>1, NatLessThanWellFounded, WFMin
  <2> QED
    BY <2>1 DEF OpToRel
<1>3. m \in S
  <2> SUFFICES ASSUME m \notin S PROVE FALSE
    OBVIOUS
  <2>1. \A k \in S : k \in Nat /\ k >= 1 /\ k <= m /\ k # m
    BY <1>2
  <2>3. m >= 1
    <3>1. PICK k \in S : TRUE
      OBVIOUS
    <3>2. k \in Nat /\ k >= 1 /\ k <= m /\ m \in Nat
      BY <1>2, <2>1
    <3> QED
      BY <3>2
  <2>4. \A k \in S : k <= m - 1
    BY <2>1
  <2>2. m - 1 \in B
    BY <1>2, <2>3, <2>4
  <2> QED
    BY <1>2, <2>2
<1>4. \E x \in S : \A y \in S : x >= y
  BY <1>2, <1>3
<1>5. Max(S) \in S /\ \A y \in S : Max(S) >= y
  BY <1>4 DEF Max
<1> QED
  BY <1>5

LEMMA LastCounts ==
  ASSUME NEW items \in Seq(Item), NEW item \in Item, NEW all, all = Append(items, item), NEW option
  PROVE  /\ Holds(option, all) <=> option = item.option \/ Holds(option, items)
         /\ WordsOf(option, all) = IF option = item.option THEN item.words ELSE WordsOf(option, items)
<1>1. PICK n \in Nat : n = Len(items)
  OBVIOUS
<1>2. /\ DOMAIN items = 1 .. n /\ DOMAIN all = 1 .. n + 1
      /\ all[n + 1] = item /\ \A k \in 1 .. n : all[k] = items[k]
  BY <1>1
<1>3. CASE option = item.option
  <2>1. n + 1 \in Those(option, all) /\ Those(option, all) \in SUBSET (1 .. n + 1)
    BY <1>2, <1>3 DEF Those
  <2>2. Max(Those(option, all)) = n + 1
    <3>1. n + 1 \in Nat /\ Those(option, all) # {}
      BY <2>1
    <3>2. Max(Those(option, all)) \in 1 .. n + 1 /\ n + 1 <= Max(Those(option, all))
      BY <2>1, <3>1, MaxIs
    <3> QED
      BY <3>2
  <2> QED
    BY <1>2, <1>3, <2>1, <2>2 DEF Holds, WordsOf
<1>4. CASE option # item.option
  <2>1. Those(option, all) = Those(option, items) /\ Those(option, items) \in SUBSET (1 .. n)
    BY <1>2, <1>4 DEF Those
  <2>2. CASE Those(option, items) = {}
    BY <1>4, <2>1, <2>2 DEF Holds, WordsOf
  <2>3. CASE Those(option, items) # {}
    <3>1. Max(Those(option, items)) \in 1 .. n
      BY <2>1, <2>3, MaxIs
    <3> QED
      BY <1>2, <1>4, <2>1, <3>1 DEF Holds, WordsOf
  <2> QED
    BY <2>2, <2>3
<1> QED
  BY <1>3, <1>4

\* What an item more changes of what the items mean.
Adds(all, items, item) ==
  \A option :
    /\ option = item.option =>
         /\ Holds(option, all) /\ WordsOf(option, all) = item.words
         /\ \A default : NumberOf(option, all, default) = Number[item.words[1]]
    /\ option # item.option =>
         /\ Holds(option, all) <=> Holds(option, items)
         /\ WordsOf(option, all) = WordsOf(option, items)
         /\ \A default : NumberOf(option, all, default) = NumberOf(option, items, default)

LEMMA LastAdds ==
  ASSUME NEW items \in Seq(Item), NEW item \in Item
  PROVE  Adds(Append(items, item), items, item)
<1> DEFINE all == Append(items, item)
<1>1. all = Append(items, item)
  OBVIOUS
<1> HIDE DEF all
<1>2. ASSUME NEW option, option = item.option
      PROVE  /\ Holds(option, all) /\ WordsOf(option, all) = item.words
             /\ \A default : NumberOf(option, all, default) = Number[item.words[1]]
  <2>1. Holds(option, all) /\ WordsOf(option, all) = item.words
    BY <1>1, <1>2, LastCounts
  <2> QED
    BY <2>1 DEF NumberOf
<1>3. ASSUME NEW option, option # item.option
      PROVE  /\ Holds(option, all) <=> Holds(option, items)
             /\ WordsOf(option, all) = WordsOf(option, items)
             /\ \A default : NumberOf(option, all, default) = NumberOf(option, items, default)
  <2>1. (Holds(option, all) <=> Holds(option, items)) /\ WordsOf(option, all) = WordsOf(option, items)
    BY <1>1, <1>3, LastCounts
  <2> QED
    BY <2>1 DEF NumberOf
<1> QED
  BY <1>1, <1>2, <1>3 DEF Adds

\* The settings are those meant by some items, the seed and the name left out.
Sets(s, items) ==
  /\ s.cert = WordsOf("c", items)[1] /\ s.key = WordsOf("k", items)[1] /\ s.log = WordsOf("l", items)[1]
  /\ s.name = None
  /\ s.port = NumberOf("p", items, DefaultPort)
  /\ s.version = IF Holds("v", items) THEN Version[WordsOf("v", items)[1]] ELSE DefaultVersion
  /\ s.mtu = NumberOf("m", items, 0)
  /\ s.once <=> Holds("1", items)
  /\ s.hrr <=> Holds("r", items)
  /\ s.zero_share <=> Holds("z", items)
  /\ s.timing <=> Holds("t", items)
  /\ s.cnx_id = IF ~Holds("i", items) THEN None
                ELSE LET w == WordsOf("i", items) IN [select |-> Number[w[1]], mask |-> w[2], val |-> w[3]]

LEMMA DefaultsSet == Sets(Defaults, <<>>)
<1>1. \A option : Those(option, <<>>) = {}
  BY DEF Those
<1>2. \A option : ~Holds(option, <<>>) /\ WordsOf(option, <<>>) = <<None>>
  BY <1>1 DEF Holds, WordsOf
<1>3. \A option, default : NumberOf(option, <<>>, default) = default
  BY <1>2 DEF NumberOf
<1> QED
  BY <1>2, <1>3 DEF Sets, Defaults

Flagged(t, s, a, b, c) ==
  /\ t.once = a /\ t.hrr = b /\ t.zero_share = c /\ t.timing = s.timing
  /\ t.cert = s.cert /\ t.key = s.key /\ t.log = s.log /\ t.name = s.name
  /\ t.port = s.port /\ t.version = s.version /\ t.mtu = s.mtu /\ t.cnx_id = s.cnx_id

LEMMA FlagFields ==
  ASSUME NEW B, NEW s \in SettingsOver(B), NEW a \in B, NEW b \in B, NEW c \in B,
         NEW t, t = [s EXCEPT !.once = a, !.hrr = b, !.zero_share = c]
  PROVE  Flagged(t, s, a, b, c)
BY DEF SettingsOver, Flagged

LEMMA FlagSets ==
  ASSUME NEW B, NEW s \in SettingsOver(B), NEW items \in Seq(Item), NEW item \in Item, Sets(s, items),
         item.option \in Flag,
         NEW a \in B, a <=> s.once \/ item.option = "1",
         NEW b \in B, b <=> s.hrr \/ item.option = "r",
         NEW c \in B, c <=> s.zero_share \/ item.option = "z"
  PROVE  Sets([s EXCEPT !.once = a, !.hrr = b, !.zero_share = c], Append(items, item))
<1> DEFINE t == [s EXCEPT !.once = a, !.hrr = b, !.zero_share = c]
           all == Append(items, item)
<1>0. t = [s EXCEPT !.once = a, !.hrr = b, !.zero_share = c] /\ all = Append(items, item)
  OBVIOUS
<1> HIDE DEF t, all
<1>1. /\ t.once = a /\ t.hrr = b /\ t.zero_share = c /\ t.timing = s.timing
      /\ t.cert = s.cert /\ t.key = s.key /\ t.log = s.log /\ t.name = s.name
      /\ t.port = s.port /\ t.version = s.version /\ t.mtu = s.mtu /\ t.cnx_id = s.cnx_id
  <2>1. Flagged(t, s, a, b, c)
    BY <1>0, FlagFields
  <2> QED
    BY <2>1 DEF Flagged
<1>2. Adds(all, items, item)
  BY <1>0, LastAdds
<1>4. item.option \notin WithArgument
  BY DEF Flag, WithArgument
<1>5. \A option \in WithArgument :
        /\ Holds(option, all) <=> Holds(option, items)
        /\ WordsOf(option, all) = WordsOf(option, items)
        /\ \A default : NumberOf(option, all, default) = NumberOf(option, items, default)
  BY <1>2, <1>4 DEF Adds
<1>6. t.once <=> Holds("1", all)
  <2>1. t.once <=> s.once \/ item.option = "1"
    BY <1>1
  <2> QED
    BY <1>2, <2>1 DEF Sets, Adds
<1>7. t.hrr <=> Holds("r", all)
  <2>1. t.hrr <=> s.hrr \/ item.option = "r"
    BY <1>1
  <2> QED
    BY <1>2, <2>1 DEF Sets, Adds
<1>8. t.zero_share <=> Holds("z", all)
  <2>1. t.zero_share <=> s.zero_share \/ item.option = "z"
    BY <1>1
  <2> QED
    BY <1>2, <2>1 DEF Sets, Adds
<1>9. t.timing <=> Holds("t", all)
  BY <1>1, <1>5 DEF Sets, WithArgument
<1>10. /\ t.cert = WordsOf("c", all)[1] /\ t.key = WordsOf("k", all)[1] /\ t.log = WordsOf("l", all)[1]
       /\ t.name = None /\ t.port = NumberOf("p", all, DefaultPort) /\ t.mtu = NumberOf("m", all, 0)
  BY <1>1, <1>5 DEF Sets, WithArgument
<1>11. t.version = IF Holds("v", all) THEN Version[WordsOf("v", all)[1]] ELSE DefaultVersion
  BY <1>1, <1>5 DEF Sets, WithArgument
<1>12. t.cnx_id = IF ~Holds("i", all) THEN None
                  ELSE LET w == WordsOf("i", all) IN [select |-> Number[w[1]], mask |-> w[2], val |-> w[3]]
  <2>1. (Holds("i", all) <=> Holds("i", items)) /\ WordsOf("i", all) = WordsOf("i", items)
    BY <1>5 DEF WithArgument
  <2> QED
    BY <1>1, <2>1 DEF Sets
<1> QED
  BY <1>6, <1>7, <1>8, <1>9, <1>10, <1>11, <1>12 DEF Sets, t, all

\* What an option with argument w leaves and what it sets, next being the index
\* after it.
Keeps(t, s, option) ==
  /\ option # "c" => t.cert = s.cert
  /\ option # "k" => t.key = s.key
  /\ option # "l" => t.log = s.log
  /\ t.name = s.name
  /\ option # "p" => t.port = s.port
  /\ option # "v" => t.version = s.version
  /\ option # "m" => t.mtu = s.mtu
  /\ t.once = s.once /\ t.hrr = s.hrr /\ t.zero_share = s.zero_share
  /\ option # "t" => t.timing = s.timing
  /\ option # "i" => t.cnx_id = s.cnx_id
Gives(t, option, w, next) ==
  /\ option = "c" => t.cert = w
  /\ option = "k" => t.key = w
  /\ option = "l" => t.log = w
  /\ option = "p" => t.port = Atoi(w)
  /\ option = "v" => t.version = ParseTargetVersion(w)
  /\ option = "m" => t.mtu = Atoi(w)
  /\ option = "t" => t.timing = TRUE
  /\ option = "i" => t.cnx_id = [select |-> Atoi(w), mask |-> Argv(next), val |-> Argv(next + 1)]

LEMMA WithKeeps ==
  ASSUME NEW B, set \in SettingsOver(B), NEW option \in WithArgument, NEW w, NEW next
  PROVE  Keeps(With(option, w, next), set, option) /\ Gives(With(option, w, next), option, w, next)
<1> DEFINE t == With(option, w, next)
<1>1. CASE option \in {"c", "k", "l"}
  <2>1. /\ option = "c" => t = [set EXCEPT !.cert = w]
        /\ option = "k" => t = [set EXCEPT !.key = w]
        /\ option = "l" => t = [set EXCEPT !.log = w]
    BY <1>1 DEF With
  <2> HIDE DEF t
  <2>2. Keeps(t, set, option) /\ Gives(t, option, w, next)
    BY <1>1, <2>1 DEF Keeps, Gives, SettingsOver
  <2> QED
    BY <2>2 DEF t
<1>2. CASE option \in {"p", "v", "m"}
  <2>1. /\ option = "p" => t = [set EXCEPT !.port = Atoi(w)]
        /\ option = "v" => t = [set EXCEPT !.version = ParseTargetVersion(w)]
        /\ option = "m" => t = [set EXCEPT !.mtu = Atoi(w)]
    BY <1>2 DEF With
  <2> HIDE DEF t
  <2>2. Keeps(t, set, option) /\ Gives(t, option, w, next)
    BY <1>2, <2>1 DEF Keeps, Gives, SettingsOver
  <2> QED
    BY <2>2 DEF t
<1>3. CASE option = "t"
  <2>1. t = [set EXCEPT !.timing = TRUE]
    BY <1>3 DEF With
  <2> HIDE DEF t
  <2>2. Keeps(t, set, option) /\ Gives(t, option, w, next)
    BY <1>3, <2>1 DEF Keeps, Gives, SettingsOver
  <2> QED
    BY <2>2 DEF t
<1>4. CASE option = "i"
  <2> DEFINE id == [select |-> Atoi(w), mask |-> Argv(next), val |-> Argv(next + 1)]
  <2>1. t = [set EXCEPT !.cnx_id = id]
    BY <1>4 DEF With
  <2> HIDE DEF t, id
  <2>2. t.cnx_id = id /\ Keeps(t, set, option)
    BY <1>4, <2>1 DEF Keeps, SettingsOver
  <2> QED
    BY <1>4, <2>2 DEF t, id, Gives
<1>5. CASE option = "s"
  <2> DEFINE seed == <<Argv(next), Argv(next)>>
  <2>1. t = [set EXCEPT !.seed = seed]
    BY <1>5 DEF With
  <2> HIDE DEF t, seed
  <2>2. Keeps(t, set, option)
    BY <1>5, <2>1 DEF Keeps, SettingsOver
  <2> QED
    BY <1>5, <2>2 DEF t, Gives
<1> QED
  BY <1>1, <1>2, <1>3, <1>4, <1>5 DEF WithArgument

LEMMA ArgumentSets ==
  ASSUME NEW B, set \in SettingsOver(B), NEW items \in Seq(Item), NEW item \in Item, Sets(set, items),
         item.option \in WithArgument, NEW w \in Plain, w = item.words[1], NEW next,
         item.option = "i" => Argv(next) = item.words[2] /\ Argv(next + 1) = item.words[3]
  PROVE  Sets(With(item.option, w, next), Append(items, item))
<1> DEFINE t == With(item.option, w, next)
           all == Append(items, item)
<1>1. Keeps(t, set, item.option) /\ Gives(t, item.option, w, next)
  BY WithKeeps
<1>2. Adds(all, items, item)
  BY LastAdds
<1>3. Atoi(w) = Number[w] /\ ParseTargetVersion(w) = Version[w]
  BY DEF Atoi, ParseTargetVersion
<1>4. \A f \in Flag : Holds(f, all) <=> Holds(f, items)
  BY <1>2 DEF Adds, Flag, WithArgument
<1> HIDE DEF t, all
<1>5. t.cert = WordsOf("c", all)[1] /\ t.key = WordsOf("k", all)[1] /\ t.log = WordsOf("l", all)[1]
  <2>1. /\ item.option = "c" => t.cert = WordsOf("c", all)[1]
        /\ item.option = "k" => t.key = WordsOf("k", all)[1]
        /\ item.option = "l" => t.log = WordsOf("l", all)[1]
    BY <1>1, <1>2 DEF Gives, Adds
  <2>2. /\ item.option # "c" => t.cert = set.cert /\ WordsOf("c", all) = WordsOf("c", items)
        /\ item.option # "k" => t.key = set.key /\ WordsOf("k", all) = WordsOf("k", items)
        /\ item.option # "l" => t.log = set.log /\ WordsOf("l", all) = WordsOf("l", items)
    BY <1>1, <1>2 DEF Keeps, Adds
  <2> QED
    BY <2>1, <2>2 DEF Sets
<1>6. t.name = None /\ t.port = NumberOf("p", all, DefaultPort) /\ t.mtu = NumberOf("m", all, 0)
  <2>1. /\ item.option = "p" => t.port = NumberOf("p", all, DefaultPort)
        /\ item.option = "m" => t.mtu = NumberOf("m", all, 0)
    BY <1>1, <1>2, <1>3 DEF Gives, Adds
  <2>2. /\ item.option # "p" => t.port = set.port /\ NumberOf("p", all, DefaultPort) = NumberOf("p", items, DefaultPort)
        /\ item.option # "m" => t.mtu = set.mtu /\ NumberOf("m", all, 0) = NumberOf("m", items, 0)
        /\ t.name = set.name
    BY <1>1, <1>2 DEF Keeps, Adds
  <2> QED
    BY <2>1, <2>2 DEF Sets
<1>7. t.version = IF Holds("v", all) THEN Version[WordsOf("v", all)[1]] ELSE DefaultVersion
  <2>1. CASE item.option = "v"
    BY <1>1, <1>2, <1>3, <2>1 DEF Gives, Adds
  <2>2. CASE item.option # "v"
    <3>1. (Holds("v", all) <=> Holds("v", items)) /\ WordsOf("v", all) = WordsOf("v", items)
      BY <1>2, <2>2 DEF Adds
    <3> QED
      BY <1>1, <2>2, <3>1 DEF Keeps, Sets
  <2> QED
    BY <2>1, <2>2
<1>8. (t.once <=> Holds("1", all)) /\ (t.hrr <=> Holds("r", all)) /\ (t.zero_share <=> Holds("z", all))
  BY <1>1, <1>4 DEF Keeps, Sets, Flag
<1>9. t.timing <=> Holds("t", all)
  <2>1. CASE item.option = "t"
    BY <1>1, <1>2, <2>1 DEF Gives, Adds
  <2>2. CASE item.option # "t"
    BY <1>1, <1>2, <2>2 DEF Keeps, Adds, Sets
  <2> QED
    BY <2>1, <2>2
<1>10. t.cnx_id = IF ~Holds("i", all) THEN None
                  ELSE LET w2 == WordsOf("i", all) IN [select |-> Number[w2[1]], mask |-> w2[2], val |-> w2[3]]
  <2>1. CASE item.option = "i"
    <3>1. Holds("i", all) /\ WordsOf("i", all) = item.words
      BY <1>2, <2>1 DEF Adds
    <3>2. t.cnx_id = [select |-> Number[item.words[1]], mask |-> item.words[2], val |-> item.words[3]]
      BY <1>1, <1>3, <2>1 DEF Gives
    <3> QED
      BY <3>1, <3>2
  <2>2. CASE item.option # "i"
    <3>1. (Holds("i", all) <=> Holds("i", items)) /\ WordsOf("i", all) = WordsOf("i", items)
      BY <1>2, <2>2 DEF Adds
    <3> QED
      BY <1>1, <2>2, <3>1 DEF Keeps, Sets
  <2> QED
    BY <2>1, <2>2
<1> QED
  BY <1>5, <1>6, <1>7, <1>8, <1>9, <1>10 DEF Sets, t, all

LEMMA NamedSettings ==
  ASSUME NEW B, NEW s \in SettingsOver(B), NEW name, NEW port
  PROVE  [[s EXCEPT !.name = name, !.port = port] EXCEPT !.seed = None] =
           [cert |-> s.cert, key |-> s.key, log |-> s.log, name |-> name, port |-> port, version |-> s.version,
            mtu |-> s.mtu, once |-> s.once, hrr |-> s.hrr, zero_share |-> s.zero_share, timing |-> s.timing,
            seed |-> None, cnx_id |-> s.cnx_id]
<1> DEFINE r(n, p, d) ==
      [cert |-> s.cert, key |-> s.key, log |-> s.log, name |-> n, port |-> p, version |-> s.version,
       mtu |-> s.mtu, once |-> s.once, hrr |-> s.hrr, zero_share |-> s.zero_share, timing |-> s.timing,
       seed |-> d, cnx_id |-> s.cnx_id]
<1>1. [s EXCEPT !.name = name] = r(name, s.port, s.seed)
  BY DEF SettingsOver
<1>2. [r(name, s.port, s.seed) EXCEPT !.port = port] = r(name, port, s.seed)
  OBVIOUS
<1>3. [r(name, port, s.seed) EXCEPT !.seed = None] = r(name, port, None)
  OBVIOUS
<1> HIDE DEF r
<1>4. [s EXCEPT !.name = name, !.port = port] = r(name, port, s.seed)
  BY <1>1, <1>2, Zenon
<1>5. [[s EXCEPT !.name = name, !.port = port] EXCEPT !.seed = None] = r(name, port, None)
  BY <1>3, <1>4, Zenon
<1> QED
  BY <1>5 DEF r

IsMeant(g, cert, key, log, name, port, version, mtu, once, hrr, zero_share, timing, id) ==
  /\ cert = WordsOf("c", g.items)[1] /\ key = WordsOf("k", g.items)[1] /\ log = WordsOf("l", g.items)[1]
  /\ name = (IF g.names = <<>> THEN None ELSE g.names[1])
  /\ port = (IF Len(g.names) > 1 THEN Number[g.names[2]] ELSE NumberOf("p", g.items, DefaultPort))
  /\ version = (IF Holds("v", g.items) THEN Version[WordsOf("v", g.items)[1]] ELSE DefaultVersion)
  /\ mtu = NumberOf("m", g.items, 0)
  /\ once = Holds("1", g.items) /\ hrr = Holds("r", g.items)
  /\ zero_share = Holds("z", g.items) /\ timing = Holds("t", g.items)
  /\ id = (IF ~Holds("i", g.items) THEN None
           ELSE LET w == WordsOf("i", g.items) IN [select |-> Number[w[1]], mask |-> w[2], val |-> w[3]])

LEMMA MeantIs ==
  ASSUME NEW g, NEW cert, NEW key, NEW log, NEW name, NEW port, NEW version, NEW mtu,
         NEW once, NEW hrr, NEW zero_share, NEW timing, NEW id,
         IsMeant(g, cert, key, log, name, port, version, mtu, once, hrr, zero_share, timing, id)
  PROVE  Meant(g) = [cert |-> cert, key |-> key, log |-> log, name |-> name, port |-> port, version |-> version,
                     mtu |-> mtu, once |-> once, hrr |-> hrr, zero_share |-> zero_share, timing |-> timing,
                     seed |-> None, cnx_id |-> id]
BY DEF IsMeant, Meant

\* After the names too the settings are those meant.
Names(s, g, name, port) ==
  /\ name = (IF g.names # <<>> THEN g.names[1] ELSE s.name)
  /\ port = (IF Len(g.names) >= 2 THEN Number[g.names[2]] ELSE s.port)
MeantBy(s, g, name, port) == [[s EXCEPT !.name = name, !.port = port] EXCEPT !.seed = None] = Meant(g)

LEMMA NamesSet ==
  ASSUME NEW s \in Settings, NEW g, g.names \in Seq(Plain), Sets(s, g.items),
         NEW name, NEW port, Names(s, g, name, port)
  PROVE  MeantBy(s, g, name, port)
<1>1. [[s EXCEPT !.name = name, !.port = port] EXCEPT !.seed = None] =
        [cert |-> s.cert, key |-> s.key, log |-> s.log, name |-> name, port |-> port, version |-> s.version,
         mtu |-> s.mtu, once |-> s.once, hrr |-> s.hrr, zero_share |-> s.zero_share, timing |-> s.timing,
         seed |-> None, cnx_id |-> s.cnx_id]
  BY NamedSettings DEF Settings
<1>2. name = (IF g.names = <<>> THEN None ELSE g.names[1])
  BY DEF Sets, Names
<1>3. port = (IF Len(g.names) > 1 THEN Number[g.names[2]] ELSE NumberOf("p", g.items, DefaultPort))
  BY DEF Sets, Names
<1>4. /\ s.once = Holds("1", g.items) /\ s.hrr = Holds("r", g.items)
      /\ s.zero_share = Holds("z", g.items) /\ s.timing = Holds("t", g.items)
  <2>1. s.once \in BOOLEAN /\ s.hrr \in BOOLEAN /\ s.zero_share \in BOOLEAN /\ s.timing \in BOOLEAN
    BY DEF Settings, SettingsOver
  <2> QED
    BY <2>1 DEF Sets, Holds
<1>5. /\ s.cert = WordsOf("c", g.items)[1] /\ s.key = WordsOf("k", g.items)[1] /\ s.log = WordsOf("l", g.items)[1]
      /\ s.version = (IF Holds("v", g.items) THEN Version[WordsOf("v", g.items)[1]] ELSE DefaultVersion)
      /\ s.mtu = NumberOf("m", g.items, 0)
      /\ s.cnx_id = (IF ~Holds("i", g.items) THEN None
                     ELSE LET w == WordsOf("i", g.items) IN [select |-> Number[w[1]], mask |-> w[2], val |-> w[3]])
  BY DEF Sets
<1>6. Meant(g) =
        [cert |-> s.cert, key |-> s.key, log |-> s.log, name |-> name, port |-> port, version |-> s.version,
         mtu |-> s.mtu, once |-> s.once, hrr |-> s.hrr, zero_share |-> s.zero_share, timing |-> s.timing,
         seed |-> None, cnx_id |-> s.cnx_id]
  <2>1. IsMeant(g, s.cert, s.key, s.log, name, port, s.version, s.mtu, s.once, s.hrr, s.zero_share, s.timing, s.cnx_id)
    BY <1>2, <1>3, <1>4, <1>5 DEF IsMeant
  <2> QED
    BY <2>1, MeantIs
<1> QED
  BY <1>1, <1>6, Zenon DEF MeantBy

-----------------------------------------------------------------------------
(***************************************************************************)
(* getopt reads a meant line item by item.                                 *)
(***************************************************************************)

\* Where getopt stands after the first k items: behind them, or in the word that
\* the next one is joined to.
At(g, k) ==
  LET line == Lines(g)[k] IN
  IF Joins(line, g.joined) /\ k < Len(g.items)
    THEN optind = Len(line) /\ place = Drop(argv[Len(line)], Len(Last(line).letters))
    ELSE optind = Len(line) + 1 /\ place = Done

\* How an item stands in the line: at word p, behind b letters there, spelled s.
Stands(g, k, item, p, b, s) ==
  /\ item = g.items[k + 1] /\ item \in Item
  /\ p = Place(Lines(g)[k], g.joined)
  /\ b = Before(Lines(g)[k], g.joined)
  /\ s = Spelled(item)

LEMMA ItemStands ==
  ASSUME NEW g \in Given, argv = Line(g), NEW k \in 0 .. Len(g.items) - 1,
         NEW item, NEW p, NEW b, NEW s, Stands(g, k, item, p, b, s)
  PROVE  /\ argv \in Seq(Word) /\ p \in 1 .. Len(argv) /\ b \in Seq(Letter)
         /\ argv[p] \in Dashed /\ Len(b) \in 0 .. Len(argv[p].letters)
         /\ item.option \in Flag => Len(b) < Len(argv[p].letters) /\ argv[p].letters[Len(b) + 1] = item.option
         /\ item.option \notin Flag =>
              /\ argv[p] = Longer(s[1], b)
              /\ p + Len(s) - 1 <= Len(argv)
              /\ \A j \in 2 .. Len(s) : argv[p + j - 1] = s[j]
<1> DEFINE line == Lines(g)[k]
           M == Line(g)
<1>1. k + 1 \in 1 .. Len(g.items) /\ k \in 0 .. Len(g.items) /\ k + 1 \in 0 .. Len(g.items) /\ k + 1 - 1 = k
  BY LinesAre
<1>2. line \in Seq(Word) /\ Lines(g)[k + 1] = AddItem(line, item, g.joined)
  BY <1>1, LinesAre DEF Stands
<1>3. Continues(AddItem(line, item, g.joined), M)
  BY <1>1, <1>2, LineContinues
<1>4. item \in Item /\ p = Place(line, g.joined) /\ b = Before(line, g.joined) /\ s = Spelled(item)
  BY DEF Stands
<1> HIDE DEF line, M
<1>5. /\ M \in Seq(Word) /\ p \in 1 .. Len(M) /\ b \in Seq(Letter)
      /\ M[p] \in Dashed /\ Len(b) \in 0 .. Len(M[p].letters)
      /\ item.option \in Flag => Len(b) < Len(M[p].letters) /\ M[p].letters[Len(b) + 1] = item.option
      /\ item.option \notin Flag =>
           /\ M[p] = Longer(s[1], b)
           /\ p + Len(s) - 1 <= Len(M)
           /\ \A j \in 2 .. Len(s) : M[p + j - 1] = s[j]
  BY <1>2, <1>3, <1>4, ItemInLine, SMTT(20)
<1> QED
  BY <1>5 DEF M

\* getopt scans the item that comes next.
LEMMA ItemScanned ==
  ASSUME NEW g \in Given, argv = Line(g), NEW k \in 0 .. Len(g.items) - 1, At(g, k),
         NEW item, NEW p, NEW b, NEW s, Stands(g, k, item, p, b, s)
  PROVE  optind = p /\ Scanned = Drop(argv[p], Len(b)) /\ ~NoMore
<1> DEFINE line == Lines(g)[k]
           w == argv[p]
<1>1. /\ argv \in Seq(Word) /\ p \in 1 .. Len(argv) /\ b \in Seq(Letter)
      /\ w \in Dashed /\ Len(b) \in 0 .. Len(w.letters)
      /\ item.option \in Flag => Len(b) < Len(w.letters) /\ w.letters[Len(b) + 1] = item.option
      /\ item.option \notin Flag => w = Longer(s[1], b)
  BY ItemStands
<1>2. item \in Item /\ p = Place(line, g.joined) /\ b = Before(line, g.joined) /\ s = Spelled(item)
  BY DEF Stands
<1> DEFINE d == Drop(w, Len(b))
<1>3. /\ d \in Dashed /\ d.option = w.option
      /\ Len(b) < Len(w.letters) => d.letters # <<>> /\ Head(d.letters) = w.letters[Len(b) + 1]
      /\ Len(b) >= Len(w.letters) => d.letters = <<>>
      /\ Drop(w, 0) = w
  <2>1. Dropped(d, w, Len(b)) /\ Drop(w, 0) = w
    BY <1>1, DropFacts
  <2> HIDE DEF d
  <2> QED
    BY <2>1 DEF Dropped
<1>4. d # Done /\ (d.letters = <<>> \/ Head(d.letters) # "-")
  <2>1. CASE item.option \in Flag
    <3>1. d.letters # <<>> /\ Head(d.letters) = item.option
      BY <1>1, <1>3, <2>1
    <3> QED
      BY <2>1, <3>1 DEF Done, Flag
  <2>2. CASE item.option \notin Flag
    <3>1. item.option # None /\ s[1].option = item.option /\ s[1].letters = <<>>
      BY <1>2, <2>2, ArgumentSpelled
    <3>2. s[1] \in Dashed
      BY <1>2, SpelledFacts
    <3>3. w.option = s[1].option /\ Len(w.letters) = Len(b) + Len(s[1].letters)
      <4>1. /\ Len(Longer(s[1], b).letters) = Len(b) + Len(s[1].letters)
            /\ Longer(s[1], b).option = s[1].option
        BY <1>1, <3>2, LongerType
      <4>2. w = Longer(s[1], b)
        BY <1>1, <2>2
      <4> HIDE DEF w
      <4> QED
        BY <4>1, <4>2, Zenon
    <3>4. Len(w.letters) = Len(b)
      BY <1>1, <3>1, <3>3
    <3>5. d.letters = <<>>
      BY <1>1, <1>3, <3>4
    <3>6. d.option = w.option
      BY <1>3
    <3> QED
      BY <3>1, <3>3, <3>5, <3>6 DEF Done
  <2> QED
    BY <2>1, <2>2
<1>5. w \notin Plain /\ p < argc
  BY <1>1, WordAssumption DEF argc
<1> HIDE DEF line, d, w
<1>6. CASE Joins(line, g.joined)
  <2>1. p = Len(line) /\ b = Last(line).letters
    BY <1>2, <1>6 DEF Place, Before
  <2>2. optind = p /\ place = d
    BY <1>6, <2>1, LinesAre DEF At, line, d, w
  <2>3. Scanned = d
    BY <1>4, <2>2 DEF Scanned
  <2> QED
    BY <1>4, <2>2, <2>3 DEF NoMore, DashDash, DashAlone, d, w
<1>7. CASE ~Joins(line, g.joined)
  <2>1. p = Len(line) + 1 /\ b = <<>>
    BY <1>2, <1>7 DEF Place, Before
  <2>2. optind = p /\ place = Done
    BY <1>7, <2>1 DEF At, line
  <2>3. d = w
    <3>1. Len(b) = 0
      BY <2>1
    <3> QED
      BY <1>3, <3>1 DEF d
  <2>4. Scanned = d
    BY <2>2, <2>3 DEF Scanned, w
  <2>5. AtWord
    BY <1>5, <2>2 DEF AtWord, w
  <2> QED
    BY <1>4, <2>2, <2>4, <2>5 DEF NoMore, DashDash, DashAlone, d, w
<1> QED
  BY <1>6, <1>7

LEMMA LineEnds ==
  ASSUME NEW g \in Given, NEW k \in 0 .. Len(g.items), NEW line, line = Lines(g)[k], line # <<>>,
         k = Len(g.items) \/ ~Joins(line, g.joined)
  PROVE  Line(g)[Len(line)] = line[Len(line)]
<1>1. line \in Seq(Word) /\ g.items \in Seq(Item) /\ g.names \in Seq(Plain) /\ Len(g.items) \in Nat
  BY LinesAre
<1>2. CASE k = Len(g.items)
  <2>1. Line(g) = line \o g.names /\ g.names \in Seq(Word)
    <3>1. Line(g) = Lines(g)[Len(g.items)] \o g.names
      BY LineContinues
    <3>2. Line(g) = line \o g.names
      BY <1>2, <3>1, Zenon
    <3>3. Plain \in SUBSET Word
      BY DEF Word
    <3>4. g.names \in Seq(Word)
      BY <1>1, <3>3
    <3> QED
      BY <3>2, <3>4
  <2>2. \A j \in 1 .. Len(line) : (line \o g.names)[j] = line[j]
    BY <1>1, <2>1, Joined, ZenonT(30)
  <2>3. Len(line) \in 1 .. Len(line)
    BY <1>1
  <2> QED
    BY <2>1, <2>2, <2>3
<1>3. CASE k # Len(g.items)
  <2>1. k + 1 \in 1 .. Len(g.items) /\ k + 1 \in 0 .. Len(g.items) /\ k + 1 - 1 = k
    BY <1>1, <1>3
  <2>2. Lines(g)[k + 1] = AddItem(line, g.items[k + 1], g.joined) /\ g.items[k + 1] \in Item
    BY <1>1, <2>1, LinesAre
  <2>3. Continues(AddItem(line, g.items[k + 1], g.joined), Line(g))
    BY <2>1, <2>2, LineContinues
  <2> QED
    BY <1>1, <1>3, <2>2, <2>3, ContinuesStep
<1> QED
  BY <1>2, <1>3

\* A letter read is the flag meant, and getopt stands behind it.
LEMMA FlagMoves ==
  ASSUME NEW g \in Given, argv = Line(g), argv' = argv, NEW k \in 0 .. Len(g.items) - 1, At(g, k),
         NEW item, NEW p, NEW b, NEW s, Stands(g, k, item, p, b, s), item.option \in Flag
  PROVE  /\ LetterNext /\ Head(Scanned.letters) = item.option
         /\ optind' = AfterLetter /\ place' = Rest => At(g, k + 1)'
<1> DEFINE w == argv[p]
           new == Lines(g)[k + 1]
<1>1. /\ argv \in Seq(Word) /\ p \in 1 .. Len(argv) /\ b \in Seq(Letter)
      /\ w \in Dashed /\ Len(b) \in 0 .. Len(w.letters)
      /\ Len(b) < Len(w.letters) /\ w.letters[Len(b) + 1] = item.option
  BY ItemStands
<1>2. item \in Item /\ p = Place(Lines(g)[k], g.joined) /\ b = Before(Lines(g)[k], g.joined) /\ s = Spelled(item)
  BY DEF Stands
<1>3. optind = p /\ Scanned = Drop(w, Len(b)) /\ ~NoMore
  BY ItemScanned
<1>4. /\ Scanned.letters # <<>> /\ Head(Scanned.letters) = item.option
      /\ [Scanned EXCEPT !.letters = Tail(@)] = Drop(w, Len(b) + 1)
  <2> DEFINE d == Drop(w, Len(b))
  <2>1. Dropped(d, w, Len(b))
    BY <1>1, DropFacts
  <2>2. d = Scanned
    BY <1>3
  <2> HIDE DEF d, w
  <2> QED
    BY <1>1, <2>1, <2>2 DEF Dropped, w
<1>5. LetterNext
  BY <1>3, <1>4 DEF LetterNext
<1>6. k + 1 \in 1 .. Len(g.items) /\ k + 1 \in 0 .. Len(g.items) /\ k + 1 - 1 = k /\ k \in 0 .. Len(g.items)
      /\ Len(g.items) \in Nat
  BY LinesAre
<1>7. Lines(g)[k] \in Seq(Word) /\ new = AddItem(Lines(g)[k], item, g.joined) /\ g.joined \in BOOLEAN
  BY <1>6, LinesAre DEF Stands
<1>8. /\ new \in Seq(Word) /\ new # <<>> /\ Len(new) = p
      /\ new[p] \in Dashed /\ Len(new[p].letters) = Len(b) + 1
      /\ new[p].option = None /\ new[p].attached = None
      /\ Joins(new, g.joined) <=> g.joined
  BY <1>2, <1>7, EndOfAdded
<1>9. Last(new) = new[p]
  BY <1>8 DEF Last
<1>10. Len(b) + 1 \in 0 .. Len(w.letters) /\ Len(b) \in Nat /\ Len(w.letters) \in Nat
  BY <1>1
<1>11. Rest = Drop(w, Len(b) + 1)
  BY <1>4 DEF Rest
<1> HIDE DEF new, w
<1>14. Dropped(Rest, w, Len(b) + 1)
  BY <1>1, <1>10, <1>11, DropFacts DEF w
<1>12. CASE g.joined /\ k + 1 < Len(g.items)
  <2>1. PICK item2, p2, b2, s2 : Stands(g, k + 1, item2, p2, b2, s2)
    <3>1. (k + 1) + 1 \in 1 .. Len(g.items)
      BY <1>6, <1>12
    <3>2. g.items[(k + 1) + 1] \in Item
      BY <3>1, LinesAre
    <3> QED
      BY <3>2 DEF Stands
  <2>2. p2 = p /\ b2 = new[p].letters /\ item2 \in Item /\ s2 = Spelled(item2)
    BY <1>8, <1>9, <1>12, <2>1 DEF Stands, Place, Before, new
  <2>3. k + 1 \in 0 .. Len(g.items) - 1
    BY <1>6, <1>12
  <2>4. /\ item2.option \in Flag => Len(b2) < Len(argv[p2].letters)
        /\ item2.option \notin Flag => argv[p2] = Longer(s2[1], b2)
        /\ b2 \in Seq(Letter)
    BY <2>1, <2>3, ItemStands
  <2>5. Rest # Done
    <3>1. CASE item2.option \in Flag
      <4>0. Len(b2) = Len(b) + 1
        BY <1>8, <2>2, Zenon
      <4>1. Len(b) + 1 < Len(w.letters)
        BY <2>2, <2>4, <3>1, <4>0 DEF w
      <4>2. Rest.letters # <<>>
        BY <1>14, <4>1 DEF Dropped
      <4> QED
        BY <4>2 DEF Done
    <3>2. CASE item2.option \notin Flag
      <4>1. s2[1].option # None /\ s2[1] \in Dashed
        <5>1. s2[1].option = item2.option /\ item2.option # None
          BY <2>2, <3>2, ArgumentSpelled
        <5>2. Spelled(item2)[1] \in Dashed
          BY <2>2, SpelledFacts
        <5> QED
          BY <2>2, <5>1, <5>2, Zenon
      <4>2. w.option # None
        BY <2>2, <2>4, <3>2, <4>1, LongerType DEF w
      <4>3. Rest.option = w.option
        BY <1>14 DEF Dropped
      <4> QED
        BY <4>2, <4>3 DEF Done
    <3> QED
      BY <3>1, <3>2
  <2> SUFFICES ASSUME optind' = AfterLetter, place' = Rest PROVE At(g, k + 1)'
    BY <1>4, <1>5
  <2>6. optind' = Len(new) /\ place' = Drop(argv'[Len(new)], Len(Last(new).letters))
    BY <1>3, <1>8, <1>9, <1>11, <2>5 DEF AfterLetter, w
  <2> QED
    BY <1>8, <1>12, <2>6 DEF At, new
<1>13. CASE ~(g.joined /\ k + 1 < Len(g.items))
  <2>1. argv[p] = new[p]
    <3>1. k + 1 = Len(g.items) \/ ~Joins(new, g.joined)
      BY <1>6, <1>8, <1>13
    <3>2. Line(g)[Len(new)] = new[Len(new)]
      BY <1>6, <1>8, <3>1, LineEnds DEF new
    <3> QED
      BY <1>8, <3>2
  <2>2. w.option = None /\ w.attached = None /\ Len(w.letters) = Len(b) + 1
    BY <1>8, <2>1 DEF w
  <2>4. Rest = Done
    <3>1. Len(b) + 1 >= Len(w.letters)
      BY <1>10, <2>2
    <3>2. Rest \in Dashed /\ Rest.letters = <<>> /\ Rest.option = None /\ Rest.attached = None
      BY <1>14, <2>2, <3>1 DEF Dropped
    <3> QED
      BY <3>2 DEF Done, Dashed
  <2> SUFFICES ASSUME optind' = AfterLetter, place' = Rest PROVE At(g, k + 1)'
    BY <1>4, <1>5
  <2>5. optind' = Len(new) + 1 /\ place' = Done
    BY <1>3, <1>8, <2>4 DEF AfterLetter
  <2> QED
    BY <1>8, <1>13, <2>5 DEF At, new
<1> QED
  BY <1>12, <1>13

\* getopt has the argument of the option meant, and next is the index after it.
ArgumentRead(item, next, end) ==
  /\ ArgumentNext /\ ~Missing
  /\ Scanned.option = item.option /\ Optarg = item.words[1] /\ AfterArgument = next
  /\ next \in Nat \ {0} /\ next + Arity(item.option) = end + 2
  /\ item.option = "i" => Argv(next) = item.words[2] /\ Argv(next + 1) = item.words[3]

LEMMA ArgumentTaken ==
  ASSUME NEW g \in Given, argv = Line(g), NEW k \in 0 .. Len(g.items) - 1, At(g, k),
         NEW item, NEW p, NEW b, NEW s, Stands(g, k, item, p, b, s), item.option \notin Flag,
         NEW next, next = (IF item.attached THEN p + 1 ELSE p + 2),
         NEW end, end = p + Len(s) - 1
  PROVE  ArgumentRead(item, next, end) /\ end <= Len(argv)
<1> DEFINE w == argv[p]
           n == Arity(item.option)
<1>1. /\ argv \in Seq(Word) /\ p \in 1 .. Len(argv) /\ b \in Seq(Letter)
      /\ w \in Dashed /\ Len(b) \in 0 .. Len(w.letters)
      /\ w = Longer(s[1], b) /\ p + Len(s) - 1 <= Len(argv)
      /\ \A j \in 2 .. Len(s) : argv[p + j - 1] = s[j]
  BY ItemStands
<1>2. item \in Item /\ s = Spelled(item)
  BY DEF Stands
<1>3. optind = p /\ Scanned = Drop(w, Len(b)) /\ ~NoMore
  BY ItemScanned
<1>4. /\ item.option \in WithArgument
      /\ item.words \in Seq(Plain) /\ Len(item.words) = n /\ item.words[1] \in Plain
      /\ s[1].letters = <<>> /\ s[1].option = item.option
      /\ s[1].attached = IF item.attached THEN item.words[1] ELSE None
      /\ Len(s) = IF item.attached THEN Len(item.words) ELSE Len(item.words) + 1
      /\ \A j \in 2 .. Len(s) : s[j] = IF item.attached THEN item.words[j] ELSE item.words[j - 1]
  BY <1>2, ArgumentSpelled
<1>5. item.attached \in BOOLEAN
  BY <1>2 DEF Item
<1>6. n \in 1 .. 3 /\ (item.option = "i" => n = 3)
  BY <1>4 DEF Arity, Flag, WithArgument
<1>7. item.words[1] # None
  BY <1>4, NoneIsNoOption DEF Word
<1>8. /\ Scanned.letters = <<>> /\ Scanned.option = item.option
      /\ Scanned.attached = s[1].attached
  <2>1. s[1] \in Dashed
    <3>1. Spelled(item)[1] \in Dashed
      BY <1>2, SpelledFacts
    <3> QED
      BY <1>2, <3>1, Zenon
  <2>2. Len(w.letters) = Len(b) + Len(s[1].letters) /\ w.option = s[1].option /\ w.attached = s[1].attached
    <3>1. /\ Len(Longer(s[1], b).letters) = Len(b) + Len(s[1].letters)
          /\ Longer(s[1], b).option = s[1].option /\ Longer(s[1], b).attached = s[1].attached
      BY <1>1, <2>1, LongerLetters
    <3> HIDE DEF w
    <3> QED
      BY <1>1, <3>1, Zenon
  <2>3. Len(b) >= Len(w.letters)
    BY <1>1, <1>4, <2>2
  <2>4. Dropped(Scanned, w, Len(b))
    <3>1. Dropped(Drop(w, Len(b)), w, Len(b))
      BY <1>1, DropFacts
    <3> QED
      BY <1>3, <3>1, Zenon
  <2> HIDE DEF w
  <2> QED
    BY <1>4, <2>2, <2>3, <2>4 DEF Dropped
<1> HIDE DEF w, n
<1>9. ArgumentNext
  BY <1>3, <1>8 DEF ArgumentNext
<1>10. argc = Len(argv) + 1 /\ Len(argv) \in Nat
  BY <1>1 DEF argc
<1>11. Scanned.attached # None <=> item.attached
  BY <1>4, <1>5, <1>7, <1>8
<1>12. AfterArgument = next /\ next \in Nat \ {0}
  BY <1>1, <1>3, <1>5, <1>11 DEF AfterArgument
<1>15. p \in Nat /\ end = p + Len(s) - 1
  BY <1>1
<1>13. CASE item.attached
  <2>1. Len(s) = n /\ next = p + 1
    BY <1>4, <1>13
  <2>2. \A j \in 2 .. n : argv[p + j - 1] = item.words[j]
    BY <1>1, <1>4, <1>13, <2>1
  <2>3. ~Missing /\ Optarg = item.words[1]
    BY <1>4, <1>8, <1>11, <1>13 DEF Missing, Optarg
  <2>4. next + n = end + 2
    BY <1>6, <1>15, <2>1
  <2>5. item.option = "i" => Argv(next) = item.words[2] /\ Argv(next + 1) = item.words[3]
    <3> SUFFICES ASSUME item.option = "i" PROVE Argv(next) = item.words[2] /\ Argv(next + 1) = item.words[3]
      OBVIOUS
    <3>1. argv[p + 2 - 1] = item.words[2] /\ argv[p + 3 - 1] = item.words[3]
      BY <1>6, <2>2
    <3>2. p + 2 - 1 = next /\ p + 3 - 1 = next + 1 /\ next < argc /\ next + 1 < argc
      BY <1>1, <1>6, <1>10, <2>1
    <3>3. argv[next] = item.words[2] /\ argv[next + 1] = item.words[3]
      BY <3>1, <3>2, Zenon
    <3> QED
      BY <3>2, <3>3 DEF Argv
  <2> QED
    BY <1>1, <1>8, <1>9, <1>12, <2>3, <2>4, <2>5 DEF ArgumentRead, n
<1>14. CASE ~item.attached
  <2>1. Len(s) = n + 1 /\ next = p + 2
    BY <1>4, <1>14
  <2>2. \A j \in 2 .. n + 1 : argv[p + j - 1] = item.words[j - 1]
    BY <1>1, <1>4, <1>14, <2>1
  <2>3. argv[p + 1] = item.words[1]
    <3>1. 2 \in 2 .. n + 1 /\ p + 2 - 1 = p + 1 /\ 2 - 1 = 1
      BY <1>1, <1>6
    <3> QED
      BY <2>2, <3>1
  <2>4. p + 1 < argc
    BY <1>1, <1>6, <1>10, <2>1
  <2>5. ~Missing /\ Optarg = item.words[1]
    <3>1. Scanned.attached = None
      BY <1>11, <1>14
    <3>2. optind + 1 = p + 1 /\ ~(p + 1 >= argc)
      BY <1>1, <1>3, <1>10, <2>4
    <3>3. ~Missing
      BY <3>2, Zenon DEF Missing
    <3>4. Optarg = argv[optind + 1]
      BY <3>1, Zenon DEF Optarg
    <3> QED
      BY <2>3, <3>2, <3>3, <3>4, Zenon
  <2>6. next + n = end + 2
    BY <1>6, <1>15, <2>1
  <2>7. item.option = "i" => Argv(next) = item.words[2] /\ Argv(next + 1) = item.words[3]
    <3> SUFFICES ASSUME item.option = "i" PROVE Argv(next) = item.words[2] /\ Argv(next + 1) = item.words[3]
      OBVIOUS
    <3>0. 3 \in 2 .. n + 1 /\ 4 \in 2 .. n + 1
      BY <1>6
    <3>1. argv[p + 3 - 1] = item.words[3 - 1] /\ argv[p + 4 - 1] = item.words[4 - 1]
      BY <2>2, <3>0, Zenon
    <3>2. p + 3 - 1 = next /\ p + 4 - 1 = next + 1 /\ next < argc /\ next + 1 < argc /\ 3 - 1 = 2 /\ 4 - 1 = 3
      BY <1>1, <1>6, <1>10, <2>1
    <3>3. argv[next] = item.words[2] /\ argv[next + 1] = item.words[3]
      BY <3>1, <3>2, Zenon
    <3> QED
      BY <3>2, <3>3 DEF Argv
  <2> QED
    BY <1>1, <1>8, <1>9, <1>12, <2>5, <2>6, <2>7 DEF ArgumentRead, n
<1> QED
  BY <1>5, <1>13, <1>14

\* An option and its words are read as meant; -v and -l are refused exactly if
\* they end the line; and getopt stands behind the last of the words.
ArgumentIsMeant(g, k, item) ==
  /\ ArgumentNext /\ ~Missing
  /\ Scanned.option = item.option /\ Optarg = item.words[1]
  /\ item.option = "i" => Argv(AfterArgument) = item.words[2] /\ Argv(AfterArgument + 1) = item.words[3]
  /\ AfterArgument + Wants(item.option) <= argc <=>
       (item.option \in {"v", "l"} => k + 1 < Len(g.items) \/ g.names # <<>>)

LEMMA ArgumentMoves ==
  ASSUME NEW g \in Given, argv = Line(g), argv' = argv, NEW k \in 0 .. Len(g.items) - 1, At(g, k),
         NEW item, NEW p, NEW b, NEW s, Stands(g, k, item, p, b, s), item.option \notin Flag
  PROVE  /\ ArgumentIsMeant(g, k, item)
         /\ optind' = AfterArgument + Reads(item.option) /\ place' = Done => At(g, k + 1)'
<1> DEFINE next == IF item.attached THEN p + 1 ELSE p + 2
           end == p + Len(s) - 1
           new == Lines(g)[k + 1]
<1>1. ArgumentRead(item, next, end) /\ end <= Len(argv)
  BY ArgumentTaken
<1>2. item \in Item /\ p = Place(Lines(g)[k], g.joined) /\ b = Before(Lines(g)[k], g.joined) /\ s = Spelled(item)
  BY DEF Stands
<1>3. k + 1 \in 1 .. Len(g.items) /\ k + 1 \in 0 .. Len(g.items) /\ k + 1 - 1 = k /\ k \in 0 .. Len(g.items)
      /\ Len(g.items) \in Nat /\ g.names \in Seq(Plain)
  BY LinesAre
<1>4. Lines(g)[k] \in Seq(Word) /\ new = AddItem(Lines(g)[k], item, g.joined)
  BY <1>3, LinesAre DEF Stands
<1>5. new \in Seq(Word) /\ Len(new) = end /\ ~Joins(new, g.joined)
  BY <1>2, <1>4, EndOfAdded
<1>6. item.option \in WithArgument
  BY <1>2, ArgumentSpelled
<1>7. argc = Len(argv) + 1 /\ Len(argv) \in Nat
  BY LineContinues DEF argc
<1> HIDE DEF next, end, new
<1>8. end \in Nat
  BY <1>5
<1>9. AfterArgument = next /\ next \in Nat /\ next + Arity(item.option) = end + 2
  BY <1>1 DEF ArgumentRead
<1>10. next + Reads(item.option) = end + 1
  BY <1>6, <1>8, <1>9 DEF Arity, Reads, Flag, WithArgument
<1>11. item.option \notin {"v", "l"} => next + Wants(item.option) <= argc
  BY <1>1, <1>6, <1>7, <1>8, <1>9 DEF Arity, Wants, Flag, WithArgument
<1>12. item.option \in {"v", "l"} => (next + Wants(item.option) <= argc <=> end < Len(argv))
  BY <1>6, <1>7, <1>8, <1>9 DEF Arity, Wants, Flag, WithArgument
<1>13. end < Len(argv) <=> k + 1 < Len(g.items) \/ g.names # <<>>
  <2>1. CASE k + 1 < Len(g.items)
    <3>1. PICK item2, p2, b2, s2 : Stands(g, k + 1, item2, p2, b2, s2)
      <4>1. (k + 1) + 1 \in 1 .. Len(g.items)
        BY <1>3, <2>1
      <4>2. g.items[(k + 1) + 1] \in Item
        BY <4>1, LinesAre
      <4> QED
        BY <4>2 DEF Stands
    <3>2. p2 = Len(new) + 1
      BY <1>5, <3>1 DEF Stands, Place, new
    <3>3. k + 1 \in 0 .. Len(g.items) - 1
      BY <1>3, <2>1
    <3>4. p2 \in 1 .. Len(argv)
      BY <3>1, <3>3, ItemStands
    <3> QED
      BY <1>5, <1>7, <1>8, <2>1, <3>2, <3>4
  <2>2. CASE k + 1 = Len(g.items)
    <3>1. argv = new \o g.names
      BY <2>2, LineContinues DEF new
    <3>2. g.names \in Seq(Word)
      <4>1. Plain \in SUBSET Word
        BY DEF Word
      <4> QED
        BY <1>3, <4>1
    <3>3. Len(argv) = Len(new) + Len(g.names)
      BY <1>5, <3>1, <3>2, Joined
    <3>4. PICK m \in Nat : m = Len(g.names)
      BY <1>3
    <3>5. m > 0 <=> g.names # <<>>
      BY <1>3, <3>4
    <3> QED
      BY <1>5, <1>8, <2>2, <3>3, <3>4, <3>5
  <2> QED
    BY <1>3, <2>1, <2>2
<1>14. ArgumentIsMeant(g, k, item)
  <2>1. next + Wants(item.option) <= argc <=>
          (item.option \in {"v", "l"} => k + 1 < Len(g.items) \/ g.names # <<>>)
    BY <1>11, <1>12, <1>13
  <2> QED
    BY <1>1, <1>9, <2>1 DEF ArgumentRead, ArgumentIsMeant
<1>15. ASSUME optind' = AfterArgument + Reads(item.option), place' = Done
       PROVE  At(g, k + 1)'
  <2>1. optind' = Len(new) + 1
    BY <1>5, <1>9, <1>10, <1>15
  <2> QED
    BY <1>5, <1>15, <2>1 DEF At, new
<1> QED
  BY <1>14, <1>15

LEMMA FirstItems ==
  ASSUME NEW S, NEW q \in Seq(S), NEW k \in 0 .. Len(q) - 1
  PROVE  /\ SubSeq(q, 1, k) \in Seq(S) /\ SubSeq(q, 1, 0) = <<>> /\ SubSeq(q, 1, Len(q)) = q
         /\ SubSeq(q, 1, k + 1) = Append(SubSeq(q, 1, k), q[k + 1])
OBVIOUS

\* getopt reads all the items and then no more: the names are left.
LEMMA NamesAreLeft ==
  ASSUME NEW g \in Given, argv = Line(g), At(g, Len(g.items))
  PROVE  NoMore /\ FirstWord = optind /\ SubSeq(argv, FirstWord, Len(argv)) = g.names
<1> DEFINE line == Lines(g)[Len(g.items)]
           names == g.names
<1>1. /\ line \in Seq(Word) /\ names \in Seq(Plain) /\ Len(g.items) \in Nat
      /\ argv = line \o names
  <2>1. argv = line \o names
    BY LineContinues, Zenon
  <2>2. names \in Seq(Plain) /\ Len(g.items) \in Nat
    BY LinesAre
  <2>3. line \in Seq(Word)
    BY LinesAre
  <2> QED
    BY <2>1, <2>2, <2>3
<1>2. optind = Len(line) + 1 /\ place = Done
  <2>1. ~(Len(g.items) < Len(g.items))
    BY <1>1
  <2> QED
    BY <2>1, Zenon DEF At
<1> HIDE DEF line, names
<1>3. names \in Seq(Word)
  <2>1. Plain \in SUBSET Word
    BY DEF Word
  <2> QED
    BY <1>1, <2>1
<1>4. /\ Len(argv) = Len(line) + Len(names) /\ argv \in Seq(Word)
      /\ \A j \in 1 .. Len(names) : argv[Len(line) + j] = names[j]
  BY <1>1, <1>3, Joined
<1>5. PICK m \in Nat, n \in Nat : m = Len(line) /\ n = Len(names)
  BY <1>1
<1>6. ~AtWord
  <2>1. SUFFICES ASSUME optind < argc PROVE argv[optind] \in Plain
    BY DEF AtWord
  <2>2. 1 \in 1 .. Len(names)
    BY <1>2, <1>4, <1>5, <2>1 DEF argc
  <2>3. argv[Len(line) + 1] = names[1] /\ names[1] \in Plain
    BY <1>1, <1>4, <2>2
  <2> QED
    BY <1>2, <2>3
<1>7. NoMore /\ FirstWord = optind
  BY <1>2, <1>6 DEF NoMore, FirstWord, DashDash
<1>8. SubSeq(argv, m + 1, m + n) = names
  <2> DEFINE rest == SubSeq(argv, m + 1, m + n)
  <2>1. \A i \in m + 1 .. m + n : argv[i] \in Word
    BY <1>4, <1>5
  <2>2. m + 1 \in Int /\ m + n \in Int
    BY <1>5
  <2>3. /\ rest \in Seq(Word)
        /\ Len(rest) = IF m + 1 <= m + n THEN (m + n) - (m + 1) + 1 ELSE 0
        /\ \A i \in 1 .. (m + n) - (m + 1) + 1 : rest[i] = argv[(m + 1) + i - 1]
    BY <2>1, <2>2, SubSeqProperties
  <2>4. Len(rest) = Len(names)
    BY <1>5, <2>3
  <2>5. ASSUME NEW i \in 1 .. Len(rest) PROVE rest[i] = names[i]
    <3>1. i \in 1 .. (m + n) - (m + 1) + 1 /\ i \in 1 .. Len(names) /\ (m + 1) + i - 1 = Len(line) + i
      BY <1>5, <2>4, <2>5
    <3> HIDE DEF rest
    <3> QED
      BY <1>4, <2>3, <3>1
  <2> HIDE DEF rest
  <2>6. rest = names
    BY <1>3, <2>3, <2>4, <2>5, SeqEqual
  <2> QED
    BY <2>6 DEF rest
<1>9. FirstWord = m + 1 /\ Len(argv) = m + n
  BY <1>2, <1>4, <1>5, <1>7
<1> QED
  BY <1>7, <1>8, <1>9 DEF names

\* What main itself accepts: -v and -l not as the last words.
Accepted(g) == Acceptable(g) /\ ~LastIsRefused(g)
StartsAsCoded ==
  given # None /\ pc # "options" =>
    IF Accepted(given)
      THEN /\ pc = IF given.names = <<>> THEN "server" ELSE "client"
           /\ [set EXCEPT !.seed = None] = Meant(given)
      ELSE pc = "usage"

\* What keeps the items accepted, one by one.
IsFine(g, j) ==
  LET item == g.items[j] IN
    /\ item.option # "h"
    /\ item.words # <<>> => Valid(item.option, item.words[1])
    /\ item.option \in {"v", "l"} => j < Len(g.items) \/ g.names # <<>>

LEMMA AcceptedIsFine ==
  ASSUME NEW g \in Given
  PROVE  Accepted(g) <=> /\ \A j \in 1 .. Len(g.items) : IsFine(g, j)
                         /\ Len(g.names) > 1 => Number[g.names[2]] > 0
<1>1. g.items \in Seq(Item) /\ Len(g.items) \in Nat
  BY LinesAre
<1>2. PICK n \in Nat : n = Len(g.items)
  BY <1>1
<1>3. DOMAIN g.items = 1 .. n /\ (g.items # <<>> <=> n >= 1) /\ Last(g.items) = g.items[n]
  BY <1>1, <1>2 DEF Last
<1>4. Holds("h", g.items) <=> \E j \in 1 .. n : g.items[j].option = "h"
  BY <1>3 DEF Holds, Those
<1>5. ASSUME Accepted(g), NEW j \in 1 .. n PROVE IsFine(g, j)
  <2>1. g.items[j].option # "h"
    BY <1>4, <1>5 DEF Accepted, Acceptable, LastIsRefused
  <2>2. g.items[j].words # <<>> => Valid(g.items[j].option, g.items[j].words[1])
    BY <1>3, <1>5 DEF Accepted, Acceptable, LastIsRefused
  <2>3. g.items[j].option \in {"v", "l"} => j < n \/ g.names # <<>>
    <3>1. CASE j = n
      BY <1>3, <1>5, <3>1 DEF Accepted, Acceptable, LastIsRefused
    <3>2. CASE j # n
      BY <1>2, <3>2
    <3> QED
      BY <3>1, <3>2
  <2> QED
    BY <1>2, <2>1, <2>2, <2>3 DEF IsFine
<1>6. ASSUME \A j \in 1 .. n : IsFine(g, j), Len(g.names) > 1 => Number[g.names[2]] > 0 PROVE Accepted(g)
  <2>1. ~Holds("h", g.items)
    BY <1>4, <1>6 DEF IsFine
  <2>2. \A k \in DOMAIN g.items : g.items[k].words # <<>> => Valid(g.items[k].option, g.items[k].words[1])
    BY <1>3, <1>6 DEF IsFine
  <2>3. g.items # <<>> /\ Last(g.items).option \in {"v", "l"} => g.names # <<>>
    <3>1. n >= 1 => n \in 1 .. n /\ ~(n < n)
      BY <1>2
    <3> QED
      BY <1>2, <1>3, <1>6, <3>1 DEF IsFine
  <2> QED
    BY <1>6, <2>1, <2>2, <2>3 DEF Accepted, Acceptable, LastIsRefused
<1>7. Accepted(g) => (Len(g.names) > 1 => Number[g.names[2]] > 0)
  BY DEF Accepted, Acceptable, LastIsRefused
<1> QED
  BY <1>2, <1>5, <1>6, <1>7

\* The first k items are read: getopt stands behind them, the settings are those
\* they mean, and none of them is to end in the usage.
Upto(g, k) ==
  /\ At(g, k)
  /\ Sets(set, SubSeq(g.items, 1, k))
  /\ \A j \in 1 .. k : IsFine(g, j)

\* While the options of a meant line are read, some first items are; and main
\* ends as StartsAsCoded says.
MeansInv ==
  given # None =>
    /\ given \in Given /\ argv = Line(given)
    /\ pc = "options" => \E k \in 0 .. Len(given.items) : Upto(given, k)
    /\ StartsAsCoded

LEMMA MeansInit == Init => MeansInv
<1> SUFFICES ASSUME Init, given # None PROVE MeansInv
  BY DEF MeansInv
<1>1. given \in Given /\ argv = Line(given) /\ pc = "options" /\ optind = 1 /\ place = Done /\ set = Defaults
  BY DEF Init
<1>2. given.items \in Seq(Item) /\ Len(given.items) \in Nat /\ Lines(given)[0] = <<>>
  BY <1>1, LinesAre
<1>3. At(given, 0)
  <2>1. ~Joins(<<>>, given.joined) /\ Len(<<>>) + 1 = 1
    BY DEF Joins
  <2> QED
    BY <1>1, <1>2, <2>1 DEF At
<1>4. Sets(set, SubSeq(given.items, 1, 0))
  <2>1. SubSeq(given.items, 1, 0) = <<>>
    BY <1>2
  <2> QED
    BY <1>1, <2>1, DefaultsSet, Zenon
<1>5. Upto(given, 0)
  BY <1>3, <1>4 DEF Upto
<1>6. 0 \in 0 .. Len(given.items)
  BY <1>2
<1> QED
  BY <1>1, <1>5, <1>6 DEF MeansInv, StartsAsCoded

\* The next item can be named.
LEMMA ItemNext ==
  ASSUME NEW g \in Given, NEW k \in 0 .. Len(g.items) - 1
  PROVE  /\ \E item, p, b, s : Stands(g, k, item, p, b, s)
         /\ k + 1 \in 1 .. Len(g.items) /\ k + 1 \in 0 .. Len(g.items)
<1>1. k + 1 \in 1 .. Len(g.items) /\ k + 1 \in 0 .. Len(g.items)
  BY LinesAre
<1>2. g.items[k + 1] \in Item
  BY <1>1, LinesAre
<1> QED
  BY <1>1, <1>2 DEF Stands

\* An item that is not fine makes the line not acceptable.
LEMMA NotFine ==
  ASSUME NEW g \in Given, NEW k \in 1 .. Len(g.items), ~IsFine(g, k)
  PROVE  ~Accepted(g)
BY AcceptedIsFine

\* One item more is read.
LEMMA UptoNext ==
  ASSUME NEW g \in Given, NEW k \in 0 .. Len(g.items) - 1, At(g, k + 1)',
         NEW item, item = g.items[k + 1], Sets(set', Append(SubSeq(g.items, 1, k), item)),
         \A j \in 1 .. k : IsFine(g, j), IsFine(g, k + 1)
  PROVE  Upto(g, k + 1)'
<1>1. g.items \in Seq(Item) /\ Len(g.items) \in Nat
  BY LinesAre
<1>2. SubSeq(g.items, 1, k + 1) = Append(SubSeq(g.items, 1, k), item)
  BY <1>1, FirstItems
<1>3. Sets(set', SubSeq(g.items, 1, k + 1))
  BY <1>2, Zenon
<1>4. \A j \in 1 .. k + 1 : IsFine(g, j)
  <2>1. \A j \in 1 .. k + 1 : j \in 1 .. k \/ j = k + 1
    BY <1>1
  <2> QED
    BY <2>1
<1> QED
  BY <1>3, <1>4 DEF Upto

LEMMA FlagMeans ==
  ASSUME LineInv, MeansInv, given # None, FlagOption
  PROVE  MeansInv'
<1>1. /\ given \in Given /\ argv = Line(given) /\ argv' = argv /\ given' = given
      /\ pc = "options" /\ LetterNext /\ ~NoMore
  BY DEF MeansInv, FlagOption, LetterNext
<1> DEFINE g == given
<1>2. PICK k \in 0 .. Len(g.items) : Upto(g, k)
  BY <1>1 DEF MeansInv
<1>3. At(g, k) /\ Sets(set, SubSeq(g.items, 1, k)) /\ \A j \in 1 .. k : IsFine(g, j)
  BY <1>2 DEF Upto
<1>4. k \in 0 .. Len(g.items) - 1
  <2>1. k # Len(g.items)
    BY <1>1, <1>3, NamesAreLeft
  <2>2. Len(g.items) \in Nat
    BY <1>1, LinesAre
  <2> QED
    BY <2>1, <2>2
<1>5. PICK item, p, b, s : Stands(g, k, item, p, b, s)
  BY <1>1, <1>4, ItemNext
<1>6. item = g.items[k + 1] /\ item \in Item /\ k + 1 \in 1 .. Len(g.items) /\ k + 1 \in 0 .. Len(g.items)
  BY <1>1, <1>4, <1>5, ItemNext DEF Stands
<1>7. item.option \in Flag
  <2>1. SUFFICES ASSUME item.option \notin Flag PROVE FALSE
    OBVIOUS
  <2>2. ArgumentIsMeant(g, k, item)
    BY <1>1, <1>3, <1>4, <1>5, <2>1, ArgumentMoves
  <2> QED
    BY <1>1, <2>2 DEF ArgumentIsMeant, ArgumentNext, LetterNext
<1>8. /\ Head(Scanned.letters) = item.option
      /\ optind' = AfterLetter /\ place' = Rest => At(g, k + 1)'
  BY <1>1, <1>3, <1>4, <1>5, <1>7, FlagMoves
<1>9. At(g, k + 1)'
  BY <1>8 DEF FlagOption
<1>10. item.words = <<>>
  BY <1>6, <1>7, FlagSpelled
<1> HIDE DEF g
<1>11. CASE item.option = "h"
  <2>1. ~Accepted(g)
    BY <1>1, <1>6, <1>11, NotFine DEF IsFine, g
  <2>2. pc' = "usage"
    BY <1>8, <1>11 DEF FlagOption, Usage
  <2> QED
    BY <1>1, <2>1, <2>2 DEF MeansInv, StartsAsCoded, g
<1>12. CASE item.option # "h"
  <2>1. IsFine(g, k + 1)
    BY <1>6, <1>7, <1>10, <1>12 DEF IsFine, Flag
  <2> DEFINE once == set.once \/ item.option = "1"
             hrr == set.hrr \/ item.option = "r"
             zero_share == set.zero_share \/ item.option = "z"
  <2>2. set' = [set EXCEPT !.once = once, !.hrr = hrr, !.zero_share = zero_share] /\ pc' = pc
    BY <1>8, <1>12 DEF FlagOption
  <2>3. /\ once \in BOOLEAN /\ (once <=> set.once \/ item.option = "1")
        /\ hrr \in BOOLEAN /\ (hrr <=> set.hrr \/ item.option = "r")
        /\ zero_share \in BOOLEAN /\ (zero_share <=> set.zero_share \/ item.option = "z")
    OBVIOUS
  <2> HIDE DEF once, hrr, zero_share
  <2>4. set \in SettingsOver(BOOLEAN)
    BY DEF LineInv, Settings
  <2>5. SubSeq(g.items, 1, k) \in Seq(Item)
    BY <1>1, <1>4, LinesAre, FirstItems DEF g
  <2>6. Sets(set', Append(SubSeq(g.items, 1, k), item))
    <3>1. Sets(set, SubSeq(g.items, 1, k))
      BY <1>3 DEF g
    <3>2. Sets([set EXCEPT !.once = once, !.hrr = hrr, !.zero_share = zero_share], Append(SubSeq(g.items, 1, k), item))
      BY <1>6, <1>7, <2>3, <2>4, <2>5, <3>1, FlagSets, ZenonT(30)
    <3> QED
      BY <2>2, <3>2, Zenon
  <2>7. Upto(g, k + 1)'
    BY <1>1, <1>3, <1>4, <1>6, <1>9, <2>1, <2>6, UptoNext DEF g
  <2> QED
    BY <1>1, <1>6, <2>2, <2>7 DEF MeansInv, StartsAsCoded, g
<1> QED
  BY <1>11, <1>12

LEMMA ArgumentMeans ==
  ASSUME LineInv, MeansInv, given # None, ArgumentOption \/ MissingArgument
  PROVE  MeansInv'
<1>1. /\ given \in Given /\ argv = Line(given) /\ argv' = argv /\ given' = given
      /\ pc = "options" /\ ArgumentNext /\ ~NoMore
  BY DEF MeansInv, ArgumentOption, MissingArgument, ArgumentNext
<1> DEFINE g == given
<1>2. PICK k \in 0 .. Len(g.items) : Upto(g, k)
  BY <1>1 DEF MeansInv
<1>3. At(g, k) /\ Sets(set, SubSeq(g.items, 1, k)) /\ \A j \in 1 .. k : IsFine(g, j)
  BY <1>2 DEF Upto
<1>4. k \in 0 .. Len(g.items) - 1
  <2>1. k # Len(g.items)
    BY <1>1, <1>3, NamesAreLeft
  <2>2. Len(g.items) \in Nat
    BY <1>1, LinesAre
  <2> QED
    BY <2>1, <2>2
<1>5. PICK item, p, b, s : Stands(g, k, item, p, b, s)
  BY <1>1, <1>4, ItemNext
<1>6. item = g.items[k + 1] /\ item \in Item /\ k + 1 \in 1 .. Len(g.items) /\ k + 1 \in 0 .. Len(g.items)
  BY <1>1, <1>4, <1>5, ItemNext DEF Stands
<1>7. item.option \notin Flag
  <2>1. SUFFICES ASSUME item.option \in Flag PROVE FALSE
    OBVIOUS
  <2>2. LetterNext
    BY <1>1, <1>3, <1>4, <1>5, <2>1, FlagMoves
  <2> QED
    BY <1>1, <2>2 DEF ArgumentNext, LetterNext
<1>8. /\ ArgumentIsMeant(g, k, item)
      /\ optind' = AfterArgument + Reads(item.option) /\ place' = Done => At(g, k + 1)'
  BY <1>1, <1>3, <1>4, <1>5, <1>7, ArgumentMoves
<1>9. item.option \in WithArgument /\ item.words[1] \in Plain /\ item.words # <<>>
  <2>1. /\ item.option \in WithArgument /\ item.words[1] \in Plain
        /\ item.words \in Seq(Plain) /\ Len(item.words) = Arity(item.option)
    BY <1>6, <1>7, ArgumentSpelled
  <2>2. Arity(item.option) >= 1 /\ Len(<<>>) = 0
    BY <1>7, <2>1 DEF Arity
  <2> QED
    BY <2>1, <2>2
<1> HIDE DEF g
<1>10. ArgumentOption
  BY <1>8 DEF ArgumentIsMeant, MissingArgument
<1> DEFINE option == item.option
           w == item.words[1]
           next == AfterArgument
<1>11. Scanned.option = option /\ Optarg = w
  BY <1>8 DEF ArgumentIsMeant
<1>12. /\ next + Wants(option) <= argc <=> (option \in {"v", "l"} => k + 1 < Len(g.items) \/ g.names # <<>>)
       /\ option = "i" => Argv(next) = item.words[2] /\ Argv(next + 1) = item.words[3]
  BY <1>8 DEF ArgumentIsMeant
<1>13. next + Wants(option) > argc <=> ~(next + Wants(option) <= argc)
  <2>1. argc = Len(argv) + 1 /\ Len(argv) \in Nat /\ next \in Nat
    BY DEF LineInv, argc, AfterArgument
  <2>2. Wants(option) \in Nat
    BY DEF Wants
  <2> QED
    BY <2>1, <2>2
<1> HIDE DEF option, w, next
<1>14. CASE next + Wants(option) <= argc /\ Valid(option, w)
  <2>1. set' = With(option, w, next) /\ optind' = next + Reads(option) /\ pc' = pc /\ place' = Done
    BY <1>10, <1>11, <1>13, <1>14 DEF ArgumentOption, next
  <2>2. At(g, k + 1)'
    BY <1>8, <2>1 DEF option, next
  <2>3. IsFine(g, k + 1)
    BY <1>6, <1>7, <1>12, <1>14 DEF IsFine, option, w, Flag
  <2>4. SubSeq(g.items, 1, k) \in Seq(Item)
    BY <1>1, <1>4, LinesAre, FirstItems DEF g
  <2>5. set \in SettingsOver(BOOLEAN)
    BY DEF LineInv, Settings
  <2>6. Sets(With(item.option, w, next), Append(SubSeq(g.items, 1, k), item))
    BY <1>3, <1>6, <1>9, <1>12, <2>4, <2>5, ArgumentSets DEF option, w
  <2>7. Upto(g, k + 1)'
    BY <1>1, <1>3, <1>4, <1>6, <2>1, <2>2, <2>3, <2>6, UptoNext DEF g, option
  <2> QED
    BY <1>1, <1>6, <2>1, <2>7 DEF MeansInv, StartsAsCoded, g
<1>15. CASE ~(next + Wants(option) <= argc /\ Valid(option, w))
  <2>1. pc' = "usage"
    BY <1>10, <1>11, <1>13, <1>15 DEF ArgumentOption, Usage, next
  <2>2. ~IsFine(g, k + 1)
    BY <1>6, <1>9, <1>12, <1>15 DEF IsFine, option, w
  <2>3. ~Accepted(g)
    BY <1>1, <1>6, <2>2, NotFine DEF g
  <2> QED
    BY <1>1, <2>1, <2>3 DEF MeansInv, StartsAsCoded, g
<1> QED
  BY <1>14, <1>15

LEMMA StartMeans ==
  ASSUME LineInv, MeansInv, given # None, Start
  PROVE  MeansInv'
<1>1. /\ given \in Given /\ argv = Line(given) /\ argv' = argv /\ given' = given
      /\ pc = "options" /\ NoMore
  BY DEF MeansInv, Start
<1> DEFINE g == given
           names == g.names
<1>2. PICK k \in 0 .. Len(g.items) : Upto(g, k)
  BY <1>1 DEF MeansInv
<1>3. At(g, k) /\ Sets(set, SubSeq(g.items, 1, k)) /\ \A j \in 1 .. k : IsFine(g, j)
  BY <1>2 DEF Upto
<1>4. g.items \in Seq(Item) /\ Len(g.items) \in Nat /\ names \in Seq(Plain)
  BY <1>1, LinesAre
<1>5. k = Len(g.items)
  <2>1. SUFFICES ASSUME k \in 0 .. Len(g.items) - 1 PROVE FALSE
    BY <1>4
  <2>2. PICK item, p, b, s : Stands(g, k, item, p, b, s)
    BY <1>1, <2>1, ItemNext
  <2> QED
    BY <1>1, <1>3, <2>1, <2>2, ItemScanned
<1>6. SubSeq(argv, FirstWord, Len(argv)) = names
  BY <1>1, <1>3, <1>5, NamesAreLeft
<1>7. Sets(set, g.items)
  <2>1. SubSeq(g.items, 1, Len(g.items)) = g.items
    BY <1>4
  <2> QED
    BY <1>3, <1>5, <2>1, Zenon
<1>8. PICK n \in Nat : n = Len(names)
  BY <1>4
<1>9. (names # <<>> <=> n >= 1) /\ (n >= 1 => names[1] \in Plain) /\ (n >= 2 => names[2] \in Plain)
  BY <1>4, <1>8
<1>10. n >= 2 => Atoi(names[2]) = Number[names[2]] /\ Number[names[2]] \in Int
  BY <1>9, WordAssumption DEF Atoi
<1>11. Accepted(g) <=> (n >= 2 => Number[names[2]] > 0)
  <2>1. Accepted(g) <=> (n > 1 => Number[names[2]] > 0)
    BY <1>1, <1>3, <1>5, <1>8, AcceptedIsFine
  <2> QED
    BY <1>8, <2>1
<1> HIDE DEF g, names
<1>12. CASE n >= 2 /\ ~(Atoi(names[2]) > 0)
  <2>1. pc' = "usage"
    BY <1>6, <1>8, <1>12 DEF Start, Usage
  <2>2. ~Accepted(g)
    BY <1>10, <1>11, <1>12
  <2> QED
    BY <1>1, <2>1, <2>2 DEF MeansInv, StartsAsCoded, g
<1>13. CASE n >= 2 => Atoi(names[2]) > 0
  <2> DEFINE name == IF names # <<>> THEN names[1] ELSE set.name
             port == IF n >= 2 THEN Atoi(names[2]) ELSE set.port
  <2>1. pc' = (IF names # <<>> THEN "client" ELSE "server") /\ set' = [set EXCEPT !.name = name, !.port = port]
    BY <1>6, <1>8, <1>10, <1>13 DEF Start
  <2>2. Accepted(g)
    BY <1>10, <1>11, <1>13
  <2>3. port = IF n >= 2 THEN Number[names[2]] ELSE set.port
    BY <1>10
  <2> HIDE DEF name, port
  <2>4. [[set EXCEPT !.name = name, !.port = port] EXCEPT !.seed = None] = Meant(g)
    <3>1. set \in Settings
      BY DEF LineInv
    <3>2. Names(set, g, name, port)
      BY <1>8, <2>3 DEF Names, name, names
    <3>3. g.names \in Seq(Plain)
      BY <1>4 DEF names
    <3>4. MeantBy(set, g, name, port)
      BY <1>7, <3>1, <3>2, <3>3, NamesSet
    <3> QED
      BY <3>4, Zenon DEF MeantBy
  <2>5. [set' EXCEPT !.seed = None] = Meant(g)
    BY <2>1, <2>4, Zenon
  <2> QED
    BY <1>1, <2>1, <2>2, <2>5 DEF MeansInv, StartsAsCoded, g, names
<1> QED
  BY <1>12, <1>13

\* However many options there are and however they are spelled, joined, attached,
\* repeated and ordered, main starts with the settings they mean, or shows the
\* usage if they are not acceptable, unless -v or -l are the last words.
THEOREM StartsAsGiven == Spec => []StartsAsMeant
<1>1. LineInv /\ MeansInv /\ [Next]_vars => MeansInv'
  <2> SUFFICES ASSUME LineInv, MeansInv, [Next]_vars PROVE MeansInv'
    OBVIOUS
  <2>1. CASE given = None
    <3>1. given' = given
      <4>1. Next => given' = given
        BY DEF Next, vars, FlagOption, MissingArgument, ArgumentOption, Start, Ended
      <4>2. UNCHANGED vars => given' = given
        BY DEF vars
      <4> QED
        BY <4>1, <4>2
    <3> QED
      BY <2>1, <3>1 DEF MeansInv
  <2>2. CASE given # None
    <3>1. CASE FlagOption
      BY <2>2, <3>1, FlagMeans
    <3>2. CASE ArgumentOption \/ MissingArgument
      BY <2>2, <3>2, ArgumentMeans
    <3>3. CASE Start
      BY <2>2, <3>3, StartMeans
    <3>4. CASE Ended \/ UNCHANGED vars
      <4>1. UNCHANGED vars
        BY <3>4 DEF Ended
      <4> QED
        BY <4>1 DEF MeansInv, StartsAsCoded, Upto, At, vars
    <3> QED
      BY <3>1, <3>2, <3>3, <3>4 DEF Next
  <2> QED
    BY <2>1, <2>2
<1>2. MeansInv => StartsAsMeant
  BY DEF MeansInv, StartsAsCoded, StartsAsMeant, Accepted
<1> QED
  BY <1>1, <1>2, MeansInit, LineInvariant, PTL DEF Spec
=============================================================================
