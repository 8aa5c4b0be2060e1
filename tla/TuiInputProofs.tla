--------------------------- MODULE TuiInputProofs ----------------------------
(***************************************************************************)
(* TLAPS proofs about the command line of the dashboard, for every grammar,*)
(* alphabet, terminal and console size.                                    *)
(***************************************************************************)
EXTENDS TuiInput, SequenceTheorems, WellFoundedInduction, TLAPS

\* What a line is made of: letters typed, the letters of words, the blank that
\* follows an inserted word.
Chars == Letters \cup STRING \cup {" "}
Line  == Seq(Chars)

-----------------------------------------------------------------------------
(* Numbers: least and greatest members *)

\* A set of natural numbers has a least member.
LEMMA LeastNumber ==
    ASSUME NEW T, T \subseteq Nat, T # {} PROVE \E x \in T : \A y \in T : x <= y
<1>1. IsWellFoundedOn(OpToRel(<, Nat), Nat) BY NatLessThanWellFounded
<1>2. PICK x \in T : \A y \in T : ~(<<y, x>> \in OpToRel(<, Nat)) BY <1>1, WFMin
<1>3. \A y \in T : ~(y < x) BY <1>2 DEF OpToRel
<1> QED BY <1>3

\* Min and Max of a set of positions are positions of the set.
LEMMA MinMaxIn ==
    ASSUME NEW n \in Nat, NEW S, S \subseteq 1 .. n, S # {}
    PROVE  /\ Min(S) \in S /\ Max(S) \in S
           /\ \A x \in S : Min(S) <= x /\ x <= Max(S)
<1>0. S \subseteq Nat OBVIOUS
<1>1. \E x \in S : \A y \in S : x <= y BY <1>0, LeastNumber
<1>2. \E x \in S : \A y \in S : x >= y
  <2> DEFINE T == {m \in Nat : n - m \in S}
  <2>1. PICK s \in S : TRUE OBVIOUS
  <2>2. n - s \in Nat /\ n - (n - s) = s BY <2>1
  <2>3. T # {} BY <2>1, <2>2
  <2>4. PICK m \in T : \A y \in T : m <= y BY <2>3, LeastNumber
  <2>5. n - m \in S BY <2>4
  <2>6. ASSUME NEW y \in S PROVE n - m >= y
    <3>1. n - y \in Nat /\ n - (n - y) = y OBVIOUS
    <3>2. m <= n - y BY <2>4, <3>1
    <3> QED BY <2>4, <3>1, <3>2
  <2> QED BY <2>5, <2>6
<1> QED BY <1>1, <1>2 DEF Min, Max

\* So do the values of a function on 1 .. n.
LEMMA GreatestValue ==
    ASSUME NEW n \in Nat, n >= 1, NEW f \in [1 .. n -> Nat]
    PROVE  \E m \in 1 .. n : \A i \in 1 .. n : f[m] >= f[i]
<1> DEFINE T == {k \in Nat : k >= 1 /\ k <= n
                             /\ ~ \E m \in 1 .. k : \A i \in 1 .. k : f[m] >= f[i]}
<1>1. \A i \in 1 .. n : f[i] \in Nat OBVIOUS
<1>2. ASSUME T # {} PROVE FALSE
  <2>1. PICK x \in T : \A y \in T : x <= y BY <1>2, LeastNumber
  <2>2. x \in Nat /\ x >= 1 /\ x <= n BY <2>1
  <2>3. x # 1
    <3>1. f[1] >= f[1] BY <1>1, <2>2
    <3>2. 1 \in 1 .. 1 /\ \A i \in 1 .. 1 : f[1] >= f[i] BY <3>1
    <3> QED BY <2>1, <3>2
  <2>4. x - 1 \in Nat /\ x - 1 >= 1 /\ x - 1 <= n /\ ~(x <= x - 1) BY <2>2, <2>3
  <2>5. PICK m \in 1 .. x - 1 : \A i \in 1 .. x - 1 : f[m] >= f[i] BY <2>1, <2>4
  <2>6. m \in 1 .. x /\ x \in 1 .. x /\ f[m] \in Nat /\ f[x] \in Nat
        /\ \A i \in 1 .. x : i \in 1 .. x - 1 \/ i = x
    BY <1>1, <2>2, <2>5
  <2>7. CASE f[m] >= f[x]
    <3>1. \A i \in 1 .. x : f[m] >= f[i] BY <2>5, <2>6, <2>7
    <3> QED BY <2>1, <2>6, <3>1
  <2>8. CASE ~(f[m] >= f[x])
    <3>1. ASSUME NEW i \in 1 .. x PROVE f[x] >= f[i]
      <4>1. f[i] \in Nat BY <1>1, <2>2
      <4> QED BY <2>5, <2>6, <2>8, <4>1
    <3> QED BY <2>1, <2>6, <3>1
  <2> QED BY <2>7, <2>8
<1>3. n \notin T BY <1>2
<1> QED BY <1>3

\* The lengths of the entries of a sequence have a maximum.
LEMMA MaxLenIn ==
    ASSUME NEW S, NEW s \in Seq(Seq(S)), Len(s) > 0
    PROVE  Max({Len(s[n]) : n \in DOMAIN s}) \in Nat
<1>1. PICK len \in Nat : len = Len(s) /\ DOMAIN s = 1 .. len /\ len >= 1 OBVIOUS
<1>2. \A n \in 1 .. len : Len(s[n]) \in Nat BY <1>1
<1> DEFINE lens == [n \in 1 .. len |-> Len(s[n])]
           L == {lens[n] : n \in 1 .. len}
<1>3. lens \in [1 .. len -> Nat] BY <1>2
<1>4. {Len(s[n]) : n \in DOMAIN s} = L BY <1>1
<1> HIDE DEF lens
<1>5. PICK m \in 1 .. len : \A n \in 1 .. len : lens[m] >= lens[n]
  BY <1>1, <1>3, GreatestValue
<1>6. \E x \in L : \A y \in L : x >= y BY <1>5
<1>7. L \subseteq Nat BY <1>3
<1> HIDE DEF L
<1>8. Max(L) \in L BY <1>6 DEF Max
<1> QED BY <1>4, <1>7, <1>8

-----------------------------------------------------------------------------
(* Sequences *)

\* A sequence over a set is one over any larger set.
LEMMA SeqMonotone == ASSUME NEW S, NEW T, S \subseteq T PROVE Seq(S) \subseteq Seq(T)
OBVIOUS

\* A sequence is its first entries followed by the others.
LEMMA SplitSeq ==
    ASSUME NEW S, NEW s \in Seq(S), NEW b \in 0 .. Len(s)
    PROVE  s = SubSeq(s, 1, b) \o SubSeq(s, b + 1, Len(s))
<1>1. 1 \in 1 .. Len(s) + 1 /\ b \in 1 - 1 .. Len(s) /\ Len(s) \in b .. Len(s) OBVIOUS
<1>2. SubSeq(s, 1, b) \o SubSeq(s, b + 1, Len(s)) = SubSeq(s, 1, Len(s))
  BY <1>1, ConcatAdjacentSubSeq
<1> QED BY <1>2, SubSeqFull

\* The line of the input splits in what precedes the current word and the word.
LEMMA WordSplit ==
    ASSUME NEW s \in Line
    PROVE  /\ CurrentWord(s) \in Line
           /\ SubSeq(s, 1, Len(s) - Len(CurrentWord(s))) \in Line
           /\ s = SubSeq(s, 1, Len(s) - Len(CurrentWord(s))) \o CurrentWord(s)
<1> DEFINE blanks == {n \in DOMAIN s : s[n] = " "}
           b == IF blanks = {} THEN 0 ELSE Max(blanks)
<1>1. PICK len \in Nat : len = Len(s) BY DEF Line
<1>2. s \in Seq(Chars) /\ DOMAIN s = 1 .. len /\ \A i \in 1 .. len : s[i] \in Chars
  BY <1>1 DEF Line
<1>3. blanks \subseteq 1 .. len BY <1>2
<1>4. CurrentWord(s) = SubSeq(s, b + 1, len) BY <1>1 DEF CurrentWord
<1> HIDE DEF blanks
<1>5. b \in 0 .. len
  <2>1. CASE blanks = {} BY <1>1, <2>1
  <2>2. CASE blanks # {}
    <3>1. Max(blanks) \in blanks BY <1>1, <1>3, <2>2, MinMaxIn
    <3>2. Max(blanks) \in 1 .. len BY <1>3, <3>1
    <3>3. b = Max(blanks) BY <2>2
    <3> QED BY <3>2, <3>3
  <2> QED BY <2>1, <2>2
<1> HIDE DEF b
<1>6. SubSeq(s, b + 1, len) \in Seq(Chars) /\ Len(SubSeq(s, b + 1, len)) = len - b
  <2>1. b + 1 \in Int /\ len \in Int /\ \A i \in b + 1 .. len : s[i] \in Chars
    BY <1>2, <1>5
  <2>2. /\ SubSeq(s, b + 1, len) \in Seq(Chars)
        /\ Len(SubSeq(s, b + 1, len)) = IF b + 1 <= len THEN len - (b + 1) + 1 ELSE 0
    BY <2>1, SubSeqProperties
  <2> QED BY <1>5, <2>2
<1>7. SubSeq(s, 1, b) \in Seq(Chars)
  <2>1. b \in Int /\ \A i \in 1 .. b : s[i] \in Chars BY <1>2, <1>5
  <2> QED BY <2>1, SubSeqProperties
<1>8. Len(s) - Len(CurrentWord(s)) = b BY <1>1, <1>4, <1>5, <1>6
<1>9. s = SubSeq(s, 1, b) \o SubSeq(s, b + 1, len) BY <1>1, <1>2, <1>5, SplitSeq
<1> QED BY <1>4, <1>6, <1>7, <1>8, <1>9 DEF Line

\* TrimSpace of a line is a line.
LEMMA TrimType == ASSUME NEW s \in Line PROVE TrimSpace(s) \in Line
<1> DEFINE ink == {n \in DOMAIN s : s[n] # " "}
<1>1. s \in Seq(Chars) /\ Len(s) \in Nat /\ DOMAIN s = 1 .. Len(s)
      /\ \A i \in 1 .. Len(s) : s[i] \in Chars
  BY DEF Line
<1>2. CASE ink = {}
  <2>1. <<>> \in Line BY DEF Line
  <2> QED BY <1>2, <2>1, Zenon DEF TrimSpace
<1>3. CASE ink # {}
  <2>1. ink \subseteq 1 .. Len(s) BY <1>1
  <2> HIDE DEF ink
  <2>2. Min(ink) \in 1 .. Len(s) /\ Max(ink) \in 1 .. Len(s) BY <1>1, <1>3, <2>1, MinMaxIn
  <2>3. Min(ink) \in Int /\ Max(ink) \in Int
        /\ \A i \in Min(ink) .. Max(ink) : s[i] \in Chars
    BY <1>1, <2>2
  <2>4. SubSeq(s, Min(ink), Max(ink)) \in Seq(Chars) BY <2>3, SubSeqProperties
  <2> QED BY <1>3, <2>4 DEF TrimSpace, Line, ink
<1> QED BY <1>2, <1>3

-----------------------------------------------------------------------------
(* Kept *)

\* The recursion of Kept.
IsKept(f, s, keep) ==
    f = [n \in 0 .. Len(s) |->
           IF n = 0 THEN <<>>
           ELSE IF s[n] \in keep THEN Append(f[n - 1], s[n]) ELSE f[n - 1]]

\* The same up to its first m entries.
Upto(f, s, keep, m) ==
    \A n \in 0 .. m :
        f[n] = IF n = 0 THEN <<>>
               ELSE IF s[n] \in keep THEN Append(f[n - 1], s[n]) ELSE f[n - 1]

\* The recursion of Kept has a solution up to every length.
LEMMA UptoExists ==
    ASSUME NEW s, NEW keep
    PROVE  \A m \in Nat : \E f : Upto(f, s, keep, m)
<1> DEFINE T == {m \in Nat : ~ \E f : Upto(f, s, keep, m)}
<1> SUFFICES ASSUME T # {} PROVE FALSE OBVIOUS
<1>1. PICK x \in T : \A y \in T : x <= y BY LeastNumber
<1>2. CASE x = 0
  <2> DEFINE g == [n \in 0 .. 0 |-> <<>>]
  <2>1. Upto(g, s, keep, 0) BY DEF Upto
  <2> QED BY <1>1, <1>2, <2>1
<1>3. CASE x # 0
  <2>1. x \in Nat /\ x - 1 \in Nat /\ x - 1 \notin T BY <1>1, <1>3
  <2>2. PICK g : Upto(g, s, keep, x - 1) BY <2>1
  <2> DEFINE new == IF s[x] \in keep THEN Append(g[x - 1], s[x]) ELSE g[x - 1]
             f == [n \in 0 .. x |-> IF n = x THEN new ELSE g[n]]
  <2>3. f[x] = new BY <2>1
  <2>4. \A n \in 0 .. x - 1 : f[n] = g[n] BY <2>1
  <2> HIDE DEF f
  <2>5. ASSUME NEW n \in 0 .. x
        PROVE  f[n] = IF n = 0 THEN <<>>
                      ELSE IF s[n] \in keep THEN Append(f[n - 1], s[n]) ELSE f[n - 1]
    <3>1. CASE n = x
      <4>1. x - 1 \in 0 .. x - 1 BY <2>1
      <4>2. f[x - 1] = g[x - 1] BY <2>4, <4>1
      <4> QED BY <1>3, <2>3, <3>1, <4>2
    <3>2. CASE n # x /\ n = 0
      <4>1. 0 \in 0 .. x - 1 BY <2>1
      <4>2. g[0] = <<>> BY <2>2, <4>1 DEF Upto
      <4> QED BY <2>4, <3>2, <4>1, <4>2
    <3>3. CASE n # x /\ n # 0
      <4>1. n \in 0 .. x - 1 /\ n - 1 \in 0 .. x - 1 BY <2>1, <3>3
      <4>2. g[n] = IF s[n] \in keep THEN Append(g[n - 1], s[n]) ELSE g[n - 1]
        BY <2>2, <3>3, <4>1 DEF Upto
      <4>3. f[n] = g[n] /\ f[n - 1] = g[n - 1] BY <2>4, <4>1
      <4> QED BY <3>3, <4>2, <4>3
    <3> QED BY <3>1, <3>2, <3>3
  <2>6. Upto(f, s, keep, x) BY <2>5 DEF Upto
  <2> QED BY <1>1, <2>6
<1> QED BY <1>2, <1>3

\* So Kept is the last value of a function that satisfies it.
LEMMA KeptDef ==
    ASSUME NEW s, NEW keep, Len(s) \in Nat
    PROVE  \E f : Upto(f, s, keep, Len(s)) /\ Kept(s, keep) = f[Len(s)]
<1>1. PICK g : Upto(g, s, keep, Len(s)) BY UptoExists
<1> DEFINE h == [n \in 0 .. Len(s) |-> g[n]]
<1>2. \A n \in 0 .. Len(s) : h[n] = g[n] OBVIOUS
<1>3. ASSUME NEW n \in 0 .. Len(s)
      PROVE  h[n] = IF n = 0 THEN <<>>
                    ELSE IF s[n] \in keep THEN Append(h[n - 1], s[n]) ELSE h[n - 1]
  <2>1. g[n] = IF n = 0 THEN <<>>
               ELSE IF s[n] \in keep THEN Append(g[n - 1], s[n]) ELSE g[n - 1]
    BY <1>1 DEF Upto
  <2>2. n = 0 \/ n - 1 \in 0 .. Len(s) OBVIOUS
  <2> HIDE DEF h
  <2>3. n = 0 \/ h[n - 1] = g[n - 1] BY <1>2, <2>2
  <2>4. h[n] = g[n] BY <1>2
  <2> QED BY <2>1, <2>3, <2>4
<1>4. IsKept(h, s, keep) BY <1>3 DEF IsKept
<1> HIDE DEF h
<1> DEFINE c == CHOOSE f : IsKept(f, s, keep)
<1>5. IsKept(c, s, keep) BY <1>4
<1>6. Kept(s, keep) = c[Len(s)] BY DEF Kept, IsKept
<1> HIDE DEF c
<1>7. Upto(c, s, keep, Len(s)) BY <1>5 DEF IsKept, Upto
<1> QED BY <1>6, <1>7

\* Kept returns entries of s that are in keep.
LEMMA KeptType ==
    ASSUME NEW S, NEW s \in Seq(S), NEW keep
    PROVE  Kept(s, keep) \in Seq(S \cap keep)
<1>1. PICK len \in Nat : len = Len(s) /\ \A n \in 1 .. len : s[n] \in S OBVIOUS
<1>2. PICK f : Upto(f, s, keep, len) /\ Kept(s, keep) = f[len] BY <1>1, KeptDef
<1> DEFINE T == {n \in Nat : n <= len /\ f[n] \notin Seq(S \cap keep)}
<1>3. ASSUME T # {} PROVE FALSE
  <2>1. PICK x \in T : \A y \in T : x <= y BY <1>3, LeastNumber
  <2>2. x \in 0 .. len /\ 0 \in 0 .. len BY <2>1
  <2>3. x # 0
    <3>1. f[0] = <<>> BY <1>2, <2>2 DEF Upto
    <3>2. <<>> \in Seq(S \cap keep) OBVIOUS
    <3> QED BY <2>1, <3>1, <3>2
  <2>4. x - 1 \in Nat /\ x - 1 <= len /\ ~(x <= x - 1) BY <2>2, <2>3
  <2>5. f[x - 1] \in Seq(S \cap keep) BY <2>1, <2>4
  <2>6. f[x] = IF s[x] \in keep THEN Append(f[x - 1], s[x]) ELSE f[x - 1]
    BY <1>2, <2>2, <2>3 DEF Upto
  <2>7. s[x] \in S BY <1>1, <2>2, <2>3
  <2>8. f[x] \in Seq(S \cap keep)
    <3>1. CASE s[x] \in keep
      <4>1. s[x] \in S \cap keep BY <2>7, <3>1
      <4> QED BY <2>5, <2>6, <3>1, <4>1, AppendProperties
    <3>2. CASE s[x] \notin keep BY <2>5, <2>6, <3>2
    <3> QED BY <3>1, <3>2
  <2> QED BY <2>1, <2>8
<1>4. len \notin T BY <1>3
<1> QED BY <1>2, <1>4

\* Kept drops nothing of a sequence all of whose entries are to be kept.
LEMMA KeptAll ==
    ASSUME NEW S, NEW s \in Seq(S), NEW keep, \A n \in DOMAIN s : s[n] \in keep
    PROVE  Kept(s, keep) = s
<1>1. PICK len \in Nat : len = Len(s) /\ DOMAIN s = 1 .. len
                         /\ \A n \in 1 .. len : s[n] \in S
  OBVIOUS
<1>2. PICK f : Upto(f, s, keep, len) /\ Kept(s, keep) = f[len] BY <1>1, KeptDef
<1> DEFINE T == {n \in Nat : n <= len /\ f[n] # SubSeq(s, 1, n)}
<1>3. ASSUME T # {} PROVE FALSE
  <2>1. PICK x \in T : \A y \in T : x <= y BY <1>3, LeastNumber
  <2>2. x \in 0 .. len /\ 0 \in 0 .. len BY <2>1
  <2>3. x # 0
    <3>1. f[0] = <<>> BY <1>2, <2>2 DEF Upto
    <3>2. SubSeq(s, 1, 0) = <<>> BY SubSeqEmpty
    <3> QED BY <2>1, <3>1, <3>2
  <2>4. x - 1 \in Nat /\ x - 1 <= len /\ ~(x <= x - 1) BY <2>2, <2>3
  <2>5. f[x - 1] = SubSeq(s, 1, x - 1) BY <2>1, <2>4
  <2>6. x \in 1 .. len /\ 1 \in 1 .. len BY <2>2, <2>3
  <2>7. s[x] \in keep BY <1>1, <2>6
  <2>8. f[x] = Append(SubSeq(s, 1, x - 1), s[x])
    BY <1>2, <2>2, <2>3, <2>5, <2>7 DEF Upto
  <2>9. SubSeq(s, 1, x - 1) \in Seq(S)
    <3>1. \A i \in 1 .. x - 1 : s[i] \in S BY <1>1, <2>6
    <3> QED BY <2>4, <3>1, SubSeqProperties
  <2>10. SubSeq(s, 1, x) = SubSeq(s, 1, x - 1) \o <<s[x]>>
    BY <1>1, <2>6, SubSeqRecursiveSecond
  <2>11. Append(SubSeq(s, 1, x - 1), s[x]) = SubSeq(s, 1, x - 1) \o <<s[x]>>
    BY <1>1, <2>6, <2>9, AppendIsConcat
  <2> QED BY <2>1, <2>8, <2>10, <2>11
<1>4. len \notin T BY <1>3
<1> QED BY <1>1, <1>2, <1>4, SubSeqFull

\* Every candidate that Complete offers extends the current word.
LEMMA CompleteType ==
    ASSUME NEW s \in Line
    PROVE  /\ Complete(s) \in Seq(Line)
           /\ \A n \in DOMAIN Complete(s) : IsPrefix(CurrentWord(s), Complete(s)[n])
<1> DEFINE keep == {w \in Range(Words) : IsPrefix(CurrentWord(s), w) /\ w \notin Seen(s)}
<1>1. Complete(s) = Kept(Words, keep) BY DEF Complete
<1>2. \A w \in keep : IsPrefix(CurrentWord(s), w) OBVIOUS
<1> HIDE DEF keep
<1>3. Words \in Seq(Line)
  <2>0. STRING \subseteq Chars BY Zenon DEF Chars
  <2>1. Seq(STRING) \subseteq Line BY <2>0, SeqMonotone DEF Line
  <2>2. Words \in Seq(Seq(STRING)) BY TuiAssumption
  <2> QED BY <2>1, <2>2
<1>4. Kept(Words, keep) \in Seq(Line \cap keep) BY <1>3, KeptType
<1>5. \A n \in DOMAIN Kept(Words, keep) : Kept(Words, keep)[n] \in Line \cap keep BY <1>4
<1>6. Kept(Words, keep) \in Seq(Line) BY <1>4
<1> QED BY <1>1, <1>2, <1>5, <1>6

-----------------------------------------------------------------------------
(* The inductive invariant *)

Types ==
    /\ pc \in {"loop", "running", "quit"} /\ walk \in {"none", "shown", "edited"}
    /\ queue \in Seq(Keys)
    /\ input \in Line /\ typed \in Line /\ menuHead \in Line /\ menuOrig \in Line
    /\ menuActive \in BOOLEAN /\ menuIdx \in Nat /\ menuCands \in Seq(Line)
    /\ lines \in Seq(Line) /\ file \in Seq(Line) /\ histIdx \in 0 .. Len(lines)
    /\ console \in Seq(Int) /\ logged \in Nat /\ Len(console) <= ConsoleMax

\* What the menu remembers.  MenuPreview is not inductive: it needs every
\* candidate to extend the word typed, not only the one selected; EscRestores
\* needs menuOrig to be the line typed, and RecallInStep that no line that the
\* history shows lies under an open menu.
MenuInv ==
    /\ ~menuActive => input = typed
    /\ menuActive =>
         /\ menuOrig = typed /\ walk # "shown"
         /\ Len(menuCands) > 1 /\ menuIdx \in 0 .. Len(menuCands) - 1
         /\ input = menuHead \o menuCands[menuIdx + 1]
         /\ typed = menuHead \o CurrentWord(typed)
         /\ \A n \in DOMAIN menuCands : IsPrefix(CurrentWord(typed), menuCands[n])

\* No blank entry is ever written, so NewHistory drops nothing of the file.
HistInv == HistoryDurable /\ \A n \in DOMAIN file : file[n] # <<>>

IInv == Types /\ MenuInv /\ HistInv /\ RecallInStep

\* Initially the line, the menu, the history and the console are empty.
LEMMA InitInv == Init => IInv
<1> SUFFICES ASSUME Init PROVE IInv OBVIOUS
<1>1. <<>> \in Line /\ <<>> \in Seq(Line) /\ <<>> \in Seq(Int) /\ <<>> \in Seq(Keys)
      /\ Len(<<>>) = 0 /\ DOMAIN <<>> = {}
  BY DEF Line
<1>2. 0 <= ConsoleMax /\ 0 \in 0 .. 0 BY TuiAssumption
<1>3. Types BY <1>1, <1>2, Zenon DEF Init, Types
<1>4. MenuInv BY DEF Init, MenuInv
<1>5. HistInv BY DEF Init, HistInv, HistoryDurable
<1>6. RecallInStep BY <1>1 DEF Init, RecallInStep
<1> QED BY <1>3, <1>4, <1>5, <1>6 DEF IInv

-----------------------------------------------------------------------------
(* What the operations preserve *)

\* LastN of a sequence is a sequence of at most n entries.
LEMMA LastNType ==
    ASSUME NEW s \in Seq(Int), NEW n \in Nat
    PROVE  LastN(s, n) \in Seq(Int) /\ Len(LastN(s, n)) <= n
<1>1. PICK len \in Nat : len = Len(s) /\ \A i \in 1 .. len : s[i] \in Int OBVIOUS
<1> DEFINE b == IF len > n THEN len - n ELSE 0
<1>2. b \in Nat /\ b <= len /\ len - b <= n OBVIOUS
<1>3. LastN(s, n) = SubSeq(s, b + 1, len) BY <1>1 DEF LastN
<1> HIDE DEF b
<1>4. b + 1 \in Int /\ len \in Int /\ \A i \in b + 1 .. len : s[i] \in Int BY <1>1, <1>2
<1>5. /\ SubSeq(s, b + 1, len) \in Seq(Int)
      /\ Len(SubSeq(s, b + 1, len)) = IF b + 1 <= len THEN len - (b + 1) + 1 ELSE 0
  BY <1>4, SubSeqProperties
<1> QED BY <1>2, <1>3, <1>5

\* log keeps at most ConsoleMax lines.
LEMMA LogType ==
    ASSUME Types, NEW n \in Nat, log(n)
    PROVE  console' \in Seq(Int) /\ logged' \in Nat /\ Len(console') <= ConsoleMax
<1> DEFINE new == [m \in 1 .. n |-> logged + m]
<1>1. console \in Seq(Int) /\ logged \in Nat /\ ConsoleMax \in Nat BY TuiAssumption DEF Types
<1>2. new \in Seq(Int) BY <1>1
<1> HIDE DEF new
<1>3. console \o new \in Seq(Int) BY <1>1, <1>2
<1>4. console' = LastN(console \o new, ConsoleMax) BY DEF log, new
<1>5. logged' \in Nat BY <1>1 DEF log
<1> QED BY <1>1, <1>3, <1>4, <1>5, LastNType

\* Add keeps memory and file in step, and records nothing blank or twice in a row.
LEMMA AddInv ==
    ASSUME Types, HistInv, NEW line \in Line, Add(line)
    PROVE  lines' \in Seq(Line) /\ file' \in Seq(Line) /\ HistInv'
<1>1. PICK l \in Line : l = TrimSpace(line) BY TrimType
<1>2. lines \in Seq(Line) /\ file \in Seq(Line) BY DEF Types
<1>3. CASE UNCHANGED <<lines, file, diskFailed>>
  BY <1>2, <1>3 DEF HistInv, HistoryDurable
<1>4. CASE /\ l # <<>> /\ ~(lines # <<>> /\ Last(lines) = l)
           /\ lines' = Append(lines, l)
           /\ \/ file' = Append(file, l) /\ UNCHANGED diskFailed
              \/ diskFailed' = TRUE /\ UNCHANGED file
  <2>1. PICK len \in Nat :
           /\ len = Len(lines) /\ DOMAIN lines = 1 .. len
           /\ lines' \in Seq(Line) /\ DOMAIN lines' = 1 .. len + 1
           /\ lines'[len + 1] = l
           /\ \A n \in 1 .. len : lines'[n] = lines[n]
    BY <1>2, <1>4
  <2>2. len = 0 \/ lines[len] # l BY <1>2, <1>4, <2>1 DEF Last
  <2>3. ASSUME NEW n \in DOMAIN lines'
        PROVE  lines'[n] # <<>> /\ (n > 1 /\ ~diskFailed' => lines'[n] # lines'[n - 1])
    <3>0. ~diskFailed' => ~diskFailed BY <1>4
    <3>1. CASE n = len + 1
      <4>1. n > 1 => n - 1 = len /\ len \in 1 .. len BY <2>1, <3>1
      <4> QED BY <1>4, <2>1, <2>2, <3>1, <4>1
    <3>2. CASE n # len + 1
      <4>1. n \in 1 .. len /\ (n > 1 => n - 1 \in 1 .. len) BY <2>1, <3>2
      <4>2. lines[n] # <<>> /\ (n > 1 /\ ~diskFailed => lines[n] # lines[n - 1])
        BY <2>1, <4>1 DEF HistInv, HistoryDurable
      <4> QED BY <2>1, <3>0, <4>1, <4>2
    <3> QED BY <3>1, <3>2
  <2>4. file' \in Seq(Line) /\ \A n \in DOMAIN file' : file'[n] # <<>>
    <3>0. \A n \in DOMAIN file : file[n] # <<>> BY DEF HistInv
    <3>1. CASE file' = file BY <1>2, <3>0, <3>1
    <3>2. CASE file' = Append(file, l) BY <1>2, <1>4, <3>0, <3>2
    <3> QED BY <1>4, <3>1, <3>2
  <2>5. ~diskFailed' => lines' = file'
    <3>1. CASE file' = Append(file, l) /\ UNCHANGED diskFailed
      BY <1>4, <3>1 DEF HistInv, HistoryDurable
    <3>2. CASE diskFailed' = TRUE BY <3>2
    <3> QED BY <1>4, <3>1, <3>2
  <2> QED BY <2>1, <2>3, <2>4, <2>5 DEF HistInv, HistoryDurable
<1> QED BY <1>1, <1>3, <1>4 DEF Add

\* Moving the selection keeps the preview in step with it.
LEMMA MoveInv ==
    ASSUME Types, MenuInv, menuActive, NEW d \in {-1, 1}, moveMenu(d), walk' # "shown"
    PROVE  /\ MenuInv'
           /\ input' \in Line /\ typed' \in Line /\ menuHead' \in Line /\ menuOrig' \in Line
           /\ menuActive' \in BOOLEAN /\ menuIdx' \in Nat /\ menuCands' \in Seq(Line)
<1>1. PICK len \in Nat : len = Len(menuCands) /\ len > 1 /\ menuIdx \in 0 .. len - 1
  BY DEF Types, MenuInv
<1>2. (menuIdx + d + len) % len \in 0 .. len - 1 BY <1>1
<1>3. PICK k \in 0 .. len - 1 : menuIdx' = k BY <1>1, <1>2 DEF moveMenu
<1>4. menuCands[k + 1] \in Line /\ menuHead \in Line BY <1>1, <1>3 DEF Types
<1>5. input' = menuHead \o menuCands[k + 1] BY <1>3 DEF moveMenu
<1>6. input' \in Line BY <1>4, <1>5 DEF Line
<1>7. UNCHANGED <<menuActive, menuCands, menuHead, menuOrig, typed>> BY DEF moveMenu
<1>8. MenuInv' BY <1>1, <1>3, <1>5, <1>7 DEF MenuInv
<1> QED BY <1>3, <1>6, <1>7, <1>8 DEF Types

\* Opening the menu previews the first candidate and remembers the line.
LEMMA OpenInv ==
    ASSUME Types, MenuInv, ~menuActive, openMenu, Len(Complete(input)) > 1, walk' # "shown"
    PROVE  /\ MenuInv'
           /\ input' \in Line /\ typed' \in Line /\ menuHead' \in Line /\ menuOrig' \in Line
           /\ menuActive' \in BOOLEAN /\ menuIdx' \in Nat /\ menuCands' \in Seq(Line)
<1> DEFINE head == SubSeq(input, 1, Len(input) - Len(CurrentWord(input)))
<1>1. input \in Line /\ typed = input BY DEF Types, MenuInv
<1>2. head \in Line /\ input = head \o CurrentWord(input) BY <1>1, WordSplit
<1>3. PICK cands \in Seq(Line) :
         cands = Complete(input) /\ \A n \in DOMAIN cands : IsPrefix(CurrentWord(input), cands[n])
  BY <1>1, CompleteType
<1>4. /\ menuOrig' = input /\ menuHead' = head /\ menuCands' = cands /\ menuIdx' = 0
      /\ menuActive' = TRUE /\ input' = head \o cands[1] /\ typed' = typed
  BY <1>3 DEF openMenu
<1> HIDE DEF head
<1>5. Len(cands) \in Nat /\ Len(cands) > 1 /\ cands[1] \in Line BY <1>3
<1>6. input' \in Line BY <1>2, <1>4, <1>5 DEF Line
<1>7. 0 \in 0 .. Len(cands) - 1 /\ cands[0 + 1] = cands[1] BY <1>5
<1>8. MenuInv' BY <1>1, <1>2, <1>3, <1>4, <1>5, <1>7 DEF MenuInv
<1> QED BY <1>1, <1>2, <1>3, <1>4, <1>6, <1>8

\* A single candidate replaces the current word, and the menu stays closed.
LEMMA InsertInv ==
    ASSUME Types, MenuInv, ~menuActive, insertOnly, Len(Complete(input)) = 1
    PROVE  /\ MenuInv'
           /\ input' \in Line /\ typed' \in Line /\ menuHead' \in Line /\ menuOrig' \in Line
           /\ menuActive' \in BOOLEAN /\ menuIdx' \in Nat /\ menuCands' \in Seq(Line)
<1> DEFINE head == SubSeq(input, 1, Len(input) - Len(CurrentWord(input)))
<1>1. input \in Line BY DEF Types
<1>2. head \in Line BY <1>1, WordSplit
<1>3. Complete(input) \in Seq(Line) BY <1>1, CompleteType
<1>4. /\ menuOrig' = input /\ menuHead' = head
      /\ input' = head \o Complete(input)[1] \o <<" ">>
      /\ typed' = input' /\ UNCHANGED <<menuActive, menuIdx, menuCands>>
  BY DEF insertOnly
<1> HIDE DEF head
<1>5. /\ Complete(input)[1] \in Line /\ <<" ">> \in Line
      /\ head \o Complete(input)[1] \in Line
  <2>1. PICK c \in Line : Complete(input)[1] = c BY <1>3
  <2>2. PICK b \in Chars : b = " " BY Zenon DEF Chars
  <2>3. <<b>> \in Line BY DEF Line
  <2>4. head \o c \in Line BY <1>2 DEF Line
  <2> QED BY <2>1, <2>2, <2>3, <2>4, Zenon
<1>6. input' \in Line
  <2>1. (head \o Complete(input)[1]) \o <<" ">> \in Seq(Chars)
    BY <1>5, ConcatProperties DEF Line
  <2> QED BY <1>4, <2>1 DEF Line
<1>7. MenuInv' BY <1>4 DEF MenuInv
<1> QED BY <1>1, <1>2, <1>4, <1>6, <1>7 DEF Types

-----------------------------------------------------------------------------
(* The invariant is preserved by every action *)

\* A pressed key leaves the queue.
LEMMA PressedType ==
    ASSUME Types, NEW k, Pressed(k) PROVE pc = "loop" /\ queue' \in Seq(Keys)
BY DEF Types, Pressed

\* complete, as Tab and Shift-Tab call it, keeps the menu consistent.
LEMMA CompleteInv ==
    ASSUME Types, MenuInv, NEW d \in {-1, 1}, complete(d), Touched
    PROVE  /\ MenuInv'
           /\ input' \in Line /\ typed' \in Line /\ menuHead' \in Line /\ menuOrig' \in Line
           /\ menuActive' \in BOOLEAN /\ menuIdx' \in Nat /\ menuCands' \in Seq(Line)
<1>0. walk' # "shown" BY DEF Touched, Types
<1>1. CASE menuActive
  <2>1. moveMenu(d) BY <1>1 DEF complete
  <2> QED BY <1>0, <1>1, <2>1, MoveInv
<1>2. CASE ~menuActive
  <2>1. Len(Complete(input)) \in Nat
    <3>1. Complete(input) \in Seq(Line) BY CompleteType DEF Types
    <3> QED BY <3>1
  <2>2. CASE Len(Complete(input)) = 0
    <3>1. UNCHANGED <<input, menu, typed>> BY <1>2, <2>2 DEF complete
    <3> QED BY <1>2, <3>1 DEF Types, MenuInv, menu
  <2>3. CASE Len(Complete(input)) = 1
    <3>1. insertOnly BY <1>2, <2>3 DEF complete
    <3> QED BY <1>2, <2>3, <3>1, InsertInv
  <2>4. CASE Len(Complete(input)) > 1
    <3>1. openMenu BY <1>2, <2>4 DEF complete
    <3> QED BY <1>0, <1>2, <2>4, <3>1, OpenInv
  <2>5. PICK n \in Nat : n = Len(Complete(input)) BY <2>1
  <2>6. n = 0 \/ n = 1 \/ n > 1 OBVIOUS
  <2> QED BY <2>2, <2>3, <2>4, <2>5, <2>6, Zenon
<1> QED BY <1>1, <1>2

\* Every step preserves the invariant.
LEMMA StepInv == IInv /\ [Next]_vars => IInv'
<1> SUFFICES ASSUME IInv, [Next]_vars PROVE IInv' OBVIOUS
<1>0. Types /\ MenuInv /\ HistInv /\ RecallInStep BY DEF IInv
<1>1. ASSUME UNCHANGED vars PROVE IInv'
  BY <1>1 DEF vars, menu, hist, out, IInv, Types, MenuInv, HistInv, HistoryDurable, RecallInStep
<1>2. ASSUME Quit PROVE IInv'
  <2>1. queue' \in Seq(Keys) BY <1>0, <1>2, PressedType DEF Quit
  <2>2. UNCHANGED <<input, menu, hist, out, typed, walk>> /\ pc' = "quit" BY <1>2 DEF Quit
  <2> QED BY <1>0, <2>1, <2>2
       DEF menu, hist, out, IInv, Types, MenuInv, HistInv, HistoryDurable, RecallInStep
<1>3. ASSUME Tab PROVE IInv'
  <2>1. PICK d \in {-1, 1} : complete(d) BY <1>3 DEF Tab
  <2>2. queue' \in Seq(Keys) BY <1>0, <1>3, PressedType DEF Tab
  <2>3. Touched /\ UNCHANGED <<pc, hist, out>> BY <1>3 DEF Tab
  <2>4. walk' \in {"none", "edited"} /\ (walk' = "none" => walk = "none")
    BY <1>0, <2>3 DEF Touched, Types
  <2>5. /\ MenuInv'
        /\ input' \in Line /\ typed' \in Line /\ menuHead' \in Line /\ menuOrig' \in Line
        /\ menuActive' \in BOOLEAN /\ menuIdx' \in Nat /\ menuCands' \in Seq(Line)
    BY <1>0, <2>1, <2>3, CompleteInv
  <2>6. Types' BY <1>0, <2>2, <2>3, <2>4, <2>5 DEF Types, hist, out
  <2>7. HistInv' BY <1>0, <2>3 DEF hist, HistInv, HistoryDurable
  <2>8. RecallInStep' BY <1>0, <2>3, <2>4 DEF hist, RecallInStep
  <2> QED BY <2>5, <2>6, <2>7, <2>8 DEF IInv
<1>4. ASSUME Esc PROVE IInv'
  <2>1. queue' \in Seq(Keys) BY <1>0, <1>4, PressedType DEF Esc
  <2>2. /\ input' = IF menuActive THEN menuOrig ELSE input
        /\ ~menuActive' /\ menuActive' \in BOOLEAN /\ menuCands' = <<>> /\ typed' = input'
        /\ UNCHANGED <<pc, menuIdx, menuHead, menuOrig, hist, out, walk>>
    BY <1>4 DEF Esc, closeMenu
  <2>3. input' \in Line BY <1>0, <2>2 DEF Types
  <2>4. Types' BY <1>0, <2>1, <2>2, <2>3 DEF Types, hist, out
  <2>5. MenuInv' BY <2>2 DEF MenuInv
  <2>6. HistInv' BY <1>0, <2>2 DEF hist, HistInv, HistoryDurable
  <2>7. RecallInStep' BY <1>0, <2>2 DEF hist, RecallInStep, MenuInv
  <2> QED BY <2>4, <2>5, <2>6, <2>7 DEF IInv
<1>5. ASSUME Arrow PROVE IInv'
  <2>1. PICK d \in {-1, 1} :
           IF menuActive THEN moveMenu(d) /\ UNCHANGED <<hist, walk>>
                         ELSE historyRecall(d) /\ UNCHANGED menu
    BY <1>5 DEF Arrow
  <2>2. queue' \in Seq(Keys) /\ UNCHANGED <<pc, out>>
    BY <1>0, <1>5, PressedType DEF Arrow
  <2>3. CASE menuActive
    <3>1. moveMenu(d) /\ UNCHANGED <<hist, walk>> /\ walk' # "shown"
      BY <1>0, <2>1, <2>3 DEF MenuInv
    <3>2. /\ MenuInv'
          /\ input' \in Line /\ typed' \in Line /\ menuHead' \in Line /\ menuOrig' \in Line
          /\ menuActive' \in BOOLEAN /\ menuIdx' \in Nat /\ menuCands' \in Seq(Line)
      BY <1>0, <2>3, <3>1, MoveInv
    <3>3. Types' BY <1>0, <2>2, <3>1, <3>2 DEF Types, hist, out
    <3>4. HistInv' BY <1>0, <3>1 DEF hist, HistInv, HistoryDurable
    <3>5. RecallInStep' BY <1>0, <3>1 DEF hist, RecallInStep
    <3> QED BY <3>2, <3>3, <3>4, <3>5 DEF IInv
  <2>4. CASE ~menuActive
    <3>1. historyRecall(d) /\ UNCHANGED menu /\ UNCHANGED <<lines, file, diskFailed>>
      BY <2>1, <2>4 DEF historyRecall
    <3>2. /\ lines \in Seq(Line) /\ Len(lines) \in Nat /\ histIdx \in 0 .. Len(lines)
          /\ input \in Line /\ <<>> \in Line
      BY <1>0 DEF Types, Line
    <3>3. typed' = input' BY <3>1 DEF historyRecall
    <3>4. /\ input' \in Line /\ histIdx' \in 0 .. Len(lines) /\ walk' \in {"none", "shown", "edited"}
          /\ RecallInStep'
      <4>1. CASE histIdx + d < 0
        <5>1. UNCHANGED <<histIdx, input, walk>> BY <3>1, <4>1 DEF historyRecall
        <5> QED BY <1>0, <3>1, <3>2, <5>1 DEF RecallInStep, Types
      <4>2. CASE ~(histIdx + d < 0) /\ histIdx + d >= Len(lines)
        <5>1. histIdx' = Len(lines) /\ input' = <<>> /\ walk' = "shown"
          BY <3>1, <4>2 DEF historyRecall
        <5> QED BY <3>1, <3>2, <5>1 DEF RecallInStep
      <4>3. CASE ~(histIdx + d < 0) /\ ~(histIdx + d >= Len(lines))
        <5>1. PICK k \in 0 .. Len(lines) - 1 : k = histIdx + d BY <3>2, <4>3
        <5>2. histIdx' = k /\ input' = lines[k + 1] /\ walk' = "shown"
          BY <3>1, <4>3, <5>1 DEF historyRecall
        <5>3. lines[k + 1] \in Line /\ k # Len(lines) BY <3>2, <5>1
        <5> QED BY <3>1, <3>2, <5>1, <5>2, <5>3 DEF RecallInStep
      <4> QED BY <4>1, <4>2, <4>3
    <3>5. Types' BY <1>0, <2>2, <3>1, <3>3, <3>4 DEF Types, menu, out
    <3>6. MenuInv' BY <2>4, <3>1, <3>3 DEF MenuInv, menu
    <3>7. HistInv' BY <1>0, <3>1 DEF HistInv, HistoryDurable
    <3> QED BY <3>4, <3>5, <3>6, <3>7 DEF IInv
  <2> QED BY <2>3, <2>4
<1>6. ASSUME Enter PROVE IInv'
  <2>1. queue' \in Seq(Keys) BY <1>0, <1>6, PressedType DEF Enter
  <2>2. /\ ~menuActive' /\ menuActive' \in BOOLEAN /\ menuCands' = <<>>
        /\ input' = <<>> /\ typed' = <<>> /\ UNCHANGED <<menuIdx, menuHead, menuOrig>>
    BY <1>6 DEF Enter, closeMenu
  <2>3. <<>> \in Line /\ <<>> \in Seq(Line) BY DEF Line
  <2>4. MenuInv' BY <2>2 DEF MenuInv
  <2>5. CASE input = <<>>
    <3>1. Touched /\ UNCHANGED <<pc, hist, out>> BY <1>6, <2>5 DEF Enter
    <3>2. walk' \in {"none", "edited"} /\ (walk' = "none" => walk = "none")
      BY <1>0, <3>1 DEF Touched, Types
    <3>3. Types' BY <1>0, <2>1, <2>2, <2>3, <3>1, <3>2 DEF Types, hist, out
    <3>4. HistInv' BY <1>0, <3>1 DEF hist, HistInv, HistoryDurable
    <3>5. RecallInStep' BY <1>0, <3>1, <3>2 DEF hist, RecallInStep
    <3> QED BY <2>4, <3>3, <3>4, <3>5 DEF IInv
  <2>6. CASE input # <<>>
    <3>1. Add(input) /\ histIdx' = Len(lines') /\ walk' = "none" /\ log(1) /\ pc' = "running"
      BY <1>6, <2>6 DEF Enter
    <3>2. lines' \in Seq(Line) /\ file' \in Seq(Line) /\ HistInv'
      <4>1. input \in Line BY <1>0 DEF Types
      <4> QED BY <1>0, <3>1, <4>1, AddInv
    <3>3. console' \in Seq(Int) /\ logged' \in Nat /\ Len(console') <= ConsoleMax
      BY <1>0, <3>1, LogType
    <3>4. histIdx' \in 0 .. Len(lines')
      <4>1. Len(lines') \in Nat BY <3>2
      <4> QED BY <3>1, <4>1
    <3>5. Types' BY <1>0, <2>1, <2>2, <2>3, <3>1, <3>2, <3>3, <3>4 DEF Types
    <3>6. RecallInStep' BY <3>1 DEF RecallInStep
    <3> QED BY <2>4, <3>2, <3>5, <3>6 DEF IInv
  <2> QED BY <2>5, <2>6
<1>7. ASSUME Edit PROVE IInv'
  <2>1. queue' \in Seq(Keys) BY <1>0, <1>7, PressedType DEF Edit
  <2>2. /\ ~menuActive' /\ menuActive' \in BOOLEAN /\ menuCands' = <<>> /\ typed' = input'
        /\ Touched /\ UNCHANGED <<pc, menuIdx, menuHead, menuOrig, hist, out>>
    BY <1>7 DEF Edit, closeMenu
  <2>3. input' \in Line
    <3>0. input \in Seq(Chars) BY <1>0 DEF Types, Line
    <3>1. CASE input' = input BY <3>0, <3>1 DEF Line
    <3>2. CASE input # <<>> /\ input' = Front(input) BY <3>0, <3>2 DEF Line, Front
    <3>3. ASSUME NEW l \in Letters, input' = Append(input, l) PROVE input' \in Line
      <4>1. l \in Chars BY Zenon DEF Chars
      <4> QED BY <3>0, <3>3, <4>1 DEF Line
    <3> QED BY <1>7, <3>1, <3>2, <3>3 DEF Edit
  <2>4. walk' \in {"none", "edited"} /\ (walk' = "none" => walk = "none")
    BY <1>0, <2>2 DEF Touched, Types
  <2>5. <<>> \in Seq(Line) OBVIOUS
  <2>6. Types' BY <1>0, <2>1, <2>2, <2>3, <2>4, <2>5 DEF Types, hist, out
  <2>7. MenuInv' BY <2>2 DEF MenuInv
  <2>8. HistInv' BY <1>0, <2>2 DEF hist, HistInv, HistoryDurable
  <2>9. RecallInStep' BY <1>0, <2>2, <2>4 DEF hist, RecallInStep
  <2> QED BY <2>6, <2>7, <2>8, <2>9 DEF IInv
<1>8. ASSUME CommandEnds PROVE IInv'
  <2>1. PICK n \in 0 .. MaxOutput : log(n) BY <1>8 DEF CommandEnds
  <2>2. pc' = "loop" /\ UNCHANGED <<queue, input, menu, hist, typed, walk>>
    BY <1>8 DEF CommandEnds
  <2>3. console' \in Seq(Int) /\ logged' \in Nat /\ Len(console') <= ConsoleMax
    BY <1>0, <2>1, LogType, TuiAssumption
  <2>4. Types' BY <1>0, <2>2, <2>3 DEF Types, menu, hist
  <2>5. MenuInv' BY <1>0, <2>2 DEF MenuInv, menu
  <2>6. HistInv' BY <1>0, <2>2 DEF hist, HistInv, HistoryDurable
  <2>7. RecallInStep' BY <1>0, <2>2 DEF hist, RecallInStep
  <2> QED BY <2>4, <2>5, <2>6, <2>7 DEF IInv
<1>9. ASSUME TypeKey PROVE IInv'
  <2>1. queue' \in Seq(Keys) BY <1>0, <1>9 DEF TypeKey, Types
  <2>2. UNCHANGED <<pc, input, menu, hist, out, typed, walk>> BY <1>9 DEF TypeKey
  <2> QED BY <1>0, <2>1, <2>2
       DEF menu, hist, out, IInv, Types, MenuInv, HistInv, HistoryDurable, RecallInStep
<1>10. ASSUME CtxDone PROVE IInv'
  <2>1. pc' = "quit" /\ UNCHANGED <<queue, input, menu, hist, out, typed, walk>>
    BY <1>10 DEF CtxDone
  <2> QED BY <1>0, <2>1
       DEF menu, hist, out, IInv, Types, MenuInv, HistInv, HistoryDurable, RecallInStep
<1>11. ASSUME Restart PROVE IInv'
  <2>1. /\ pc' = "loop" /\ queue' = <<>> /\ input' = <<>> /\ typed' = <<>> /\ walk' = "none"
        /\ ~menuActive' /\ menuActive' \in BOOLEAN /\ menuCands' = <<>>
        /\ menuIdx' = 0 /\ menuHead' = <<>> /\ menuOrig' = <<>>
        /\ histIdx' = Len(lines') /\ console' = <<>> /\ logged' = 0
        /\ UNCHANGED <<file, diskFailed>>
    BY <1>11 DEF Restart, closeMenu
  <2>2. lines' = file
    <3>1. lines' = Kept(file, Range(file) \ {<<>>}) BY <1>11 DEF Restart
    <3>2. file \in Seq(Line) BY <1>0 DEF Types
    <3>3. \A n \in DOMAIN file : file[n] \in Range(file) \ {<<>>} BY <1>0 DEF HistInv, Range
    <3> QED BY <3>1, <3>2, <3>3, KeptAll
  <2>3. <<>> \in Line /\ <<>> \in Seq(Line) /\ <<>> \in Seq(Int) /\ <<>> \in Seq(Keys)
        /\ Len(<<>>) = 0 /\ 0 <= ConsoleMax
    BY TuiAssumption DEF Line
  <2>4. Len(file) \in Nat /\ file \in Seq(Line) BY <1>0 DEF Types
  <2>5. histIdx' \in 0 .. Len(lines') BY <2>1, <2>2, <2>4
  <2>6. Types' BY <2>1, <2>2, <2>3, <2>4, <2>5, Zenon DEF Types
  <2>7. MenuInv' BY <2>1 DEF MenuInv
  <2>8. HistInv' BY <1>0, <2>1, <2>2 DEF HistInv, HistoryDurable
  <2>9. RecallInStep' BY <2>1 DEF RecallInStep
  <2> QED BY <2>6, <2>7, <2>8, <2>9 DEF IInv
<1> QED BY <1>1, <1>2, <1>3, <1>4, <1>5, <1>6, <1>7, <1>8, <1>9, <1>10, <1>11 DEF Next, Handle

\* IInv holds in every reachable state.
THEOREM Invariance == Spec => []IInv
BY InitInv, StepInv, PTL DEF Spec

-----------------------------------------------------------------------------
(* The properties *)

\* The variables keep their types, the recall cursor stays an entry or just past
\* the newest one, and the scrollback its bound.
THEOREM TypeCorrect == Spec => []TypeOK
<1>1. IInv => TypeOK BY DEF IInv, Types, TypeOK
<1> QED BY <1>1, Invariance, PTL

\* With the menu open the line shows the highlighted candidate in place of the
\* word that was typed, whatever the grammar.
THEOREM PreviewIsSelection == Spec => []MenuPreview
<1>1. IInv => MenuPreview
  <2> SUFFICES ASSUME IInv, menuActive PROVE MenuPreview BY DEF MenuPreview
  <2>1. PICK len \in Nat : len = Len(menuCands) /\ DOMAIN menuCands = 1 .. len
    BY DEF IInv, Types
  <2>2. /\ len > 1 /\ menuIdx \in 0 .. len - 1
        /\ input = menuHead \o menuCands[menuIdx + 1]
        /\ typed = menuHead \o CurrentWord(typed)
        /\ \A n \in 1 .. len : IsPrefix(CurrentWord(typed), menuCands[n])
    BY <2>1 DEF IInv, MenuInv
  <2>3. menuIdx + 1 \in 1 .. len BY <2>2
  <2> QED BY <2>1, <2>2, <2>3 DEF MenuPreview
<1> QED BY <1>1, Invariance, PTL

\* Memory and file hold the same lines as long as the disk does, none blank and
\* none twice in a row, across any number of restarts.
THEOREM HistoryIsDurable == Spec => []HistoryDurable
<1>1. IInv => HistoryDurable BY DEF IInv, HistInv
<1> QED BY <1>1, Invariance, PTL

\* The recall cursor and the line keep in step.
THEOREM RecallKeepsStep == Spec => []RecallInStep
<1>1. IInv => RecallInStep BY DEF IInv
<1> QED BY <1>1, Invariance, PTL

\* Escape with the menu open puts back the line as typed.
THEOREM EscapeRestores == Spec => EscRestores
<1>1. ASSUME IInv, [Next]_vars, Pressed(Key("esc")), menuActive
      PROVE  input' = typed /\ ~menuActive'
  <2>1. /\ pc = "loop" /\ queue \in Seq(Keys) /\ queue # <<>> /\ Head(queue) = Key("esc")
        /\ queue' = Tail(queue)
    BY <1>1 DEF Pressed, IInv, Types
  <2>2. Len(queue') # Len(queue) /\ queue' # queue /\ \A k \in Keys : queue' # Append(queue, k)
    BY <2>1
  <2>3. ASSUME NEW n, Key(n) = Key("esc") PROVE n = "esc"
    <3>1. Key(n).name = Key("esc").name BY <2>3
    <3> QED BY <3>1 DEF Key
  <2>4. ASSUME NEW l PROVE TextKey(l) # Key("esc")
    <3>1. TextKey(l).name # Key("esc").name BY DEF TextKey, Key
    <3> QED BY <3>1
  <2>5. ~(UNCHANGED vars) BY <2>2 DEF vars
  <2>6. ~Quit BY <2>1, <2>3 DEF Quit, Pressed
  <2>7. ~Tab BY <2>1, <2>3 DEF Tab, Pressed
  <2>8. ~Arrow BY <2>1, <2>3 DEF Arrow, Pressed
  <2>9. ~Enter BY <2>1, <2>3 DEF Enter, Pressed
  <2>10. ~Edit BY <2>1, <2>3, <2>4 DEF Edit, Pressed
  <2>11. ~CommandEnds /\ ~Restart BY <2>1 DEF CommandEnds, Restart
  <2>12. ~TypeKey BY <2>2 DEF TypeKey
  <2>13. ~CtxDone BY <2>2 DEF CtxDone
  <2>14. Esc
    BY <1>1, <2>5, <2>6, <2>7, <2>8, <2>9, <2>10, <2>11, <2>12, <2>13 DEF Next, Handle
  <2> QED BY <1>1, <2>14 DEF Esc, closeMenu, IInv, MenuInv
<1>2. IInv /\ [Next]_vars => [Pressed(Key("esc")) /\ menuActive => input' = typed /\ ~menuActive']_vars
  BY <1>1
<1> QED BY <1>2, Invariance, PTL DEF Spec, EscRestores

\* drawMenu shows at least one row and one column of candidates.
LEMMA MenuRoom ==
    ASSUME IInv, menuActive, NEW w \in Widths, NEW h \in Heights, NEW described \in BOOLEAN
    PROVE  Cols(w, described) \in Nat \ {0} /\ Rows(w, h, described) \in Nat \ {0}
<1>1. w \in Nat /\ w - 2 >= 1 /\ h \in Nat /\ h - 4 >= 1 BY TuiAssumption
<1>2. PICK len \in Nat : len = Len(menuCands) /\ len > 1 BY DEF IInv, Types, MenuInv
<1>3. PICK mx \in Nat : mx = Max({Len(menuCands[n]) : n \in DOMAIN menuCands})
  <2>1. menuCands \in Seq(Seq(Chars)) /\ Len(menuCands) > 0
    BY <1>2 DEF IInv, Types, Line
  <2> QED BY <2>1, MaxLenIn
<1>4. PICK cell \in Nat \ {0} : cell = CellWidth(w) /\ cell <= w - 2
  <2>1. CellWidth(w) = MinOf(w - 2, 2 + mx) BY <1>3 DEF CellWidth
  <2>2. MinOf(w - 2, 2 + mx) \in Nat \ {0} /\ MinOf(w - 2, 2 + mx) <= w - 2 BY <1>1 DEF MinOf
  <2> QED BY <2>1, <2>2
<1>5. (w - 2) \div cell \in Int BY <1>1, <1>4
<1>6. PICK cols \in Nat \ {0} : cols = Cols(w, described)
  BY <1>4, <1>5 DEF Cols
<1>7. (len + cols - 1) \div cols \in Int /\ (len + cols - 1) \div cols >= 1
  BY <1>2, <1>6
<1>8. Rows(w, h, described) = MinOf((len + cols - 1) \div cols, MinOf(h - 4, 12))
  BY <1>2, <1>6 DEF Rows
<1>9. Rows(w, h, described) \in Nat \ {0} BY <1>1, <1>7, <1>8 DEF MinOf
<1> QED BY <1>6, <1>9

\* The highlighted candidate is one of the rows that drawMenu shows, on every
\* terminal with room for a row.
THEOREM SelectionIsVisible == Spec => []SelectionVisible
<1>1. ASSUME IInv PROVE SelectionVisible
  <2> SUFFICES ASSUME menuActive, NEW w \in Widths, NEW h \in Heights,
                      NEW described \in BOOLEAN
               PROVE  SelectedRow(w, described) - FirstRow(w, h, described)
                          \in 0 .. Rows(w, h, described) - 1
    BY DEF SelectionVisible
  <2>1. PICK cols \in Nat \ {0}, rows \in Nat \ {0} :
           cols = Cols(w, described) /\ rows = Rows(w, h, described)
    BY <1>1, MenuRoom
  <2>2. menuIdx \in Nat BY <1>1 DEF IInv, Types
  <2>3. menuIdx \div cols \in Nat BY <2>1, <2>2
  <2>4. PICK sel \in Nat : sel = SelectedRow(w, described) BY <2>1, <2>3 DEF SelectedRow
  <2>5. FirstRow(w, h, described) = IF sel >= rows THEN sel - rows + 1 ELSE 0
    BY <2>1, <2>4 DEF FirstRow
  <2> QED BY <2>1, <2>4, <2>5
<1> QED BY <1>1, Invariance, PTL

=============================================================================
