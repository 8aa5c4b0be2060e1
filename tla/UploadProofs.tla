---------------------------- MODULE UploadProofs -----------------------------
(***************************************************************************)
(* TLAPS proofs about what is uploaded: the profiles of Upload, for every  *)
(* list of ports and every set of files, snapshots and profiles, and the   *)
(* checksum_sweep instruction of ChecksumSweep, for every word width.      *)
(***************************************************************************)
EXTENDS Upload, ChecksumSweep, SequenceTheorems, FiniteSetTheorems, WellFoundedInduction, TLAPS

-----------------------------------------------------------------------------
(* The checksum sweep *)

SweepInv == SweepTypeOK /\ LockStep

\* Before the instruction is built the invariant says nothing but the types.
LEMMA SweepInitInv == SweepInit => SweepInv
BY SweepAssumption DEF SweepInit, SweepInv, SweepTypeOK, LockStep, NewFlowVar, FlowVar, Packet, Word

\* Building the instruction gives both variables built.csum values, and a packet
\* steps both or wraps both.
LEMMA SweepStepInv == SweepInv /\ [SweepNext]_sweepVars => SweepInv'
<1> SUFFICES ASSUME SweepInv, [SweepNext]_sweepVars PROVE SweepInv'
  OBVIOUS
<1> USE SweepAssumption DEF SweepInv, SweepTypeOK, LockStep, FlowVar, Packet, Word
<1>1. CASE BadOffset
  BY <1>1 DEF BadOffset
<1>2. CASE TooSmall
  BY <1>2 DEF TooSmall
<1>3. ASSUME NEW min \in Mins \cup {DefaultMin}, BuildSweep(min) PROVE SweepInv'
  <2>1. min \in Nat /\ built.csum \in Nat /\ built.csum >= 2
    BY <1>3 DEF BuildSweep
  <2>2. /\ sport' = [min |-> min, max |-> min + (built.csum - 1), value |-> min]
        /\ ocks' = [min |-> built.csum - (built.csum - 1), max |-> built.csum, value |-> built.csum]
        /\ sweep' = "built" /\ built' = built /\ lastSent' = lastSent
    BY <1>3 DEF BuildSweep, NewFlowVar
  <2>3. QED
    BY <2>1, <2>2
<1>4. CASE SendPacket
  <2> USE <1>4 DEF SendPacket, Inc, Dec
  <2>1. /\ sport.min \in Nat /\ sport.max \in Nat /\ sport.value \in Nat
        /\ ocks.min \in Nat /\ ocks.max \in Nat /\ ocks.value \in Nat
        /\ built.csum \in Nat /\ built.field \in Nat
    OBVIOUS
  <2>2. /\ built' = built /\ sweep' = "running"
        /\ lastSent' = [field |-> sport.value, csum |-> ocks.value]
        /\ sport' = [min |-> sport.min, max |-> sport.max,
                     value |-> IF sport.value >= sport.max THEN sport.min ELSE sport.value + 1]
        /\ ocks' = [min |-> ocks.min, max |-> ocks.max,
                    value |-> IF ocks.value <= ocks.min THEN ocks.max ELSE ocks.value - 1]
    OBVIOUS
  <2>3. sport.value >= sport.max <=> ocks.value <= ocks.min
    BY <2>1
  <2>4. CASE sport.value >= sport.max
    BY <2>1, <2>2, <2>3, <2>4
  <2>5. CASE ~ (sport.value >= sport.max)
    BY <2>1, <2>2, <2>3, <2>5
  <2>6. QED
    BY <2>4, <2>5
<1>5. CASE UNCHANGED sweepVars
  BY <1>5 DEF sweepVars
<1>6. QED
  BY <1>1, <1>2, <1>3, <1>4, <1>5 DEF SweepNext, buildChecksumSweep

\* The two variables of a built sweep stay the same number of steps from their
\* starts, within their bounds, for ever.
THEOREM SweepLockStep == SweepSpec => [](SweepTypeOK /\ LockStep)
BY SweepInitInv, SweepStepInv, PTL DEF SweepSpec, SweepInv

\* For words of every width: a sweep that starts at the value the built packet
\* holds keeps the one's-complement checksum of every packet right.
THEOREM SweepChecksumValid == SweepSpec => []AlignedChecksumValid
<1>1. SweepInv => AlignedChecksumValid
  <2> SUFFICES ASSUME SweepInv, sweep = "running", sport.min = built.field PROVE Valid(lastSent)
    BY DEF AlignedChecksumValid
  <2>1. lastSent.field + lastSent.csum = built.field + built.csum
    BY DEF SweepInv, LockStep
  <2>2. QED
    BY <2>1 DEF Valid
<1>2. QED
  BY <1>1, SweepInitInv, SweepStepInv, PTL DEF SweepSpec

\* For words of every width and every start: no packet of a sweep carries
\* checksum zero.
THEOREM SweepChecksumNeverZero == SweepSpec => []ChecksumNeverZero
<1>1. SweepInv => ChecksumNeverZero
  BY DEF SweepInv, SweepTypeOK, LockStep, ChecksumNeverZero, Packet, Word
<1>2. QED
  BY <1>1, SweepInitInv, SweepStepInv, PTL DEF SweepSpec

-----------------------------------------------------------------------------
(* Induction and recursion *)

\* A set of natural numbers has a least member.
LEMMA LeastNumber ==
    ASSUME NEW T, T \subseteq Nat, T # {} PROVE \E x \in T : \A y \in T : x <= y
<1>1. IsWellFoundedOn(OpToRel(<, Nat), Nat) BY NatLessThanWellFounded
<1>2. PICK x \in T : \A y \in T : ~(<<y, x>> \in OpToRel(<, Nat)) BY <1>1, WFMin
<1>3. \A y \in T : ~(y < x) BY <1>2 DEF OpToRel
<1> QED BY <1>3

\* A set that has 0 and the successor of each of its members has every number
\* up to m.
LEMMA Induct ==
    ASSUME NEW m \in Nat, NEW T, 0 \in T,
           \A n \in 1 .. m : n - 1 \in T => n \in T
    PROVE  \A n \in 0 .. m : n \in T
<1> DEFINE U == {n \in Nat : n <= m /\ n \notin T}
<1> SUFFICES ASSUME U # {} PROVE FALSE OBVIOUS
<1>1. PICK x \in U : \A y \in U : x <= y BY LeastNumber
<1>2. x \in 1 .. m /\ x \notin T BY <1>1
<1>3. x - 1 \in Nat /\ x - 1 <= m /\ ~(x <= x - 1) BY <1>2
<1>4. x - 1 \in T BY <1>1, <1>3
<1> QED BY <1>2, <1>4

\* A function in V that starts at base and goes on by the steps.
Solves(f, V, m, base, step) ==
    /\ f \in [0 .. m -> V] /\ f[0] = base
    /\ \A n \in 1 .. m : f[n] = step[n][f[n - 1]]

\* A recursion from a member of V by steps within V has a solution in V.
LEMMA Recursion ==
    ASSUME NEW V, NEW m \in Nat, NEW base \in V, NEW step \in [1 .. m -> [V -> V]]
    PROVE  \E f : Solves(f, V, m, base, step)
<1> DEFINE T == {q \in 0 .. m : \E f : Solves(f, V, q, base, step)}
<1>1. 0 \in T
  <2>1. Solves([n \in 0 .. 0 |-> base], V, 0, base, step) BY DEF Solves
  <2> QED BY <2>1
<1>2. ASSUME NEW q \in 1 .. m, q - 1 \in T PROVE q \in T
  <2>1. PICK g : Solves(g, V, q - 1, base, step) BY <1>2
  <2> DEFINE f == [n \in 0 .. q |-> IF n = q THEN step[q][g[q - 1]] ELSE g[n]]
  <2>2. q - 1 \in 0 .. q - 1 /\ g[q - 1] \in V /\ step[q] \in [V -> V] BY <2>1 DEF Solves
  <2>3. step[q][g[q - 1]] \in V BY <2>2
  <2>4. f \in [0 .. q -> V]
    <3>1. ASSUME NEW n \in 0 .. q PROVE (IF n = q THEN step[q][g[q - 1]] ELSE g[n]) \in V
      <4>1. n = q \/ n \in 0 .. q - 1 OBVIOUS
      <4> QED BY <2>1, <2>3, <4>1 DEF Solves
    <3> QED BY <3>1
  <2>5. \A n \in 0 .. q - 1 : n # q /\ n \in 0 .. q /\ f[n] = g[n] OBVIOUS
  <2>6. f[q] = step[q][g[q - 1]] OBVIOUS
  <2> HIDE DEF f
  <2>7. f[0] = base BY <2>1, <2>5 DEF Solves
  <2>8. ASSUME NEW n \in 1 .. q PROVE f[n] = step[n][f[n - 1]]
    <3>1. n - 1 \in 0 .. q - 1 OBVIOUS
    <3>2. f[n - 1] = g[n - 1] BY <2>5, <3>1
    <3>3. CASE n = q BY <2>6, <3>2, <3>3
    <3>4. CASE n # q
      <4>1. n \in 1 .. q - 1 /\ n \in 0 .. q - 1 BY <3>4
      <4> QED BY <2>1, <2>5, <3>2, <4>1 DEF Solves
    <3> QED BY <3>3, <3>4
  <2>9. Solves(f, V, q, base, step) BY <2>4, <2>7, <2>8 DEF Solves
  <2> QED BY <2>9
<1> HIDE DEF T
<1>3. m \in 0 .. m OBVIOUS
<1>4. m \in T BY <1>1, <1>2, <1>3, Induct
<1> QED BY <1>4 DEF T

-----------------------------------------------------------------------------
(* Kept and Total *)

\* The recursion of Kept.
IsKept(f, s, keep) ==
    f = [n \in 0 .. Len(s) |->
           IF n = 0 THEN <<>>
           ELSE IF s[n] \in keep THEN Append(f[n - 1], s[n]) ELSE f[n - 1]]

\* Kept is the last value of a function that satisfies it.
LEMMA KeptDef ==
    ASSUME NEW S, NEW s \in Seq(S), NEW keep
    PROVE  \E f : /\ f[0] = <<>>
                  /\ \A n \in 1 .. Len(s) :
                        f[n] = IF s[n] \in keep THEN Append(f[n - 1], s[n]) ELSE f[n - 1]
                  /\ Kept(s, keep) = f[Len(s)]
<1>1. PICK m \in Nat : m = Len(s) /\ \A n \in 1 .. m : s[n] \in S OBVIOUS
<1> DEFINE step == [n \in 1 .. m |-> [v \in Seq(S) |->
                      IF s[n] \in keep THEN Append(v, s[n]) ELSE v]]
<1>2. \A n \in 1 .. m : \A v \in Seq(S) :
          /\ step[n][v] = IF s[n] \in keep THEN Append(v, s[n]) ELSE v
          /\ Append(v, s[n]) \in Seq(S)
  BY <1>1
<1>3. step \in [1 .. m -> [Seq(S) -> Seq(S)]] BY <1>2
<1>4. <<>> \in Seq(S) OBVIOUS
<1> HIDE DEF step
<1>5. PICK g \in [0 .. m -> Seq(S)] : g[0] = <<>> /\ \A n \in 1 .. m : g[n] = step[n][g[n - 1]]
  <2> DEFINE V == Seq(S)
             base == <<>>
  <2>1. m \in Nat /\ base \in V /\ step \in [1 .. m -> [V -> V]] BY <1>1, <1>3, <1>4
  <2> HIDE DEF V, base
  <2>2. PICK g : Solves(g, V, m, base, step) BY <2>1, Recursion
  <2> QED BY <2>2 DEF V, base, Solves
<1>6. ASSUME NEW n \in 0 .. m
      PROVE  g[n] = IF n = 0 THEN <<>>
                    ELSE IF s[n] \in keep THEN Append(g[n - 1], s[n]) ELSE g[n - 1]
  <2>1. CASE n = 0 BY <1>5, <2>1
  <2>2. CASE n # 0
    <3>1. n \in 1 .. m /\ n - 1 \in 0 .. m BY <2>2
    <3>2. g[n - 1] \in Seq(S) BY <1>5, <3>1
    <3> QED BY <1>2, <1>5, <2>2, <3>1, <3>2
  <2> QED BY <2>1, <2>2
<1>7. IsKept(g, s, keep) BY <1>1, <1>6 DEF IsKept
<1> DEFINE c == CHOOSE f : IsKept(f, s, keep)
<1>8. IsKept(c, s, keep) BY <1>7
<1>9. Kept(s, keep) = c[Len(s)] BY DEF Kept, IsKept
<1> HIDE DEF c
<1>10. \A n \in 0 .. m : c[n] = IF n = 0 THEN <<>>
                    ELSE IF s[n] \in keep THEN Append(c[n - 1], s[n]) ELSE c[n - 1]
  BY <1>1, <1>8 DEF IsKept
<1> QED BY <1>1, <1>9, <1>10

\* Kept returns entries of s that are in keep.
LEMMA KeptType ==
    ASSUME NEW S, NEW s \in Seq(S), NEW keep
    PROVE  Kept(s, keep) \in Seq(S \cap keep)
<1>1. PICK m \in Nat : m = Len(s) /\ \A n \in 1 .. m : s[n] \in S OBVIOUS
<1>2. PICK f : /\ f[0] = <<>>
               /\ \A n \in 1 .. m : f[n] = IF s[n] \in keep THEN Append(f[n - 1], s[n]) ELSE f[n - 1]
               /\ Kept(s, keep) = f[m]
  BY <1>1, KeptDef
<1> DEFINE T == {n \in 0 .. m : f[n] \in Seq(S \cap keep)}
<1>3. 0 \in T
  <2>1. <<>> \in Seq(S \cap keep) OBVIOUS
  <2>2. f[0] \in Seq(S \cap keep) BY <1>2, <2>1, Zenon
  <2>3. 0 \in 0 .. m BY <1>1
  <2> QED BY <2>2, <2>3
<1>4. ASSUME NEW n \in 1 .. m, n - 1 \in T PROVE n \in T
  <2>1. CASE s[n] \in keep
    <3>1. s[n] \in S \cap keep /\ f[n - 1] \in Seq(S \cap keep) BY <1>1, <1>4, <2>1
    <3>2. Append(f[n - 1], s[n]) \in Seq(S \cap keep) BY <3>1, AppendProperties
    <3>3. f[n] = Append(f[n - 1], s[n]) BY <1>2, <2>1
    <3>4. f[n] \in Seq(S \cap keep) BY <3>2, <3>3, Zenon
    <3> QED BY <1>1, <3>4
  <2>2. CASE s[n] \notin keep BY <1>2, <1>4, <2>2
  <2> QED BY <2>1, <2>2
<1> HIDE DEF T
<1>5. \A n \in 0 .. m : n \in T BY <1>1, <1>3, <1>4, Induct
<1> QED BY <1>1, <1>2, <1>5 DEF T

\* Kept drops nothing of a sequence all of whose entries are to be kept.
LEMMA KeptAll ==
    ASSUME NEW S, NEW s \in Seq(S), NEW keep, \A n \in DOMAIN s : s[n] \in keep
    PROVE  Kept(s, keep) = s
<1>1. PICK m \in Nat : m = Len(s) /\ DOMAIN s = 1 .. m /\ \A n \in 1 .. m : s[n] \in S OBVIOUS
<1>2. PICK f : /\ f[0] = <<>>
               /\ \A n \in 1 .. m : f[n] = IF s[n] \in keep THEN Append(f[n - 1], s[n]) ELSE f[n - 1]
               /\ Kept(s, keep) = f[m]
  BY <1>1, KeptDef
<1> DEFINE T == {n \in 0 .. m : f[n] = SubSeq(s, 1, n)}
<1>3. 0 \in T
  <2>1. SubSeq(s, 1, 0) = <<>> BY SubSeqEmpty
  <2>2. f[0] = SubSeq(s, 1, 0) BY <1>2, <2>1, Zenon
  <2>3. 0 \in 0 .. m BY <1>1
  <2> QED BY <2>2, <2>3
<1>4. ASSUME NEW n \in 1 .. m, n - 1 \in T PROVE n \in T
  <2>1. f[n] = Append(SubSeq(s, 1, n - 1), s[n]) BY <1>1, <1>2, <1>4
  <2>2. SubSeq(s, 1, n - 1) \in Seq(S)
    <3>1. n - 1 \in Int /\ \A i \in 1 .. n - 1 : s[i] \in S BY <1>1
    <3> QED BY <3>1, SubSeqProperties
  <2>3. SubSeq(s, 1, n) = SubSeq(s, 1, n - 1) \o <<s[n]>>
    <3>1. 1 \in 1 .. m BY <1>4
    <3> QED BY <1>1, <3>1, SubSeqRecursiveSecond
  <2>4. Append(SubSeq(s, 1, n - 1), s[n]) = SubSeq(s, 1, n - 1) \o <<s[n]>>
    BY <1>1, <2>2, AppendIsConcat
  <2> QED BY <2>1, <2>3, <2>4
<1> HIDE DEF T
<1>5. \A n \in 0 .. m : n \in T BY <1>1, <1>3, <1>4, Induct
<1> QED BY <1>1, <1>2, <1>5, SubSeqFull DEF T

\* The recursion of Total.
IsTotal(f, s) == f = [n \in 0 .. Len(s) |-> IF n = 0 THEN 0 ELSE f[n - 1] + s[n]]

\* The running sums that end in Total.
LEMMA TotalDef ==
    ASSUME NEW s \in Seq(Int)
    PROVE  \E f \in [0 .. Len(s) -> Int] :
              /\ f[0] = 0 /\ \A n \in 1 .. Len(s) : f[n] = f[n - 1] + s[n]
              /\ Total(s) = f[Len(s)]
<1>1. PICK m \in Nat : m = Len(s) /\ \A n \in 1 .. m : s[n] \in Int OBVIOUS
<1> DEFINE step == [n \in 1 .. m |-> [v \in Int |-> v + s[n]]]
<1>2. \A n \in 1 .. m : \A v \in Int : step[n][v] = v + s[n] /\ v + s[n] \in Int BY <1>1
<1>3. step \in [1 .. m -> [Int -> Int]] BY <1>2
<1> HIDE DEF step
<1>4. PICK g \in [0 .. m -> Int] : g[0] = 0 /\ \A n \in 1 .. m : g[n] = step[n][g[n - 1]]
  <2> DEFINE V == Int
             base == 0
  <2>1. m \in Nat /\ base \in V /\ step \in [1 .. m -> [V -> V]] BY <1>1, <1>3
  <2> HIDE DEF V, base
  <2>2. PICK g : Solves(g, V, m, base, step) BY <2>1, Recursion
  <2> QED BY <2>2 DEF V, base, Solves
<1>5. ASSUME NEW n \in 0 .. m PROVE g[n] = IF n = 0 THEN 0 ELSE g[n - 1] + s[n]
  <2>1. CASE n = 0 BY <1>4, <2>1
  <2>2. CASE n # 0
    <3>1. n \in 1 .. m /\ n - 1 \in 0 .. m BY <2>2
    <3>2. g[n - 1] \in Int BY <1>4, <3>1
    <3> QED BY <1>2, <1>4, <2>2, <3>1, <3>2
  <2> QED BY <2>1, <2>2
<1>6. IsTotal(g, s) BY <1>1, <1>5 DEF IsTotal
<1> DEFINE c == CHOOSE f : IsTotal(f, s)
<1>7. IsTotal(c, s) BY <1>6
<1>8. Total(s) = c[Len(s)] BY DEF Total, IsTotal
<1> HIDE DEF c
<1>9. /\ c = [n \in 0 .. m |-> c[n]] /\ c[0] = 0
      /\ \A n \in 1 .. m : c[n] = c[n - 1] + s[n]
  <2>1. c = [n \in 0 .. m |-> IF n = 0 THEN 0 ELSE c[n - 1] + s[n]] BY <1>1, <1>7 DEF IsTotal
  <2>2. \A n \in 0 .. m : c[n] = IF n = 0 THEN 0 ELSE c[n - 1] + s[n] BY <2>1
  <2>3. c = [n \in 0 .. m |-> c[n]] BY <2>1, Zenon
  <2>4. c[0] = 0 BY <1>1, <2>2
  <2>5. \A n \in 1 .. m : c[n] = c[n - 1] + s[n] BY <1>1, <2>2
  <2> QED BY <2>3, <2>4, <2>5, Zenon
<1> DEFINE T == {n \in 0 .. m : c[n] \in Int}
<1>10. 0 \in T BY <1>1, <1>9
<1>11. ASSUME NEW n \in 1 .. m, n - 1 \in T PROVE n \in T
  <2>1. c[n] = c[n - 1] + s[n] /\ c[n - 1] \in Int /\ s[n] \in Int BY <1>1, <1>9, <1>11
  <2> QED BY <2>1
<1> HIDE DEF T
<1>12. \A n \in 0 .. m : n \in T BY <1>1, <1>10, <1>11, Induct
<1>13. c \in [0 .. m -> Int] BY <1>9, <1>12 DEF T
<1> QED BY <1>1, <1>8, <1>9, <1>13

-----------------------------------------------------------------------------
(* The ids that Resolve allocates *)

\* Among one more numbers than there are ids in use, one is free.
LEMMA FirstFreeIn ==
    ASSUME NEW a \in Nat, NEW used \in SUBSET Nat, IsFiniteSet(used)
    PROVE  FirstFree(a, used) \in Nat /\ FirstFree(a, used) \notin used
<1>1. PICK c \in Nat : c = Cardinality(used) BY FS_CardinalityType
<1> DEFINE I == a + 1 .. a + 1 + c
           F == I \ used
<1>2. F # {}
  <2> SUFFICES ASSUME I \subseteq used PROVE FALSE OBVIOUS
  <2>1. Cardinality(I) <= Cardinality(used) BY FS_Subset
  <2>2. a + 1 \in Int /\ a + 1 + c \in Int BY <1>1
  <2>3. Cardinality(I) = IF a + 1 > a + 1 + c THEN 0 ELSE (a + 1 + c) - (a + 1) + 1
    BY <2>2, FS_Interval
  <2> QED BY <1>1, <2>1, <2>3
<1>3. F \subseteq Nat BY <1>1
<1>4. PICK m \in F : \A y \in F : m <= y BY <1>2, <1>3, LeastNumber
<1>5. ASSUME NEW q \in a + 1 .. m - 1 PROVE q \in used
  <2>1. m \in Nat /\ m <= a + 1 + c BY <1>1, <1>4
  <2>2. q \in I /\ ~(m <= q) BY <1>1, <2>1
  <2> QED BY <1>4, <2>2
<1>6. \E x \in I : x \notin used /\ \A q \in a + 1 .. x - 1 : q \in used BY <1>4, <1>5
<1>7. FirstFree(a, used) \in I /\ FirstFree(a, used) \notin used BY <1>1, <1>6 DEF FirstFree
<1> QED BY <1>1, <1>7

\* What the allocation keeps after n streams: n different ids, and the set of them.
Accs ==
    {a \in [ids : Seq(Nat), used : SUBSET Nat, nextAuto : Nat] :
        /\ IsFiniteSet(a.used)
        /\ \A i \in DOMAIN a.ids : a.ids[i] \in a.used
        /\ \A i, j \in DOMAIN a.ids : i # j => a.ids[i] # a.ids[j]}

Forceable(id) == id \in Nat \cup {None}

\* Allocate adds an id that no stream before has, a forced one or not.
LEMMA AllocateIn ==
    ASSUME NEW a \in Accs, NEW s, Forceable(s.id)
    PROVE  Allocate(a, s) \in Accs /\ Len(Allocate(a, s).ids) = Len(a.ids) + 1
<1>1. PICK ids \in Seq(Nat), used \in SUBSET Nat, next \in Nat :
          a = [ids |-> ids, used |-> used, nextAuto |-> next]
  BY DEF Accs
<1>2. /\ a.ids = ids /\ a.used = used /\ a.nextAuto = next /\ IsFiniteSet(used)
      /\ \A i \in DOMAIN ids : ids[i] \in used
      /\ \A i, j \in DOMAIN ids : i # j => ids[i] # ids[j]
  BY <1>1 DEF Accs
<1> DEFINE want == IF s.id # None THEN s.id ELSE next
           id == IF want \in used THEN FirstFree(next, used) ELSE want
           new == Append(ids, id)
<1>3. id \in Nat /\ id \notin used
  <2>1. want \in Nat BY <1>1 DEF Forceable
  <2>2. FirstFree(next, used) \in Nat /\ FirstFree(next, used) \notin used
    BY <1>1, <1>2, FirstFreeIn
  <2> HIDE DEF want
  <2> QED BY <2>1, <2>2
<1>4. Allocate(a, s) = [ids |-> new, used |-> used \cup {id}, nextAuto |-> id + 1]
  BY <1>2 DEF Allocate
<1> HIDE DEF id
<1>5. PICK len \in Nat : len = Len(ids) /\ DOMAIN ids = 1 .. len BY <1>1
<1>6. /\ new \in Seq(Nat) /\ Len(new) = len + 1 /\ DOMAIN new = 1 .. len + 1
      /\ \A i \in 1 .. len : new[i] = ids[i]
      /\ new[len + 1] = id
  BY <1>1, <1>3, <1>5, AppendProperties
<1> HIDE DEF new
<1>7. IsFiniteSet(used \cup {id}) BY <1>2, FS_AddElement
<1>8. \A i \in DOMAIN new : new[i] \in used \cup {id}
  <2>1. \A i \in 1 .. len + 1 : i \in 1 .. len \/ i = len + 1 BY <1>5
  <2> QED BY <1>2, <1>5, <1>6, <2>1
<1>9. ASSUME NEW i \in DOMAIN new, NEW j \in DOMAIN new, i # j PROVE new[i] # new[j]
  <2>1. (i \in 1 .. len \/ i = len + 1) /\ (j \in 1 .. len \/ j = len + 1) BY <1>5, <1>6
  <2>2. CASE i = len + 1
    <3>1. j \in 1 .. len BY <2>1, <2>2, <1>9
    <3> QED BY <1>2, <1>3, <1>5, <1>6, <2>2, <3>1
  <2>3. CASE i \in 1 .. len
    <3>1. CASE j \in 1 .. len BY <1>2, <1>5, <1>6, <1>9, <2>3, <3>1
    <3>2. CASE j = len + 1 BY <1>2, <1>3, <1>5, <1>6, <2>3, <3>2
    <3> QED BY <2>1, <3>1, <3>2
  <2> QED BY <2>1, <2>2, <2>3
<1>10. used \cup {id} \in SUBSET Nat /\ id + 1 \in Nat BY <1>1, <1>3
<1> DEFINE b == [ids |-> new, used |-> used \cup {id}, nextAuto |-> id + 1]
<1>11. b \in [ids : Seq(Nat), used : SUBSET Nat, nextAuto : Nat] /\ b.ids = new
       /\ b.used = used \cup {id}
  BY <1>6, <1>10
<1> HIDE DEF b
<1>12. b \in Accs BY <1>7, <1>8, <1>9, <1>11, Zenon DEF Accs
<1>13. Allocate(a, s) = b BY <1>4 DEF b
<1> QED BY <1>2, <1>5, <1>6, <1>11, <1>12, <1>13

NoAcc == [ids |-> <<>>, used |-> {}, nextAuto |-> 0]

\* The recursion of Ids.
IsAcc(f, p) == f = [n \in 0 .. Len(p) |-> IF n = 0 THEN NoAcc ELSE Allocate(f[n - 1], p[n])]

\* It starts in Accs.
LEMMA NoAccIn == NoAcc \in Accs
<1>1. <<>> \in Seq(Nat) /\ {} \in SUBSET Nat /\ 0 \in Nat OBVIOUS
<1>2. NoAcc \in [ids : Seq(Nat), used : SUBSET Nat, nextAuto : Nat] BY <1>1 DEF NoAcc
<1>3. IsFiniteSet({}) BY FS_EmptySet
<1>4. NoAcc.used = {} /\ DOMAIN NoAcc.ids = {} BY DEF NoAcc
<1> QED BY <1>2, <1>3, <1>4 DEF Accs

\* Ids is what the recursion has in the end, and it stays in Accs.
LEMMA IdsDef ==
    ASSUME NEW S, NEW p \in Seq(S), \A n \in DOMAIN p : Forceable(p[n].id)
    PROVE  \E f : /\ f[0] = NoAcc /\ \A n \in 0 .. Len(p) : f[n] \in Accs
                  /\ \A n \in 1 .. Len(p) : f[n] = Allocate(f[n - 1], p[n])
                  /\ Ids(p) = f[Len(p)].ids
<1>1. PICK m \in Nat : m = Len(p) /\ DOMAIN p = 1 .. m OBVIOUS
<1> DEFINE step == [n \in 1 .. m |-> [v \in Accs |-> Allocate(v, p[n])]]
<1>2. \A n \in 1 .. m : \A v \in Accs : Allocate(v, p[n]) \in Accs BY <1>1, AllocateIn
<1>3. step \in [1 .. m -> [Accs -> Accs]] BY <1>2
<1>4. \A n \in 1 .. m : \A v \in Accs : step[n][v] = Allocate(v, p[n]) OBVIOUS
<1> HIDE DEF step
<1>5. PICK g : Solves(g, Accs, m, NoAcc, step) BY <1>1, <1>3, NoAccIn, Recursion
<1>6. ASSUME NEW n \in 0 .. m PROVE g[n] = IF n = 0 THEN NoAcc ELSE Allocate(g[n - 1], p[n])
  <2>1. CASE n = 0 BY <1>5, <2>1 DEF Solves
  <2>2. CASE n # 0
    <3>1. n \in 1 .. m /\ n - 1 \in 0 .. m BY <1>1, <2>2
    <3>2. g[n - 1] \in Accs BY <1>5, <3>1 DEF Solves
    <3> QED BY <1>4, <1>5, <2>2, <3>1, <3>2 DEF Solves
  <2> QED BY <2>1, <2>2
<1>7. IsAcc(g, p) BY <1>1, <1>5, <1>6 DEF IsAcc, Solves
<1> DEFINE c == CHOOSE f : IsAcc(f, p)
<1>8. IsAcc(c, p) BY <1>7
<1>9. Ids(p) = c[Len(p)].ids BY DEF Ids, IsAcc, NoAcc
<1> HIDE DEF c
<1>10. \A n \in 0 .. m : c[n] = IF n = 0 THEN NoAcc ELSE Allocate(c[n - 1], p[n])
  BY <1>1, <1>8 DEF IsAcc
<1>11. c[0] = NoAcc /\ \A n \in 1 .. m : c[n] = Allocate(c[n - 1], p[n]) BY <1>1, <1>10
<1> DEFINE T == {n \in 0 .. m : c[n] \in Accs}
<1>12. 0 \in T BY <1>1, <1>11, NoAccIn
<1>13. ASSUME NEW n \in 1 .. m, n - 1 \in T PROVE n \in T BY <1>1, <1>2, <1>11, <1>13
<1> HIDE DEF T
<1>14. \A n \in 0 .. m : n \in T BY <1>1, <1>12, <1>13, Induct
<1>15. \A n \in 0 .. m : c[n] \in Accs BY <1>14 DEF T
<1> QED BY <1>1, <1>9, <1>11, <1>15

\* The streams of a profile get natural numbers for ids, all different.
LEMMA IdsDistinct ==
    ASSUME NEW S, NEW p \in Seq(S), \A n \in DOMAIN p : Forceable(p[n].id)
    PROVE  /\ Ids(p) \in Seq(Nat) /\ Len(Ids(p)) = Len(p)
           /\ \A i, j \in DOMAIN p : i # j => Ids(p)[i] # Ids(p)[j]
<1>1. PICK m \in Nat : m = Len(p) /\ DOMAIN p = 1 .. m OBVIOUS
<1>2. PICK f : /\ f[0] = NoAcc /\ \A n \in 0 .. m : f[n] \in Accs
               /\ \A n \in 1 .. m : f[n] = Allocate(f[n - 1], p[n])
               /\ Ids(p) = f[m].ids
  BY <1>1, IdsDef
<1> DEFINE T == {n \in 0 .. m : Len(f[n].ids) = n}
<1>3. 0 \in T
  <2>1. Len(NoAcc.ids) = 0 BY DEF NoAcc
  <2> QED BY <1>1, <1>2, <2>1
<1>4. ASSUME NEW n \in 1 .. m, n - 1 \in T PROVE n \in T
  <2>1. n - 1 \in 0 .. m /\ f[n - 1] \in Accs /\ Forceable(p[n].id) BY <1>1, <1>2
  <2>2. Len(Allocate(f[n - 1], p[n]).ids) = Len(f[n - 1].ids) + 1 BY <2>1, AllocateIn
  <2> QED BY <1>1, <1>2, <1>4, <2>2
<1> HIDE DEF T
<1>5. \A n \in 0 .. m : n \in T BY <1>1, <1>3, <1>4, Induct
<1>6. m \in 0 .. m BY <1>1
<1>7. Len(f[m].ids) = m /\ f[m] \in Accs BY <1>2, <1>5, <1>6 DEF T
<1>8. f[m].ids \in Seq(Nat) /\ \A i, j \in DOMAIN f[m].ids : i # j => f[m].ids[i] # f[m].ids[j]
  BY <1>7 DEF Accs
<1> QED BY <1>1, <1>2, <1>7, <1>8

\* Without forced ids they are 0, 1, 2 and so on.
LEMMA IdsInOrder ==
    ASSUME NEW S, NEW p \in Seq(S), \A n \in DOMAIN p : p[n].id = None
    PROVE  \A i \in DOMAIN p : Ids(p)[i] = i - 1
<1>1. PICK m \in Nat : m = Len(p) /\ DOMAIN p = 1 .. m OBVIOUS
<1>2. PICK f : /\ f[0] = NoAcc /\ \A n \in 0 .. m : f[n] \in Accs
               /\ \A n \in 1 .. m : f[n] = Allocate(f[n - 1], p[n])
               /\ Ids(p) = f[m].ids
  <2>1. \A n \in DOMAIN p : Forceable(p[n].id) BY DEF Forceable
  <2> QED BY <1>1, <2>1, IdsDef
<1> DEFINE upto(n) == [ids |-> [i \in 1 .. n |-> i - 1], used |-> 0 .. n - 1, nextAuto |-> n]
           T == {n \in 0 .. m : f[n] = upto(n)}
<1>3. 0 \in T
  <2>1. [i \in 1 .. 0 |-> i - 1] = <<>> /\ 0 .. 0 - 1 = {} OBVIOUS
  <2>2. upto(0) = NoAcc BY <2>1 DEF NoAcc
  <2>3. 0 \in 0 .. m BY <1>1
  <2> HIDE DEF upto
  <2> QED BY <1>2, <2>2, <2>3
<1>4. ASSUME NEW n \in 1 .. m, n - 1 \in T PROVE n \in T
  <2>1. f[n - 1] = upto(n - 1) /\ p[n].id = None /\ None \notin Nat BY <1>1, <1>4 DEF None
  <2>2. n - 1 \in Nat /\ n - 1 \notin 0 .. (n - 1) - 1 /\ n - 1 + 1 = n BY <1>1
  <2>3. Append([i \in 1 .. n - 1 |-> i - 1], n - 1) = [i \in 1 .. n |-> i - 1]
    <3> DEFINE old == [i \in 1 .. n - 1 |-> i - 1]
    <3>1. old \in Seq(Int) /\ Len(old) = n - 1 /\ \A i \in 1 .. n - 1 : old[i] = i - 1 BY <2>2
    <3> HIDE DEF old
    <3>2. Len(Append(old, n - 1)) = n BY <2>2, <3>1
    <3>3. \A i \in 1 .. n : Append(old, n - 1)[i] = i - 1 BY <2>2, <3>1
    <3>4. Append(old, n - 1) \in Seq(Int) BY <2>2, <3>1
    <3>5. Append(old, n - 1) = [i \in 1 .. n |-> i - 1] BY <1>1, <3>2, <3>3, <3>4
    <3> QED BY <3>5 DEF old
  <2>4. 0 .. (n - 1) - 1 \cup {n - 1} = 0 .. n - 1 BY <1>1
  <2>5. /\ upto(n - 1).ids = [i \in 1 .. n - 1 |-> i - 1]
        /\ upto(n - 1).used = 0 .. (n - 1) - 1 /\ upto(n - 1).nextAuto = n - 1
    OBVIOUS
  <2> HIDE DEF upto
  <2>6. Allocate(upto(n - 1), p[n]) = [ids |-> [i \in 1 .. n |-> i - 1], used |-> 0 .. n - 1, nextAuto |-> n]
    <3>1. Allocate(upto(n - 1), p[n]) =
            [ids |-> Append(upto(n - 1).ids, n - 1), used |-> upto(n - 1).used \cup {n - 1},
             nextAuto |-> n - 1 + 1]
      BY <2>1, <2>2, <2>5 DEF Allocate
    <3> QED BY <2>2, <2>3, <2>4, <2>5, <3>1
  <2>7. f[n] = upto(n) BY <1>2, <2>1, <2>6 DEF upto
  <2> QED BY <1>1, <2>7
<1> HIDE DEF T
<1>5. \A n \in 0 .. m : n \in T BY <1>1, <1>3, <1>4, Induct
<1>6. m \in 0 .. m BY <1>1
<1>7. f[m].ids = [i \in 1 .. m |-> i - 1]
  <2>1. f[m] = upto(m) BY <1>5, <1>6 DEF T
  <2> QED BY <2>1
<1> QED BY <1>1, <1>2, <1>7

-----------------------------------------------------------------------------
(* Profiles *)

\* A stream is a record of the fields of Stream; of their values only the id, the
\* group and the dummy flag matter to all that follows.
IsStream(s) ==
    /\ s = [name |-> s.name, next |-> s.next, id |-> s.id, dir |-> s.dir, pg |-> s.pg,
            dummy |-> s.dummy, self |-> s.self, isg |-> s.isg, mode |-> s.mode,
            packet |-> s.packet, vm |-> s.vm]
    /\ Forceable(s.id) /\ s.pg \in Nat \cup {None} /\ s.dummy \in BOOLEAN

IsProfile(p) == p \in Seq(ToSet(p)) /\ \A n \in DOMAIN p : IsStream(p[n])

\* A function on the numbers up to len is a sequence.
LEMMA FunctionIsSeq ==
    ASSUME NEW S, NEW len \in Nat, NEW q \in [1 .. len -> S]
    PROVE  q \in Seq(S) /\ q \in Seq(ToSet(q)) /\ DOMAIN q = 1 .. len /\ Len(q) = len
<1>1. DOMAIN q = 1 .. len /\ q \in Seq(S) /\ Len(q) = len OBVIOUS
<1>2. \A n \in 1 .. len : q[n] \in ToSet(q) BY <1>1 DEF ToSet
<1>3. q \in Seq(ToSet(q)) BY <1>1, <1>2
<1> QED BY <1>1, <1>3

\* Giving a stream a group changes nothing else.
LEMMA WithGroup ==
    ASSUME NEW s, IsStream(s), NEW g \in Nat
    PROVE  /\ IsStream([s EXCEPT !.pg = g])
           /\ [s EXCEPT !.pg = g] =
                [name |-> s.name, next |-> s.next, id |-> s.id, dir |-> s.dir, pg |-> g,
                 dummy |-> s.dummy, self |-> s.self, isg |-> s.isg, mode |-> s.mode,
                 packet |-> s.packet, vm |-> s.vm]
<1> DEFINE t == [name |-> s.name, next |-> s.next, id |-> s.id, dir |-> s.dir, pg |-> g,
                 dummy |-> s.dummy, self |-> s.self, isg |-> s.isg, mode |-> s.mode,
                 packet |-> s.packet, vm |-> s.vm]
<1>1. [s EXCEPT !.pg = g] = t
  <2>1. s = [name |-> s.name, next |-> s.next, id |-> s.id, dir |-> s.dir, pg |-> s.pg,
            dummy |-> s.dummy, self |-> s.self, isg |-> s.isg, mode |-> s.mode,
            packet |-> s.packet, vm |-> s.vm]
    BY DEF IsStream
  <2> QED BY <2>1
<1>2. /\ t.name = s.name /\ t.next = s.next /\ t.id = s.id /\ t.dir = s.dir /\ t.pg = g
      /\ t.dummy = s.dummy /\ t.self = s.self /\ t.isg = s.isg /\ t.mode = s.mode
      /\ t.packet = s.packet /\ t.vm = s.vm
  OBVIOUS
<1>3. IsStream(t) BY <1>2 DEF IsStream
<1> QED BY <1>1, <1>3

SameButGroup(s, t) ==
    /\ s.name = t.name /\ s.next = t.next /\ s.id = t.id /\ s.dir = t.dir /\ s.dummy = t.dummy
    /\ s.self = t.self /\ s.isg = t.isg /\ s.mode = t.mode /\ s.packet = t.packet /\ s.vm = t.vm

\* EnsureFlowStats gives every stream that lacks one a group of its own and
\* changes nothing else.
LEMMA Tagging ==
    ASSUME NEW p, IsProfile(p), NEW q, q = EnsureFlowStats(p, 1)
    PROVE  /\ IsProfile(q) /\ DOMAIN q = DOMAIN p /\ Len(q) = Len(p)
           /\ \A n \in DOMAIN p : SameButGroup(q[n], p[n]) /\ (q[n].dummy \/ q[n].pg # None)
           /\ \A m, n \in DOMAIN p :
                  m # n /\ q[m].pg # p[m].pg /\ q[n].pg # p[n].pg => q[m].pg # q[n].pg
<1>1. PICK len \in Nat : len = Len(p) /\ DOMAIN p = 1 .. len BY DEF IsProfile
<1> DEFINE lacks(n) == ~p[n].dummy /\ p[n].pg = None
           Lacking(n) == {m \in 1 .. n - 1 : lacks(m)}
           before(n) == Cardinality(Lacking(n))
<1>2. q = [n \in 1 .. len |-> IF lacks(n) THEN [p[n] EXCEPT !.pg = 1 + before(n)] ELSE p[n]]
  BY <1>1 DEF EnsureFlowStats
<1> HIDE DEF lacks
<1>3. ASSUME NEW n \in 1 .. len PROVE IsFiniteSet(Lacking(n)) /\ before(n) \in Nat
  <2>1. IsFiniteSet(1 .. n - 1) BY <1>1, FS_Interval
  <2>2. IsFiniteSet(Lacking(n)) BY <2>1, FS_Subset
  <2> QED BY <2>2, FS_CardinalityType
<1>4. ASSUME NEW m \in 1 .. len, NEW n \in 1 .. len, m < n, lacks(m) PROVE before(m) < before(n)
  <2>1. Lacking(m) \subseteq Lacking(n) BY <1>1, <1>4
  <2>2. m \in Lacking(n) /\ m \notin Lacking(m) BY <1>1, <1>4
  <2>3. Lacking(m) # Lacking(n) BY <2>2
  <2> HIDE DEF Lacking
  <2>4. before(m) <= before(n) /\ before(m) # before(n)
    <3>1. IsFiniteSet(Lacking(n)) BY <1>3
    <3> QED BY <2>1, <2>3, <3>1, FS_Subset
  <2> QED BY <1>3, <2>4
<1>5. \A n \in 1 .. len : before(n) \in Nat BY <1>3
<1>6. \A m, n \in 1 .. len : m < n /\ lacks(m) => before(m) < before(n) BY <1>4
<1> HIDE DEF before, Lacking
<1>7. ASSUME NEW n \in 1 .. len
      PROVE  /\ IsStream(q[n]) /\ SameButGroup(q[n], p[n])
             /\ q[n].pg = IF lacks(n) THEN 1 + before(n) ELSE p[n].pg
  <2>1. IsStream(p[n]) /\ 1 + before(n) \in Nat BY <1>1, <1>5 DEF IsProfile
  <2>2. CASE lacks(n)
    <3>1. q[n] = [p[n] EXCEPT !.pg = 1 + before(n)] BY <1>2, <2>2
    <3>2. /\ IsStream(q[n])
          /\ q[n] = [name |-> p[n].name, next |-> p[n].next, id |-> p[n].id, dir |-> p[n].dir,
                     pg |-> 1 + before(n), dummy |-> p[n].dummy, self |-> p[n].self,
                     isg |-> p[n].isg, mode |-> p[n].mode, packet |-> p[n].packet, vm |-> p[n].vm]
      BY <2>1, <3>1, WithGroup
    <3> QED BY <2>2, <3>2 DEF SameButGroup
  <2>3. CASE ~lacks(n)
    <3>1. q[n] = p[n] BY <1>2, <2>3
    <3> QED BY <2>1, <2>3, <3>1 DEF SameButGroup
  <2> QED BY <2>2, <2>3
<1>8. DOMAIN q = 1 .. len /\ q \in Seq(ToSet(q)) /\ Len(q) = len
  <2>1. q \in [1 .. len -> {q[n] : n \in 1 .. len}] BY <1>2
  <2> QED BY <1>1, <2>1, FunctionIsSeq
<1>9. ASSUME NEW n \in 1 .. len PROVE q[n].dummy \/ q[n].pg # None
  <2>1. q[n].dummy = p[n].dummy BY <1>7 DEF SameButGroup
  <2>2. CASE lacks(n) BY <1>5, <1>7, <2>2 DEF None
  <2>3. CASE ~lacks(n)
    <3>1. p[n].dummy \/ p[n].pg # None BY <2>3 DEF lacks
    <3> QED BY <1>7, <2>1, <2>3, <3>1
  <2> QED BY <2>2, <2>3
<1>10. ASSUME NEW m \in 1 .. len, NEW n \in 1 .. len, m # n,
             q[m].pg # p[m].pg, q[n].pg # p[n].pg
      PROVE  q[m].pg # q[n].pg
  <2>1. lacks(m) /\ lacks(n) BY <1>7, <1>10
  <2>2. before(m) # before(n)
    <3>1. m < n \/ n < m BY <1>1, <1>10
    <3> QED BY <1>5, <1>6, <2>1, <3>1
  <2> QED BY <1>5, <1>7, <2>1, <2>2
<1> QED BY <1>1, <1>7, <1>8, <1>9, <1>10 DEF IsProfile

\* The streams of a port are a profile; a profile without directions is the same
\* on every port.
LEMMA ForPortProfile ==
    ASSUME NEW p, IsProfile(p), NEW port
    PROVE  IsProfile(ForPort(p, port)) /\ \A n \in DOMAIN ForPort(p, port) : ForPort(p, port)[n] \in ToSet(p)
<1> DEFINE keep == {s \in ToSet(p) : s.dir \in {None, port % 2}}
<1>1. p \in Seq(ToSet(p)) /\ ForPort(p, port) = Kept(p, keep) BY DEF IsProfile, ForPort
<1>2. PICK q \in Seq(ToSet(p) \cap keep) : q = ForPort(p, port) BY <1>1, KeptType
<1> HIDE DEF keep
<1>3. \A n \in DOMAIN q : q[n] \in ToSet(p) BY <1>2
<1>4. q \in Seq(ToSet(q)) BY <1>2 DEF ToSet
<1>5. \A s \in ToSet(p) : IsStream(s) BY DEF IsProfile, ToSet
<1>6. IsProfile(q) BY <1>3, <1>4, <1>5 DEF IsProfile
<1> QED BY <1>2, <1>3, <1>6

\* No stream of a profile without directions is left out.
LEMMA ForPortAll ==
    ASSUME NEW p, IsProfile(p), NEW port, \A n \in DOMAIN p : p[n].dir = None
    PROVE  ForPort(p, port) = p
<1> DEFINE keep == {s \in ToSet(p) : s.dir \in {None, port % 2}}
<1>1. p \in Seq(ToSet(p)) /\ ForPort(p, port) = Kept(p, keep) BY DEF IsProfile, ForPort
<1>2. \A n \in DOMAIN p : p[n] \in keep BY DEF ToSet
<1> HIDE DEF keep
<1> QED BY <1>1, <1>2, KeptAll

\* A stream on the wire, and how it goes back to the stream of the profile.
IsWire(w) ==
    w = [id |-> w.id, name |-> w.name, next |-> w.next, nextId |-> w.nextId, pg |-> w.pg,
         dummy |-> w.dummy, self |-> w.self, isg |-> w.isg, mode |-> w.mode,
         packet |-> w.packet, vm |-> w.vm]

Carries(w, s) ==
    /\ w.name = s.name /\ w.next = s.next /\ w.pg = s.pg /\ w.dummy = s.dummy
    /\ w.self = s.self /\ w.isg = s.isg /\ w.mode = s.mode /\ w.packet = s.packet /\ w.vm = s.vm

\* Resolve: one wire stream per stream, with an id of its own and the id of a
\* stream that has the name it refers to.
LEMMA Resolved ==
    ASSUME NEW p, IsProfile(p), Resolvable(p), NEW w, w = Resolve(p)
    PROVE  /\ w \in Seq(ToSet(w)) /\ DOMAIN w = DOMAIN p /\ Len(w) = Len(p)
           /\ \A n \in DOMAIN p : IsWire(w[n]) /\ Carries(w[n], p[n])
           /\ \A n \in DOMAIN p : w[n].id \in Nat /\ w[n].id = Ids(p)[n]
           /\ \A m, n \in DOMAIN p : m # n => w[m].id # w[n].id
           /\ \A n \in DOMAIN p : p[n].next = NoName => w[n].nextId = -1
           /\ \A n \in DOMAIN p : p[n].next # NoName =>
                  \E m \in DOMAIN p : p[m].name = p[n].next /\ w[n].nextId = w[m].id
<1>1. PICK len \in Nat : len = Len(p) /\ DOMAIN p = 1 .. len BY DEF IsProfile
<1>2. PICK ids \in Seq(Nat) : /\ ids = Ids(p) /\ Len(ids) = len
                              /\ \A i, j \in 1 .. len : i # j => ids[i] # ids[j]
  <2>1. p \in Seq(ToSet(p)) /\ \A n \in DOMAIN p : Forceable(p[n].id) BY DEF IsProfile, IsStream
  <2> QED BY <1>1, <2>1, IdsDistinct
<1> DEFINE target(n) == CHOOSE m \in 1 .. len : p[m].name = p[n].next
           nextId(n) == IF p[n].next = NoName THEN -1 ELSE ids[target(n)]
<1>3. w = [n \in 1 .. len |->
             [id |-> ids[n], name |-> p[n].name, next |-> p[n].next, nextId |-> nextId(n),
              pg |-> p[n].pg, dummy |-> p[n].dummy, self |-> p[n].self, isg |-> p[n].isg,
              mode |-> p[n].mode, packet |-> p[n].packet, vm |-> p[n].vm]]
  BY <1>1, <1>2 DEF Resolve
<1>4. ASSUME NEW n \in 1 .. len, p[n].next # NoName
      PROVE  target(n) \in 1 .. len /\ p[target(n)].name = p[n].next
  <2>1. \E m \in 1 .. len : p[m].name = p[n].next BY <1>1, <1>4 DEF Resolvable, Dangling
  <2> QED BY <2>1
<1> HIDE DEF target
<1>5. ASSUME NEW n \in 1 .. len
      PROVE  /\ IsWire(w[n]) /\ Carries(w[n], p[n]) /\ w[n].id = ids[n] /\ w[n].nextId = nextId(n)
  <2>1. w[n] = [id |-> ids[n], name |-> p[n].name, next |-> p[n].next, nextId |-> nextId(n),
              pg |-> p[n].pg, dummy |-> p[n].dummy, self |-> p[n].self, isg |-> p[n].isg,
              mode |-> p[n].mode, packet |-> p[n].packet, vm |-> p[n].vm]
    BY <1>3
  <2> HIDE DEF nextId
  <2> QED BY <2>1 DEF IsWire, Carries
<1>6. /\ w \in Seq(ToSet(w)) /\ DOMAIN w = 1 .. len /\ Len(w) = len
  <2>1. w \in [1 .. len -> {w[n] : n \in 1 .. len}] BY <1>3
  <2> QED BY <1>1, <2>1, FunctionIsSeq
<1>7. \A n \in 1 .. len : ids[n] \in Nat BY <1>2
<1>8. ASSUME NEW n \in DOMAIN p, p[n].next # NoName
      PROVE  \E m \in DOMAIN p : p[m].name = p[n].next /\ w[n].nextId = w[m].id
  <2>1. w[n].nextId = ids[target(n)] BY <1>1, <1>5, <1>8
  <2>2. target(n) \in DOMAIN p /\ p[target(n)].name = p[n].next BY <1>1, <1>4, <1>8
  <2>3. w[n].nextId = w[target(n)].id BY <1>1, <1>5, <2>1, <2>2
  <2> QED BY <2>2, <2>3
<1>9. \A n \in 1 .. len : p[n].next = NoName => w[n].nextId = -1 BY <1>5
<1>10. \A m, n \in 1 .. len : m # n => w[m].id # w[n].id BY <1>2, <1>5
<1> HIDE DEF nextId
<1>11. \A n \in 1 .. len : w[n].id \in Nat /\ w[n].id = Ids(p)[n] BY <1>2, <1>5, <1>7
<1>12. \A n \in DOMAIN p : p[n].next # NoName =>
          \E m \in DOMAIN p : p[m].name = p[n].next /\ w[n].nextId = w[m].id
  BY <1>8
<1>13. \A n \in DOMAIN p : IsWire(w[n]) /\ Carries(w[n], p[n]) BY <1>1, <1>5, Zenon
<1> QED BY <1>1, <1>6, <1>9, <1>10, <1>11, <1>12, <1>13, Zenon

\* Without forced ids, the id of a stream is its position and a reference is the
\* position of the stream named.
LEMMA ResolvedInOrder ==
    ASSUME NEW p, IsProfile(p), Resolvable(p), NEW w, w = Resolve(p),
           \A n \in DOMAIN p : p[n].id = None
    PROVE  /\ \A n \in DOMAIN p : w[n].id = n - 1
           /\ \A m, n \in DOMAIN p :
                  p[n].next # NoName /\ p[m].name = p[n].next => w[n].nextId = m - 1
<1>1. \A n \in DOMAIN p : w[n].id = n - 1
  <2>1. p \in Seq(ToSet(p)) BY DEF IsProfile
  <2>2. \A n \in DOMAIN p : Ids(p)[n] = n - 1 BY <2>1, IdsInOrder
  <2> QED BY <2>2, Resolved
<1>2. ASSUME NEW m \in DOMAIN p, NEW n \in DOMAIN p, p[n].next # NoName, p[m].name = p[n].next
      PROVE  w[n].nextId = m - 1
  <2>1. PICK j \in DOMAIN p : p[j].name = p[n].next /\ w[n].nextId = w[j].id BY <1>2, Resolved
  <2>2. j = m BY <1>2, <2>1 DEF Resolvable, DuplicateName
  <2> QED BY <1>1, <2>1, <2>2
<1> QED BY <1>1, <1>2

-----------------------------------------------------------------------------
(* FlattenSeq *)

\* The recursion of FlattenSeq.
IsFlat(f, q) == f = [i \in 1 .. Len(q) |-> IF i = 1 THEN q[i] ELSE f[i - 1] \o q[i]]

\* FlattenSeq is the last of the concatenations of the first n entries.
LEMMA FlattenDef ==
    ASSUME NEW S, NEW q \in Seq(Seq(S))
    PROVE  \E f : /\ f[0] = <<>> /\ \A n \in 0 .. Len(q) : f[n] \in Seq(S)
                  /\ \A n \in 1 .. Len(q) : f[n] = f[n - 1] \o q[n]
                  /\ FlattenSeq(q) = f[Len(q)]
<1>1. PICK m \in Nat : m = Len(q) /\ \A n \in 1 .. m : q[n] \in Seq(S) OBVIOUS
<1> DEFINE V == Seq(S)
           base == <<>>
           step == [n \in 1 .. m |-> [v \in V |-> v \o q[n]]]
<1>2. \A n \in 1 .. m : \A v \in V : v \o q[n] \in V BY <1>1
<1>3. base \in V OBVIOUS
<1> HIDE DEF V, base
<1>4. step \in [1 .. m -> [V -> V]] BY <1>2
<1>5. \A n \in 1 .. m : \A v \in V : step[n][v] = v \o q[n] OBVIOUS
<1> HIDE DEF step
<1>6. PICK g : Solves(g, V, m, base, step) BY <1>1, <1>3, <1>4, Recursion
<1>7. g[0] = <<>> /\ \A n \in 0 .. m : g[n] \in Seq(S) BY <1>6 DEF Solves, V, base
<1>8. ASSUME NEW n \in 1 .. m PROVE g[n] = g[n - 1] \o q[n]
  <2>1. n - 1 \in 0 .. m BY <1>1
  <2>2. g[n - 1] \in V BY <1>6, <2>1 DEF Solves
  <2>3. g[n] = step[n][g[n - 1]] BY <1>6 DEF Solves
  <2> QED BY <1>5, <2>2, <2>3
<1>9. CASE m = 0
  <2>1. q = <<>> BY <1>1, <1>9, EmptySeq
  <2>2. FlattenSeq(q) = g[0] BY <1>1, <1>7, <1>9, <2>1 DEF FlattenSeq
  <2> QED BY <1>1, <1>7, <1>8, <1>9, <2>2
<1>10. CASE m # 0
  <2> DEFINE h == [i \in 1 .. m |-> g[i]]
  <2>1. \A i \in 1 .. m : h[i] = g[i] OBVIOUS
  <2>2. ASSUME NEW i \in 1 .. m, i = 1 PROVE g[i] = q[i]
    <3>1. i - 1 = 0 /\ q[i] \in Seq(S) BY <1>1, <2>2
    <3>2. g[i] = <<>> \o q[i] BY <1>7, <1>8, <3>1
    <3> QED BY <3>1, <3>2
  <2>3. ASSUME NEW i \in 1 .. m PROVE h[i] = IF i = 1 THEN q[i] ELSE h[i - 1] \o q[i]
    <3>1. CASE i = 1 BY <2>1, <2>2, <3>1
    <3>2. CASE i # 1
      <4>1. i - 1 \in 1 .. m BY <1>1, <3>2
      <4> QED BY <1>8, <2>1, <3>2, <4>1
    <3> QED BY <3>1, <3>2
  <2>4. IsFlat(h, q) BY <1>1, <2>3 DEF IsFlat
  <2> HIDE DEF h
  <2> DEFINE c == CHOOSE f : IsFlat(f, q)
  <2>5. IsFlat(c, q) BY <2>4
  <2>6. FlattenSeq(q) = c[m] BY <1>1, <1>10 DEF FlattenSeq, IsFlat
  <2> HIDE DEF c
  <2>7. \A i \in 1 .. m : c[i] = IF i = 1 THEN q[i] ELSE c[i - 1] \o q[i] BY <1>1, <2>5 DEF IsFlat
  <2> DEFINE T == {n \in 0 .. m : n = 0 \/ c[n] = g[n]}
  <2>8. 0 \in T BY <1>1
  <2>9. ASSUME NEW n \in 1 .. m, n - 1 \in T PROVE n \in T
    <3>1. CASE n = 1
      <4>1. c[n] = q[n] /\ g[n] = q[n] BY <2>2, <2>7, <3>1
      <4> QED BY <1>1, <4>1
    <3>2. CASE n # 1
      <4>0. n - 1 # 0 BY <1>1, <3>2
      <4>1. c[n - 1] = g[n - 1] /\ c[n] = c[n - 1] \o q[n] BY <2>7, <2>9, <3>2, <4>0
      <4>2. c[n] = g[n] BY <1>8, <4>1
      <4> QED BY <1>1, <4>2
    <3> QED BY <3>1, <3>2
  <2> HIDE DEF T
  <2>10. \A n \in 0 .. m : n \in T BY <1>1, <2>8, <2>9, Induct
  <2>11. m \in 0 .. m /\ m # 0 BY <1>1, <1>10
  <2>12. FlattenSeq(q) = g[m] BY <2>6, <2>10, <2>11 DEF T
  <2> QED BY <1>1, <1>7, <1>8, <2>12
<1> QED BY <1>9, <1>10

\* What FlattenSeq returns are entries of entries.
LEMMA FlattenType ==
    ASSUME NEW S, NEW q \in Seq(Seq(S)) PROVE FlattenSeq(q) \in Seq(S)
<1>1. Len(q) \in 0 .. Len(q) OBVIOUS
<1> QED BY <1>1, FlattenDef

-----------------------------------------------------------------------------
(* What the loaders make *)

KnownModes == {"continuous", "single_burst", "multi_burst"}

\* A stream of a file forces no id and is no dummy, and its mode is one of the
\* three that exist.
FromFile(p) ==
    \A n \in DOMAIN p : p[n].id = None /\ p[n].dummy = FALSE /\ p[n].mode \in KnownModes

\* The chain of a capture: every stream starts the next, the first by itself.
Chained(p, pkts, opts) ==
    /\ Len(p) = Len(pkts)
    /\ \A i \in DOMAIN p :
        /\ p[i].name = PcapName(i) /\ p[i].self = (i = 1) /\ p[i].isg = gapBefore(pkts, i, opts)
        /\ p[i].next = IF i < Len(pkts) THEN PcapName(i + 1) ELSE NoName

NoDirections(p) == \A n \in DOMAIN p : p[n].dir = None

\* A profile of a program is one.
LEMMA ProfilesAreProfiles == ASSUME NEW p \in Profiles PROVE IsProfile(p)
<1>1. p \in Seq({s \in Stream : Unnamed(s.vm)}) BY UploadAssumption
<1>2. p \in Seq(Stream) BY <1>1
<1>3. PICK len \in Nat : p \in [1 .. len -> Stream] BY <1>2
<1>4. p \in Seq(ToSet(p)) /\ DOMAIN p = 1 .. len BY <1>3, FunctionIsSeq
<1>5. ASSUME NEW s \in Stream PROVE IsStream(s) BY DEF Stream, IsStream, Forceable
<1> QED BY <1>3, <1>4, <1>5 DEF IsProfile

\* LoadPcap makes a chain.
LEMMA PcapProfile ==
    ASSUME NEW S, NEW pkts \in Seq(S), NEW opts, NEW p, p = LoadPcap(pkts, opts)
    PROVE  IsProfile(p) /\ FromFile(p) /\ Chained(p, pkts, opts) /\ NoDirections(p)
<1>1. PICK len \in Nat : len = Len(pkts) /\ DOMAIN pkts = 1 .. len OBVIOUS
<1>2. p = [i \in 1 .. len |-> PcapStream(pkts, i, opts)] BY <1>1 DEF LoadPcap
<1>3. ASSUME NEW i \in 1 .. len
      PROVE  p[i] = [name |-> PcapName(i), next |-> IF i < len THEN PcapName(i + 1) ELSE NoName,
                     id |-> None, dir |-> None, pg |-> None, dummy |-> FALSE, self |-> (i = 1),
                     isg |-> gapBefore(pkts, i, opts), mode |-> "single_burst",
                     packet |-> [layers |-> <<>>, len |-> pkts[i].len], vm |-> <<>>]
  <2>1. p[i] = PcapStream(pkts, i, opts) BY <1>2
  <2> QED BY <1>1, <2>1 DEF PcapStream, ZeroStream
<1>4. p \in [1 .. len -> ToSet(p)] BY <1>2 DEF ToSet
<1>5. p \in Seq(ToSet(p)) /\ DOMAIN p = 1 .. len /\ Len(p) = len BY <1>4, FunctionIsSeq
<1>6. ASSUME NEW i \in 1 .. len
      PROVE  /\ IsStream(p[i]) /\ p[i].id = None /\ p[i].dir = None /\ p[i].dummy = FALSE
             /\ p[i].mode = "single_burst"
             /\ p[i].name = PcapName(i) /\ p[i].self = (i = 1) /\ p[i].isg = gapBefore(pkts, i, opts)
             /\ p[i].next = IF i < len THEN PcapName(i + 1) ELSE NoName
  <2> DEFINE next == IF i < len THEN PcapName(i + 1) ELSE NoName
             self == (i = 1)
             packet == [layers |-> <<>>, len |-> pkts[i].len]
             none == <<>>
             gap == gapBefore(pkts, i, opts)
  <2>1. p[i] = [name |-> PcapName(i), next |-> next, id |-> None, dir |-> None, pg |-> None,
                dummy |-> FALSE, self |-> self, isg |-> gap, mode |-> "single_burst",
                packet |-> packet, vm |-> none]
    BY <1>3
  <2> HIDE DEF next, self, packet, none, gap
  <2>2. /\ p[i].name = PcapName(i) /\ p[i].next = next /\ p[i].id = None /\ p[i].dir = None
        /\ p[i].pg = None /\ p[i].dummy = FALSE /\ p[i].self = self /\ p[i].isg = gap
        /\ p[i].mode = "single_burst" /\ p[i].packet = packet /\ p[i].vm = none
    BY <2>1
  <2>3. IsStream(p[i])
    <3>1. Forceable(None) /\ None \in Nat \cup {None} /\ FALSE \in BOOLEAN BY DEF Forceable
    <3> QED BY <2>1, <2>2, <3>1, Zenon DEF IsStream
  <2> QED BY <2>2, <2>3, Zenon DEF next, self, gap
<1>7. IsProfile(p) /\ FromFile(p) /\ NoDirections(p)
  BY <1>5, <1>6 DEF IsProfile, FromFile, NoDirections, KnownModes
<1>8. Chained(p, pkts, opts) BY <1>1, <1>5, <1>6, Zenon DEF Chained
<1> QED BY <1>7, <1>8

\* A stream that buildOne makes of an entry.
BuiltFrom(s, e) ==
    \E size, name, next : \E pg \in Nat \cup {None} :
        /\ ModeBuilds(e) /\ OneBuilds(e, size)
        /\ s = buildOne(e, size, name, next, pg)

\* What buildOne makes is a stream of a file.
LEMMA BuiltStream ==
    ASSUME NEW s, NEW e, BuiltFrom(s, e)
    PROVE  /\ IsStream(s) /\ s.id = None /\ s.dummy = FALSE /\ s.mode \in KnownModes
           /\ s.packet.layers = e.layers /\ s.vm = buildVM(e.vm, e.layers)
           /\ Buildable(e.layers) /\ \E len : VMBuildable(e.vm, e.layers, len)
<1>1. PICK size, name, next : \E pg \in Nat \cup {None} :
          ModeBuilds(e) /\ OneBuilds(e, size) /\ s = buildOne(e, size, name, next, pg)
  BY DEF BuiltFrom
<1>2. PICK pg \in Nat \cup {None} : s = buildOne(e, size, name, next, pg) BY <1>1
<1> DEFINE packet == [layers |-> e.layers, len |-> FrameLen(e, size)]
           vm == buildVM(e.vm, e.layers)
           mode == buildMode(e)
<1>3. s = [name |-> name, next |-> next, id |-> None, dir |-> e.dir, pg |-> pg, dummy |-> FALSE,
           self |-> e.self, isg |-> e.isg, mode |-> mode, packet |-> packet, vm |-> vm]
  BY <1>2 DEF buildOne, ZeroStream
<1>4. packet.layers = e.layers OBVIOUS
<1>5. mode \in KnownModes BY <1>1 DEF ModeBuilds, buildMode, KnownModes
<1> HIDE DEF packet, vm, mode
<1>6. /\ s.name = name /\ s.next = next /\ s.id = None /\ s.dir = e.dir /\ s.pg = pg
      /\ s.dummy = FALSE /\ s.self = e.self /\ s.isg = e.isg /\ s.mode = mode
      /\ s.packet = packet /\ s.vm = vm
  BY <1>3
<1>7. IsStream(s)
  <2>1. Forceable(None) /\ pg \in Nat \cup {None} /\ FALSE \in BOOLEAN BY <1>2 DEF Forceable
  <2> QED BY <1>3, <1>6, <2>1, Zenon DEF IsStream
<1>8. Buildable(e.layers) /\ VMBuildable(e.vm, e.layers, FrameLen(e, size)) BY <1>1 DEF OneBuilds
<1> QED BY <1>4, <1>5, <1>6, <1>7, <1>8 DEF vm

\* build makes one stream of an entry, or one per row.
LEMMA BuildEntry ==
    ASSUME NEW e \in Entry, EntryBuilds(e), NEW b, b = build(e)
    PROVE  /\ b \in Seq(ToSet(b)) /\ Len(b) = IF e.imix = <<>> THEN 1 ELSE Len(e.imix)
           /\ \A i \in DOMAIN b : BuiltFrom(b[i], e)
<1>0. e.imix \in Seq(Row) /\ e.pg \in Nat \cup {None} BY DEF Entry
<1>1. CASE e.imix = <<>>
  <2> DEFINE s == buildOne(e, 0, e.name, e.next, e.pg)
  <2>1. b = <<s>> BY <1>1 DEF build
  <2>2. ModeBuilds(e) /\ OneBuilds(e, 0) BY <1>1 DEF EntryBuilds
  <2>3. BuiltFrom(s, e) BY <1>0, <2>2 DEF BuiltFrom
  <2> HIDE DEF s
  <2>4. Len(b) = 1 /\ DOMAIN b = 1 .. 1 /\ b[1] = s /\ b \in Seq({s}) BY <2>1
  <2>5. ToSet(b) = {s} BY <2>4 DEF ToSet
  <2> QED BY <1>1, <2>3, <2>4, <2>5
<1>2. CASE e.imix # <<>>
  <2>1. PICK len \in Nat : len = Len(e.imix) /\ DOMAIN e.imix = 1 .. len
                           /\ \A i \in 1 .. len : e.imix[i] \in Row
    BY <1>0
  <2>2. b = [i \in 1 .. len |-> buildOne(e, rowPayload(e, i), imixName(e, i), NoName, e.imix[i].pg)]
    BY <1>2, <2>1 DEF build
  <2>3. b \in [1 .. len -> ToSet(b)] BY <2>2 DEF ToSet
  <2>4. b \in Seq(ToSet(b)) /\ DOMAIN b = 1 .. len /\ Len(b) = len BY <2>1, <2>3, FunctionIsSeq
  <2>5. ASSUME NEW i \in 1 .. len PROVE BuiltFrom(b[i], e)
    <3>1. ModeBuilds(e) /\ OneBuilds(e, rowPayload(e, i)) BY <1>2, <2>1 DEF EntryBuilds
    <3>2. e.imix[i].pg \in Nat \cup {None} BY <2>1 DEF Row
    <3>3. b[i] = buildOne(e, rowPayload(e, i), imixName(e, i), NoName, e.imix[i].pg) BY <2>2
    <3> QED BY <3>1, <3>2, <3>3 DEF BuiltFrom
  <2> QED BY <1>2, <2>1, <2>4, <2>5
<1> QED BY <1>1, <1>2

\* Parse makes the streams of the entries, one after the other.
LEMMA ParseStreams ==
    ASSUME NEW entries \in Seq(Entry), Parses(entries)
    PROVE  /\ Parse(entries) \in Seq(ToSet(Parse(entries)))
           /\ \A n \in DOMAIN Parse(entries) :
                \E i \in DOMAIN entries : BuiltFrom(Parse(entries)[n], entries[i])
<1>1. PICK m \in Nat : m = Len(entries) /\ DOMAIN entries = 1 .. m
                       /\ \A i \in 1 .. m : entries[i] \in Entry
  OBVIOUS
<1> DEFINE q == [i \in 1 .. m |-> build(entries[i])]
           S == UNION {ToSet(q[i]) : i \in 1 .. m}
<1>2. Parse(entries) = FlattenSeq(q) BY <1>1 DEF Parse
<1>3. ASSUME NEW i \in 1 .. m PROVE q[i] \in Seq(S) /\ \A j \in DOMAIN q[i] : BuiltFrom(q[i][j], entries[i])
  <2>1. EntryBuilds(entries[i]) /\ entries[i] \in Entry BY <1>1 DEF Parses
  <2>2. q[i] = build(entries[i]) OBVIOUS
  <2> HIDE DEF q
  <2>3. q[i] \in Seq(ToSet(q[i])) /\ \A j \in DOMAIN q[i] : BuiltFrom(q[i][j], entries[i])
    BY <2>1, <2>2, BuildEntry
  <2>4. ToSet(q[i]) \subseteq S OBVIOUS
  <2> HIDE DEF S
  <2> QED BY <2>3, <2>4
<1>4. q \in [1 .. m -> Seq(S)] BY <1>3
<1>5. q \in Seq(Seq(S)) BY <1>1, <1>4, FunctionIsSeq
<1> HIDE DEF q
<1>6. ASSUME NEW s \in S PROVE \E i \in DOMAIN entries : BuiltFrom(s, entries[i])
  <2>1. PICK i \in 1 .. m : s \in ToSet(q[i]) OBVIOUS
  <2>2. PICK j \in DOMAIN q[i] : s = q[i][j] BY <2>1 DEF ToSet
  <2> QED BY <1>1, <1>3, <2>2
<1> HIDE DEF S
<1>7. PICK p \in Seq(S) : p = Parse(entries) BY <1>2, <1>5, FlattenType
<1>8. p \in Seq(ToSet(p)) BY <1>7 DEF ToSet
<1>9. \A n \in DOMAIN p : p[n] \in S BY <1>7
<1> QED BY <1>6, <1>7, <1>8, <1>9

\* So they are a profile of a file.
LEMMA ParseProfile ==
    ASSUME NEW entries \in Seq(Entry), Parses(entries)
    PROVE  IsProfile(Parse(entries)) /\ FromFile(Parse(entries))
<1> DEFINE p == Parse(entries)
<1>1. /\ p \in Seq(ToSet(p))
      /\ \A n \in DOMAIN p : \E i \in DOMAIN entries : BuiltFrom(p[n], entries[i])
  BY ParseStreams
<1> HIDE DEF p
<1>2. ASSUME NEW n \in DOMAIN p
      PROVE  IsStream(p[n]) /\ p[n].id = None /\ p[n].dummy = FALSE /\ p[n].mode \in KnownModes
  <2>1. PICK i \in DOMAIN entries : BuiltFrom(p[n], entries[i]) BY <1>1
  <2> QED BY <2>1, BuiltStream
<1>3. IsProfile(p) /\ FromFile(p) BY <1>1, <1>2 DEF IsProfile, FromFile
<1> QED BY <1>3 DEF p

\* A list of wire streams, bare or wrapped.
IsSnapshot(items) ==
    /\ items \in Seq(ToSet(items))
    /\ \A n \in DOMAIN items : IsWire(items[n].stream) /\ items[n].stream.pg \in Nat \cup {None}

\* The name that toStream takes, the object's own if it has one.
Taken(inner, outer) == IF inner = NoName THEN outer ELSE inner

\* LoadSnapshot makes streams of a file, without directions.
LEMMA SnapshotProfile ==
    ASSUME NEW items, IsSnapshot(items), NEW p, p = LoadSnapshot(items)
    PROVE  /\ IsProfile(p) /\ FromFile(p) /\ NoDirections(p)
           /\ DOMAIN p = DOMAIN items /\ Len(p) = Len(items)
           /\ \A n \in DOMAIN items :
                /\ p[n].name = Taken(items[n].stream.name, items[n].name)
                /\ p[n].next = Taken(items[n].stream.next, items[n].next)
                /\ p[n].pg = items[n].stream.pg /\ p[n].self = items[n].stream.self
                /\ p[n].isg = items[n].stream.isg /\ p[n].mode = toMode(items[n].stream.mode)
                /\ p[n].packet = items[n].stream.packet /\ p[n].vm = items[n].stream.vm
<1>1. PICK len \in Nat : len = Len(items) /\ DOMAIN items = 1 .. len BY DEF IsSnapshot
<1>2. p = [n \in 1 .. len |-> toStream(items[n])] BY <1>1 DEF LoadSnapshot
<1>3. p \in [1 .. len -> ToSet(p)] BY <1>2 DEF ToSet
<1>4. p \in Seq(ToSet(p)) /\ DOMAIN p = 1 .. len /\ Len(p) = len BY <1>3, FunctionIsSeq
<1>5. ASSUME NEW n \in 1 .. len
      PROVE  /\ IsStream(p[n]) /\ p[n].id = None /\ p[n].dir = None /\ p[n].dummy = FALSE
             /\ p[n].mode \in KnownModes
             /\ p[n].name = Taken(items[n].stream.name, items[n].name)
             /\ p[n].next = Taken(items[n].stream.next, items[n].next)
             /\ p[n].pg = items[n].stream.pg /\ p[n].self = items[n].stream.self
             /\ p[n].isg = items[n].stream.isg /\ p[n].mode = toMode(items[n].stream.mode)
             /\ p[n].packet = items[n].stream.packet /\ p[n].vm = items[n].stream.vm
  <2> DEFINE s == items[n].stream
             name == Taken(s.name, items[n].name)
             next == Taken(s.next, items[n].next)
             mode == toMode(s.mode)
  <2>1. p[n] = toStream(items[n]) BY <1>2
  <2>2. p[n] = [name |-> name, next |-> next, id |-> None, dir |-> None, pg |-> s.pg,
                dummy |-> FALSE, self |-> s.self, isg |-> s.isg, mode |-> mode,
                packet |-> s.packet, vm |-> s.vm]
    BY <2>1 DEF toStream, ZeroStream, Taken
  <2>3. mode \in KnownModes BY DEF toMode, KnownModes
  <2>4. s.pg \in Nat \cup {None} BY <1>1 DEF IsSnapshot
  <2> HIDE DEF name, next, mode, s
  <2>5. /\ p[n].name = name /\ p[n].next = next /\ p[n].id = None /\ p[n].dir = None
        /\ p[n].pg = s.pg /\ p[n].dummy = FALSE /\ p[n].self = s.self /\ p[n].isg = s.isg
        /\ p[n].mode = mode /\ p[n].packet = s.packet /\ p[n].vm = s.vm
    BY <2>2
  <2>6. IsStream(p[n])
    <3>1. Forceable(None) /\ FALSE \in BOOLEAN BY DEF Forceable
    <3> QED BY <2>2, <2>4, <2>5, <3>1, Zenon DEF IsStream
  <2> QED BY <2>3, <2>5, <2>6, Zenon DEF name, next, mode, s
<1>6. IsProfile(p) BY <1>4, <1>5, Zenon DEF IsProfile
<1>7. FromFile(p) /\ NoDirections(p) BY <1>4, <1>5, Zenon DEF FromFile, NoDirections
<1> QED BY <1>1, <1>4, <1>5, <1>6, <1>7, Zenon

-----------------------------------------------------------------------------
(* The inductive invariant *)

\* Where the command stands: the profile is the one loaded, tagged or not, and one
\* that came from a snapshot is what LoadSnapshot makes of it.
Phases ==
    /\ cmd \in {"streams", "ndr"} /\ k \in 1 .. Len(Ports) + 1
    /\ pc \in {"load", "tag", "resolve", "upload", "done", "failed", "rejected", "playing"}
    /\ origin \in {"", "pcap", "dsl", "snapshot", "library"}
    /\ origin = "" => pc = "load" /\ profile = <<>> /\ orig = <<>> /\ snapshot = <<>>
    /\ pc \in {"load", "tag", "resolve"} => k = 1
    /\ pc \in {"done", "playing"} => k = Len(Ports) + 1
    /\ IsProfile(profile) /\ IsProfile(orig) /\ Len(profile) = Len(orig)
    /\ pc = "tag" => profile = orig
    /\ pc \notin {"load", "tag"} =>
          profile = IF cmd = "ndr" THEN EnsureFlowStats(orig, 1) ELSE orig
    /\ IsSnapshot(snapshot)
    /\ snapshot # <<>> /\ pc # "load" => orig = LoadSnapshot(snapshot)

\* What the ports before k have got.
WireInv ==
    /\ \A p \in 1 .. k - 1 : Resolvable(ForPort(profile, Ports[p]))
    /\ wire = [p \in 1 .. Len(Ports) |->
                 IF p < k THEN Resolve(ForPort(profile, Ports[p])) ELSE <<>>]

\* A profile that no program made is one of a file.
FileInv == origin # "library" => FromFile(orig)

\* A snapshot of an upload of a file has its streams in order, by id and by
\* reference, under the names they were uploaded with.
SnapInv ==
    /\ \A n \in DOMAIN snapshot :
          LET item == snapshot[n]
          IN  /\ item.stream.name \in {NoName, item.name}
              /\ item.stream.next \in {NoName, item.next}
    /\ origin # "library" =>
          \A n \in DOMAIN snapshot :
              LET s == snapshot[n].stream
                  next == snapshot[n].next
              IN  /\ s.id = n - 1 /\ s.dummy = FALSE /\ s.mode \in KnownModes
                  /\ next = NoName => s.nextId = -1
                  /\ \A m \in DOMAIN snapshot :
                        next # NoName /\ snapshot[m].name = next => s.nextId = m - 1

\* The chain of a capture, in the profile and in a snapshot of its upload.
ChainInv ==
    origin = "pcap" =>
        /\ source \in Captures /\ options \in Options
        /\ pc \notin {"load", "rejected"} =>
              /\ source # <<>> /\ Chained(orig, source, options) /\ NoDirections(orig)
        /\ snapshot # <<>> =>
              /\ source # <<>> /\ Len(snapshot) = Len(source)
              /\ \A i \in DOMAIN snapshot :
                    /\ snapshot[i].name = PcapName(i) /\ snapshot[i].stream.self = (i = 1)
                    /\ snapshot[i].stream.isg = gapBefore(source, i, options)
                    /\ snapshot[i].next = IF i < Len(source) THEN PcapName(i + 1) ELSE NoName

\* The server has sent the first packets of the capture, each after its gap.
Replayed ==
    /\ sent \in Seq([pkt : Nat, at : Nat]) /\ Len(sent) <= Len(source)
    /\ active = IF Len(sent) < Len(source) THEN Len(sent) ELSE None
    /\ now = IF Len(sent) = 0 THEN 0 ELSE sent[Len(sent)].at
    /\ \A n \in DOMAIN sent :
          /\ sent[n].pkt = n
          /\ sent[n].at = (IF n = 1 THEN 0 ELSE sent[n - 1].at) + gapBefore(source, n, options)

PlayInv ==
    /\ pc # "playing" => active = None /\ now = 0 /\ sent = <<>>
    /\ pc = "playing" => origin = "pcap" /\ Replayed

\* Instructions with a reference to a field write in the header it names.
Named(vm, stack) ==
    SegmentsFit(stack) => \A ins \in ToSet(vm) : WritesInHeader(ins, stack)

VmInv ==
    /\ \A n \in DOMAIN orig : Named(orig[n].vm, orig[n].packet.layers)
    /\ \A n \in DOMAIN snapshot : Named(snapshot[n].stream.vm, snapshot[n].stream.packet.layers)

\* A file just parsed.
DslInv ==
    origin = "dsl" /\ pc = "tag" /\ snapshot = <<>> =>
        source \in Files /\ Parses(source) /\ orig = Parse(source)

IInv == Phases /\ WireInv /\ FileInv /\ SnapInv /\ ChainInv /\ PlayInv /\ VmInv /\ DslInv

\* The invariant holds before anything is loaded.
LEMMA InitInv == Init => IInv
<1> SUFFICES ASSUME Init PROVE IInv OBVIOUS
<1>1. PICK len \in Nat : len = Len(Ports) /\ len # 0
  BY UploadAssumption, EmptySeq
<1>2. IsProfile(<<>>) /\ IsSnapshot(<<>>) /\ DOMAIN <<>> = {} BY DEF IsProfile, IsSnapshot
<1>3. Phases
  <2>1. 1 \in 1 .. Len(Ports) + 1 BY <1>1
  <2> QED BY <1>2, <2>1, Zenon DEF Init, Phases
<1>4. WireInv
  <2>1. \A p \in 1 .. Len(Ports) : ~(p < 1) BY <1>1
  <2>2. k = 1 BY DEF Init
  <2>3. wire = [p \in 1 .. Len(Ports) |-> <<>>] BY DEF Init, NoWire
  <2>4. wire = [p \in 1 .. Len(Ports) |->
                 IF p < k THEN Resolve(ForPort(profile, Ports[p])) ELSE <<>>]
    BY <2>1, <2>2, <2>3
  <2>5. \A p \in 1 .. k - 1 : FALSE BY <2>2
  <2> QED BY <2>4, <2>5 DEF WireInv
<1>5. FileInv /\ SnapInv /\ ChainInv /\ VmInv /\ DslInv
  BY <1>2 DEF Init, FileInv, FromFile, SnapInv, ChainInv, VmInv, DslInv
<1>6. PlayInv BY DEF Init, PlayInv
<1> QED BY <1>3, <1>4, <1>5, <1>6 DEF IInv

\* What loading does: it fails on the first file, or a profile is there to be
\* tagged, made by the loader of the kind of file.
LoadsFirst(p) ==
    /\ origin = ""
    /\ \/ /\ origin' = "pcap" /\ source' \in Captures /\ options' \in Options
          /\ PcapLoads(source') /\ p = LoadPcap(source', options')
       \/ origin' = "dsl" /\ source' \in Files /\ Parses(source') /\ p = Parse(source')
       \/ origin' = "snapshot" /\ \E items \in Snapshots : p = LoadSnapshot(items)
       \/ origin' = "library" /\ p \in Profiles

LoadsAgain(p) == snapshot # <<>> /\ UNCHANGED input /\ p = LoadSnapshot(snapshot)

\* Load does one or the other.
LEMMA LoadCases ==
    ASSUME Load
    PROVE  /\ pc = "load" /\ UNCHANGED <<cmd, k, wire, snapshot, server>>
           /\ \/ /\ origin = "" /\ origin' \in {"pcap", "dsl", "snapshot"}
                 /\ origin' = "pcap" => source' \in Captures /\ options' \in Options
                 /\ pc' = "rejected" /\ profile' = profile /\ orig' = orig
              \/ \E p : /\ pc' = "tag" /\ profile' = p /\ orig' = p
                        /\ LoadsFirst(p) \/ LoadsAgain(p)
<1> USE DEF LoadedAs, LoadError
<1>1. pc = "load" /\ UNCHANGED <<cmd, k, wire, snapshot, server>> BY DEF Load
<1>2. CASE FromCapture
  <2>1. PICK pkts \in Captures, opts \in Options :
          /\ source' = pkts /\ options' = opts
          /\ IF PcapLoads(pkts) THEN LoadedAs(LoadPcap(pkts, opts)) ELSE LoadError
    BY <1>2 DEF FromCapture
  <2>2. origin = "" /\ origin' = "pcap" BY <1>2 DEF FromCapture
  <2>3. CASE PcapLoads(pkts) BY <1>1, <2>1, <2>2, <2>3 DEF LoadsFirst
  <2>4. CASE ~PcapLoads(pkts) BY <1>1, <2>1, <2>2, <2>4
  <2> QED BY <2>3, <2>4
<1>3. CASE FromEntries
  <2>1. PICK entries \in Files :
          source' = entries /\ IF Parses(entries) THEN LoadedAs(Parse(entries)) ELSE LoadError
    BY <1>3 DEF FromEntries
  <2>2. origin = "" /\ origin' = "dsl" BY <1>3 DEF FromEntries
  <2>3. CASE Parses(entries) BY <1>1, <2>1, <2>2, <2>3 DEF LoadsFirst
  <2>4. CASE ~Parses(entries) BY <1>1, <2>1, <2>2, <2>4
  <2> QED BY <2>3, <2>4
<1>4. CASE FromSnapshot
  <2>1. CASE origin = "" /\ origin' = "snapshot" /\ UNCHANGED <<source, options>>
             /\ \E items \in Snapshots, decodes \in BOOLEAN :
                  IF decodes THEN LoadedAs(LoadSnapshot(items)) ELSE LoadError
    <3>1. PICK items \in Snapshots, decodes \in BOOLEAN :
             IF decodes THEN LoadedAs(LoadSnapshot(items)) ELSE LoadError
      BY <2>1
    <3>2. CASE decodes BY <1>1, <2>1, <3>1, <3>2 DEF LoadsFirst
    <3>3. CASE ~decodes BY <1>1, <2>1, <3>1, <3>3
    <3> QED BY <3>2, <3>3
  <2>2. CASE snapshot # <<>> /\ UNCHANGED input /\ LoadedAs(LoadSnapshot(snapshot))
    BY <1>1, <2>2 DEF LoadsAgain
  <2> QED BY <1>4, <2>1, <2>2 DEF FromSnapshot
<1>5. CASE FromProgram
  <2>1. origin = "" /\ origin' = "library" /\ \E p \in Profiles : LoadedAs(p)
    BY <1>5 DEF FromProgram
  <2> QED BY <1>1, <2>1 DEF LoadsFirst
<1> QED BY <1>2, <1>3, <1>4, <1>5 DEF Load

\* A snapshot of another client is one.
LEMMA SnapshotsAreSnapshots ==
    ASSUME NEW items \in Snapshots
    PROVE  IsSnapshot(items) /\ \A n \in DOMAIN items : Unnamed(items[n].stream.vm)
<1>1. items \in Seq({item \in Item : Unnamed(item.stream.vm)}) BY UploadAssumption
<1>2. PICK len \in Nat : items \in [1 .. len -> {item \in Item : Unnamed(item.stream.vm)}] BY <1>1
<1>3. items \in Seq(ToSet(items)) /\ DOMAIN items = 1 .. len BY <1>2, FunctionIsSeq
<1>4. ASSUME NEW item \in Item PROVE IsWire(item.stream) /\ item.stream.pg \in Nat \cup {None}
  <2>1. item.stream \in WireStream BY DEF Item
  <2> QED BY <2>1 DEF WireStream, IsWire
<1> QED BY <1>2, <1>3, <1>4 DEF IsSnapshot

\* What is loaded is a profile, and of a file unless a program made it.
LEMMA LoadedProfile ==
    ASSUME Phases, NEW p, LoadsFirst(p) \/ LoadsAgain(p)
    PROVE  IsProfile(p) /\ (LoadsAgain(p) \/ origin' # "library" => FromFile(p))
<1>1. CASE LoadsAgain(p) BY <1>1, SnapshotProfile DEF LoadsAgain, Phases
<1>2. CASE LoadsFirst(p) /\ ~LoadsAgain(p)
  <2>1. ASSUME source' \in Captures, p = LoadPcap(source', options') PROVE IsProfile(p) /\ FromFile(p)
    <3>1. source' \in Seq(Captured) BY <2>1, UploadAssumption
    <3> QED BY <2>1, <3>1, PcapProfile
  <2>2. ASSUME source' \in Files, Parses(source'), p = Parse(source') PROVE IsProfile(p) /\ FromFile(p)
    <3>1. source' \in Seq(Entry) BY <2>2, UploadAssumption
    <3> QED BY <2>2, <3>1, ParseProfile
  <2>3. ASSUME NEW items \in Snapshots, p = LoadSnapshot(items) PROVE IsProfile(p) /\ FromFile(p)
    BY <2>3, SnapshotsAreSnapshots, SnapshotProfile
  <2>4. ASSUME p \in Profiles PROVE IsProfile(p) BY <2>4, ProfilesAreProfiles
  <2> QED BY <1>2, <2>1, <2>2, <2>3, <2>4 DEF LoadsFirst
<1> QED BY <1>1, <1>2

\* The command has a port, and the number of ports is a number.
LEMMA PortCount == Len(Ports) \in Nat /\ Len(Ports) >= 1 /\ DOMAIN Ports = 1 .. Len(Ports)
<1>1. Ports \in Seq(Nat) /\ Ports # <<>> BY UploadAssumption
<1>2. Len(Ports) \in Nat \ {0} BY <1>1, EmptySeq
<1> QED BY <1>1, <1>2

\* What a port has got is a list of wire streams made of the streams of its side
\* of the profile.
LEMMA WireOf ==
    ASSUME Phases, WireInv, NEW p \in 1 .. Len(Ports), NEW sub, sub = ForPort(profile, Ports[p])
    PROVE  /\ p >= k => wire[p] = <<>>
           /\ p < k => IsProfile(sub) /\ Resolvable(sub) /\ wire[p] = Resolve(sub)
<1>1. k \in Nat /\ Len(Ports) \in Nat
  <2>1. k \in 1 .. Len(Ports) + 1 BY Zenon DEF Phases
  <2> QED BY <2>1, PortCount
<1>2. wire[p] = IF p < k THEN Resolve(sub) ELSE <<>> BY DEF WireInv
<1>3. ASSUME p < k PROVE IsProfile(sub) /\ Resolvable(sub)
  <2>1. p \in 1 .. k - 1 BY <1>1, <1>3
  <2> QED BY <2>1, ForPortProfile DEF WireInv, Phases
<1> QED BY <1>1, <1>2, <1>3

\* Giving a wire stream other names changes nothing else.
LEMMA Renamed ==
    ASSUME NEW w, IsWire(w), NEW name, NEW next, NEW r, r = [w EXCEPT !.name = name, !.next = next]
    PROVE  r = [id |-> w.id, name |-> name, next |-> next, nextId |-> w.nextId, pg |-> w.pg,
                dummy |-> w.dummy, self |-> w.self, isg |-> w.isg, mode |-> w.mode,
                packet |-> w.packet, vm |-> w.vm]
<1>1. w = [id |-> w.id, name |-> w.name, next |-> w.next, nextId |-> w.nextId, pg |-> w.pg,
           dummy |-> w.dummy, self |-> w.self, isg |-> w.isg, mode |-> w.mode,
           packet |-> w.packet, vm |-> w.vm]
  BY Zenon DEF IsWire
<1> QED BY <1>1

\* The two forms of an export are snapshots of what the first port has, with the
\* names inside or outside.
LEMMA ExportedItem ==
    ASSUME NEW w, IsWire(w), NEW item, item = Bare(w) \/ item = Wrapped(w)
    PROVE  /\ IsWire(item.stream) /\ item.name = w.name /\ item.next = w.next
           /\ item.stream.name \in {NoName, w.name} /\ item.stream.next \in {NoName, w.next}
           /\ item.stream.id = w.id /\ item.stream.nextId = w.nextId /\ item.stream.pg = w.pg
           /\ item.stream.dummy = w.dummy /\ item.stream.self = w.self /\ item.stream.isg = w.isg
           /\ item.stream.mode = w.mode /\ item.stream.packet = w.packet /\ item.stream.vm = w.vm
<1>1. CASE item = Bare(w)
  <2>1. item.stream = w /\ item.name = w.name /\ item.next = w.next BY <1>1 DEF Bare
  <2> QED BY <2>1, Zenon
<1>2. CASE item = Wrapped(w)
  <2> DEFINE none == NoName
             t == [id |-> w.id, name |-> none, next |-> none, nextId |-> w.nextId, pg |-> w.pg,
                   dummy |-> w.dummy, self |-> w.self, isg |-> w.isg, mode |-> w.mode,
                   packet |-> w.packet, vm |-> w.vm]
  <2> HIDE DEF none
  <2>1. ASSUME NEW r, r = [w EXCEPT !.name = none, !.next = none] PROVE r = t
    BY <2>1, Renamed
  <2>2. /\ t.id = w.id /\ t.name = none /\ t.next = none /\ t.nextId = w.nextId /\ t.pg = w.pg
        /\ t.dummy = w.dummy /\ t.self = w.self /\ t.isg = w.isg /\ t.mode = w.mode
        /\ t.packet = w.packet /\ t.vm = w.vm
    OBVIOUS
  <2>3. IsWire(t) BY <2>2 DEF IsWire
  <2>4. item = [name |-> w.name, next |-> w.next, stream |-> [w EXCEPT !.name = NoName, !.next = NoName]]
    BY <1>2 DEF Wrapped
  <2> HIDE DEF t
  <2>5. item = [name |-> w.name, next |-> w.next, stream |-> t] BY <2>1, <2>4 DEF none
  <2>6. item.stream = t /\ item.name = w.name /\ item.next = w.next BY <2>5
  <2> QED BY <2>2, <2>3, <2>6, Zenon DEF none
<1> QED BY <1>1, <1>2

\* An export is made of the first port's wire streams, which come from its side
\* of the profile.
LEMMA Exported ==
    ASSUME Phases, WireInv, Export, NEW sub, sub = ForPort(profile, Ports[1])
    PROVE  /\ IsSnapshot(snapshot') /\ IsProfile(sub) /\ Resolvable(sub) /\ wire[1] = Resolve(sub)
           /\ DOMAIN snapshot' = DOMAIN sub /\ Len(snapshot') = Len(sub) /\ snapshot' # <<>>
           /\ \A n \in DOMAIN sub :
                /\ IsWire(wire[1][n])
                /\ snapshot'[n] = Bare(wire[1][n]) \/ snapshot'[n] = Wrapped(wire[1][n])
<1>1. 1 \in 1 .. Len(Ports) /\ 1 < k
  <2>1. pc = "done" BY DEF Export
  <2>2. k = Len(Ports) + 1 BY <2>1, Zenon DEF Phases
  <2> QED BY <2>2, PortCount
<1>2. IsProfile(sub) /\ Resolvable(sub) /\ wire[1] = Resolve(sub) BY <1>1, WireOf
<1> DEFINE w == wire[1]
<1>3. /\ w \in Seq(ToSet(w)) /\ DOMAIN w = DOMAIN sub /\ Len(w) = Len(sub)
      /\ \A n \in DOMAIN sub : IsWire(w[n]) /\ w[n].pg = sub[n].pg
  BY <1>2, Resolved DEF Carries
<1>4. PICK len \in Nat : len = Len(sub) /\ DOMAIN sub = 1 .. len BY <1>2 DEF IsProfile
<1>5. \/ snapshot' = [n \in DOMAIN w |-> Bare(w[n])]
      \/ snapshot' = [n \in DOMAIN w |-> Wrapped(w[n])]
  BY DEF Export
<1>6. w # <<>> BY DEF Export
<1> HIDE DEF w
<1>7. /\ snapshot' \in [1 .. len -> ToSet(snapshot')]
      /\ \A n \in 1 .. len : snapshot'[n] = Bare(w[n]) \/ snapshot'[n] = Wrapped(w[n])
  BY <1>3, <1>4, <1>5 DEF ToSet
<1>8. snapshot' \in Seq(ToSet(snapshot')) /\ DOMAIN snapshot' = 1 .. len /\ Len(snapshot') = len
  BY <1>4, <1>7, FunctionIsSeq
<1>9. ASSUME NEW n \in 1 .. len
      PROVE  IsWire(snapshot'[n].stream) /\ snapshot'[n].stream.pg \in Nat \cup {None}
  <2>1. IsWire(w[n]) /\ w[n].pg \in Nat \cup {None} BY <1>2, <1>3, <1>4 DEF IsProfile, IsStream
  <2> QED BY <1>7, <2>1, ExportedItem
<1>10. IsSnapshot(snapshot') BY <1>8, <1>9 DEF IsSnapshot
<1>11. Len(w) # 0 BY <1>3, <1>6, EmptySeq
<1>12. snapshot' # <<>> BY <1>3, <1>4, <1>8, <1>11
<1> QED BY <1>2, <1>3, <1>4, <1>7, <1>8, <1>10, <1>12 DEF w

\* Every step keeps the phases.
LEMMA PhasesStep == ASSUME Phases, WireInv, [Next]_vars PROVE Phases'
<1>0. /\ cmd \in {"streams", "ndr"} /\ k \in 1 .. Len(Ports) + 1
      /\ pc \in {"load", "tag", "resolve", "upload", "done", "failed", "rejected", "playing"}
      /\ origin \in {"", "pcap", "dsl", "snapshot", "library"}
      /\ origin = "" => pc = "load" /\ profile = <<>> /\ orig = <<>> /\ snapshot = <<>>
      /\ pc \in {"load", "tag", "resolve"} => k = 1
      /\ pc \in {"done", "playing"} => k = Len(Ports) + 1
      /\ IsProfile(profile) /\ IsProfile(orig) /\ Len(profile) = Len(orig)
      /\ pc = "tag" => profile = orig
      /\ pc \notin {"load", "tag"} =>
            profile = IF cmd = "ndr" THEN EnsureFlowStats(orig, 1) ELSE orig
      /\ IsSnapshot(snapshot)
      /\ snapshot # <<>> /\ pc # "load" => orig = LoadSnapshot(snapshot)
  BY Zenon DEF Phases
<1>k. k \in 1 .. Len(Ports) + 1 BY <1>0, Zenon
<1>1. CASE Load
  <2>1. /\ pc = "load" /\ cmd' = cmd /\ k' = k /\ wire' = wire /\ snapshot' = snapshot
    BY <1>1, LoadCases
  <2>2. CASE /\ origin = "" /\ origin' \in {"pcap", "dsl", "snapshot"}
             /\ pc' = "rejected" /\ profile' = profile /\ orig' = orig
    <3>1. EnsureFlowStats(<<>>, 1) = <<>> BY DEF EnsureFlowStats
    <3>2. profile = <<>> /\ orig = <<>> /\ snapshot = <<>> /\ k = 1 BY <1>0, <2>1, <2>2
    <3>3. profile' = IF cmd' = "ndr" THEN EnsureFlowStats(orig', 1) ELSE orig'
      BY <2>2, <3>1, <3>2, Zenon
    <3>4. origin' \in {"", "pcap", "dsl", "snapshot", "library"} /\ origin' # "" BY <2>2
    <3> QED BY <1>0, <2>1, <2>2, <3>2, <3>3, <3>4 DEF Phases
  <2>3. ASSUME NEW p, pc' = "tag", profile' = p, orig' = p, LoadsFirst(p) \/ LoadsAgain(p)
        PROVE  Phases'
    <3>1. IsProfile(p) BY <2>3, LoadedProfile
    <3>2. origin' \in {"", "pcap", "dsl", "snapshot", "library"} /\ origin' # ""
      BY <1>0, <2>3 DEF LoadsFirst, LoadsAgain, input
    <3>3. snapshot' # <<>> => orig' = LoadSnapshot(snapshot')
      BY <1>0, <2>1, <2>3 DEF LoadsFirst, LoadsAgain
    <3> QED BY <1>0, <2>1, <2>3, <3>1, <3>2, <3>3 DEF Phases
  <2> QED BY <1>1, <2>2, <2>3, LoadCases
<1>2. CASE Tag
  <2>1. /\ pc = "tag" /\ pc' = "resolve" /\ cmd' = cmd /\ k' = k /\ orig' = orig /\ wire' = wire
        /\ snapshot' = snapshot /\ origin' = origin
        /\ profile' = IF cmd = "ndr" THEN EnsureFlowStats(profile, 1) ELSE profile
    BY <1>2 DEF Tag, input
  <2>2. profile = orig BY <1>0, <2>1
  <2>3. IsProfile(profile') /\ Len(profile') = Len(orig)
    <3>1. CASE cmd = "ndr" BY <1>0, <2>1, <2>2, <3>1, Tagging
    <3>2. CASE cmd # "ndr" BY <1>0, <2>1, <2>2, <3>2
    <3> QED BY <3>1, <3>2
  <2> QED BY <1>0, <2>1, <2>2, <2>3 DEF Phases
<1>3. CASE CheckProfile
  <2>1. /\ pc = "resolve" /\ pc' \in {"upload", "rejected"} /\ cmd' = cmd /\ k' = k /\ orig' = orig
        /\ snapshot' = snapshot /\ origin' = origin /\ profile' = profile
    BY <1>3 DEF CheckProfile, input
  <2> QED BY <1>0, <2>1, Zenon DEF Phases
<1>4. CASE loadPort
  <2>1. /\ pc = "upload" /\ k <= Len(Ports) /\ pc' \in {"upload", "failed"} /\ k' \in {k, k + 1}
        /\ cmd' = cmd /\ orig' = orig /\ snapshot' = snapshot /\ origin' = origin
        /\ profile' = profile
    BY <1>4 DEF loadPort, input
  <2>2. k' \in 1 .. Len(Ports) + 1 BY <1>k, <2>1, PortCount
  <2> QED BY <1>0, <2>1, <2>2, Zenon DEF Phases
<1>5. CASE Uploaded
  <2>1. /\ pc = "upload" /\ k > Len(Ports) /\ pc' = "done" /\ k' = k
        /\ cmd' = cmd /\ orig' = orig /\ snapshot' = snapshot /\ origin' = origin
        /\ profile' = profile
    BY <1>5 DEF Uploaded, input
  <2>2. k = Len(Ports) + 1 BY <1>k, <2>1, PortCount
  <2> QED BY <1>0, <2>1, <2>2, Zenon DEF Phases
<1>6. CASE Play \/ SendBurst \/ UNCHANGED vars
  <2>1. /\ pc' = pc \/ (pc = "done" /\ pc' = "playing")
        /\ k' = k /\ cmd' = cmd /\ orig' = orig /\ snapshot' = snapshot /\ origin' = origin
        /\ profile' = profile
    BY <1>6 DEF Play, SendBurst, vars, input
  <2> QED BY <1>0, <2>1, Zenon DEF Phases
<1>7. CASE Export
  <2>1. IsSnapshot(snapshot') BY <1>7, Exported
  <2>2. /\ pc = "done" /\ pc' = "load" /\ cmd' \in {"streams", "ndr"} /\ k' = 1 /\ orig' = orig
        /\ profile' = profile /\ origin' = origin
    BY <1>7 DEF Export, input
  <2>3. 1 \in 1 .. Len(Ports) + 1 BY PortCount
  <2> QED BY <1>0, <2>1, <2>2, <2>3, Zenon DEF Phases
<1> QED BY <1>1, <1>2, <1>3, <1>4, <1>5, <1>6, <1>7 DEF Next

\* Every step keeps what the ports have got.
LEMMA WireStep == ASSUME Phases, WireInv, [Next]_vars PROVE WireInv'
<1> DEFINE got(p) == Resolve(ForPort(profile, Ports[p]))
<1>0. /\ k \in 1 .. Len(Ports) + 1 /\ (pc \in {"load", "tag", "resolve"} => k = 1)
      /\ \A p \in 1 .. k - 1 : Resolvable(ForPort(profile, Ports[p]))
      /\ wire = [p \in 1 .. Len(Ports) |-> IF p < k THEN got(p) ELSE <<>>]
  BY Zenon DEF Phases, WireInv
<1>a. ASSUME k' = 1, wire' = NoWire PROVE WireInv'
  <2>1. \A p \in 1 .. Len(Ports) : ~(p < k') BY <1>a, PortCount
  <2>2. wire' = [p \in 1 .. Len(Ports) |-> <<>>] BY <1>a DEF NoWire
  <2>3. wire' = [p \in 1 .. Len(Ports) |->
                   IF p < k' THEN Resolve(ForPort(profile', Ports[p])) ELSE <<>>]
    BY <2>1, <2>2
  <2>4. \A p \in 1 .. k' - 1 : FALSE BY <1>a
  <2> QED BY <2>3, <2>4 DEF WireInv
<1>b. k = 1 => wire = NoWire
  <2> SUFFICES ASSUME k = 1 PROVE wire = NoWire OBVIOUS
  <2>1. \A p \in 1 .. Len(Ports) : ~(p < k) BY PortCount
  <2> HIDE DEF got
  <2> QED BY <1>0, <2>1 DEF NoWire
<1>1. CASE Load \/ Tag
  <2>1. pc \in {"load", "tag"} /\ k' = k /\ wire' = wire BY <1>1, LoadCases DEF Tag
  <2> QED BY <1>0, <1>a, <1>b, <2>1
<1>2. CASE CheckProfile \/ Uploaded \/ Play \/ SendBurst \/ UNCHANGED vars
  <2>1. k' = k /\ wire' = wire /\ profile' = profile
    BY <1>2 DEF CheckProfile, Uploaded, Play, SendBurst, vars
  <2> QED BY <2>1, Zenon DEF WireInv
<1>3. CASE Export BY <1>3, <1>a DEF Export
<1>4. CASE loadPort
  <2> DEFINE sub == ForPort(profile, Ports[k])
  <2>1. k \in 1 .. Len(Ports) /\ profile' = profile BY <1>0, <1>4, PortCount DEF loadPort
  <2>2. CASE ~Resolvable(sub)
    <3>1. wire' = wire /\ k' = k BY <1>4, <2>2 DEF loadPort
    <3> QED BY <2>1, <3>1, Zenon DEF WireInv
  <2>3. CASE Resolvable(sub)
    <3>1. wire' = [wire EXCEPT ![k] = Resolve(sub)] /\ k' = k + 1 BY <1>4, <2>3 DEF loadPort
    <3>2. got(k) = Resolve(sub) OBVIOUS
    <3>3. \A p \in 1 .. k' - 1 : p = k \/ p \in 1 .. k - 1 BY <2>1, <3>1, PortCount
    <3>4. \A p \in 1 .. k' - 1 : Resolvable(ForPort(profile', Ports[p]))
      BY <1>0, <2>1, <2>3, <3>3
    <3>5. \A p \in 1 .. Len(Ports) : p < k' <=> p = k \/ p < k BY <2>1, <3>1, PortCount
    <3>6. ~(k < k) BY <2>1, PortCount
    <3> HIDE DEF got, sub
    <3>7. wire' = [p \in 1 .. Len(Ports) |-> IF p < k' THEN got(p) ELSE <<>>]
      <4>1. wire' = [p \in 1 .. Len(Ports) |-> IF p = k THEN got(k) ELSE wire[p]]
        BY <1>0, <2>1, <3>1, <3>2
      <4>2. ASSUME NEW p \in 1 .. Len(Ports)
            PROVE  (IF p = k THEN got(k) ELSE wire[p]) = IF p < k' THEN got(p) ELSE <<>>
        <5>1. wire[p] = IF p < k THEN got(p) ELSE <<>> BY <1>0
        <5>2. CASE p = k BY <3>5, <5>2
        <5>3. CASE p # k BY <3>5, <5>1, <5>3
        <5> QED BY <5>2, <5>3
      <4> QED BY <4>1, <4>2
    <3> QED BY <2>1, <3>4, <3>7 DEF WireInv, got
  <2> QED BY <2>2, <2>3
<1> QED BY <1>1, <1>2, <1>3, <1>4 DEF Next

\* A step that leaves the input, the loaded profile and the snapshot alone.
Quiet == Tag \/ CheckProfile \/ loadPort \/ Uploaded \/ Play \/ SendBurst \/ UNCHANGED vars

\* Only Load and Export are not quiet, and no quiet step goes back to loading.
LEMMA QuietStep ==
    ASSUME Quiet
    PROVE  /\ UNCHANGED <<cmd, origin, source, options, orig, snapshot>>
           /\ pc' \in {"load", "rejected"} \/ pc \notin {"load", "rejected"}
           /\ pc' = "load" \/ pc # "load"
           /\ pc' = "tag" => pc = "tag"
  BY DEF Quiet, Tag, CheckProfile, loadPort, Uploaded, Play, SendBurst, vars, input

\* Tagging apart, the profile of a command is the one loaded.
LEMMA ProfileOf ==
    ASSUME Phases, pc # "load"
    PROVE  DOMAIN profile = DOMAIN orig /\ \A n \in DOMAIN orig : SameButGroup(profile[n], orig[n])
<1>1. IsProfile(orig) BY DEF Phases
<1>2. CASE profile = orig BY <1>2 DEF SameButGroup
<1>3. CASE profile = EnsureFlowStats(orig, 1) BY <1>1, <1>3, Tagging
<1>4. profile = orig \/ profile = EnsureFlowStats(orig, 1)
  <2>1. pc = "tag" => profile = orig BY Zenon DEF Phases
  <2>2. pc \notin {"load", "tag"} =>
          profile = IF cmd = "ndr" THEN EnsureFlowStats(orig, 1) ELSE orig
    BY Zenon DEF Phases
  <2> QED BY <2>1, <2>2
<1> QED BY <1>2, <1>3, <1>4

\* The streams of a port of a file's profile are those of a file.
LEMMA PortFromFile ==
    ASSUME Phases, pc # "load", FromFile(orig), NEW port, NEW sub, sub = ForPort(profile, port)
    PROVE  FromFile(sub)
<1>1. IsProfile(profile) BY DEF Phases
<1>2. ASSUME NEW n \in DOMAIN sub
      PROVE  sub[n].id = None /\ sub[n].dummy = FALSE /\ sub[n].mode \in KnownModes
  <2>1. PICK m \in DOMAIN profile : sub[n] = profile[m] BY <1>1, ForPortProfile DEF ToSet
  <2>2. m \in DOMAIN orig /\ SameButGroup(profile[m], orig[m]) BY <2>1, ProfileOf
  <2>3. orig[m].id = None /\ orig[m].dummy = FALSE /\ orig[m].mode \in KnownModes
    BY <2>2 DEF FromFile
  <2> QED BY <2>1, <2>2, <2>3 DEF SameButGroup
<1> QED BY <1>2 DEF FromFile

\* Every step keeps what is known of the streams of files.
LEMMA FileStep == ASSUME Phases, FileInv, [Next]_vars PROVE FileInv'
<1>1. CASE Load
  <2>1. CASE /\ origin = "" /\ orig' = orig BY <2>1 DEF FileInv
  <2>2. ASSUME NEW p, orig' = p, LoadsFirst(p) \/ LoadsAgain(p) PROVE FileInv'
    BY <2>2, LoadedProfile DEF FileInv
  <2> QED BY <1>1, <2>1, <2>2, LoadCases
<1>2. CASE Export BY <1>2 DEF Export, FileInv, input
<1>3. CASE Quiet BY <1>3, QuietStep DEF FileInv
<1> QED BY <1>1, <1>2, <1>3 DEF Next, Quiet

\* Exporting numbers the streams in order; the snapshot then stays.
LEMMA SnapStep == ASSUME Phases, WireInv, FileInv, SnapInv, [Next]_vars PROVE SnapInv'
<1>1. CASE Load
  <2>1. snapshot' = snapshot BY <1>1, LoadCases
  <2>2. snapshot = <<>> \/ origin' = origin
    <3>1. origin = "" => snapshot = <<>> BY Zenon DEF Phases
    <3> QED BY <1>1, <3>1, LoadCases DEF LoadsFirst, LoadsAgain, input
  <2>3. CASE snapshot = <<>>
    <3>1. DOMAIN snapshot' = {} BY <2>1, <2>3
    <3> QED BY <3>1 DEF SnapInv
  <2>4. CASE origin' = origin BY <2>1, <2>4, Zenon DEF SnapInv
  <2> QED BY <2>2, <2>3, <2>4
<1>2. CASE Quiet
  <2>1. snapshot' = snapshot /\ origin' = origin BY <1>2, QuietStep
  <2> QED BY <2>1, Zenon DEF SnapInv
<1>3. CASE Export
  <2> DEFINE sub == ForPort(profile, Ports[1])
             w == wire[1]
  <2>1. pc = "done" /\ origin' = origin BY <1>3 DEF Export, input
  <2>2. /\ IsProfile(sub) /\ Resolvable(sub) /\ w = Resolve(sub) /\ DOMAIN snapshot' = DOMAIN sub
        /\ \A n \in DOMAIN sub :
             /\ IsWire(w[n])
             /\ snapshot'[n] = Bare(w[n]) \/ snapshot'[n] = Wrapped(w[n])
    BY <1>3, Exported
  <2>3. origin # "library" => FromFile(sub) BY <2>1, PortFromFile DEF FileInv
  <2> HIDE DEF sub, w
  <2>4. ASSUME NEW n \in DOMAIN snapshot'
        PROVE  /\ snapshot'[n].name = sub[n].name /\ snapshot'[n].next = sub[n].next
               /\ snapshot'[n].stream.name \in {NoName, snapshot'[n].name}
               /\ snapshot'[n].stream.next \in {NoName, snapshot'[n].next}
               /\ snapshot'[n].stream.id = w[n].id /\ snapshot'[n].stream.nextId = w[n].nextId
               /\ snapshot'[n].stream.dummy = sub[n].dummy /\ snapshot'[n].stream.mode = sub[n].mode
    <3>1. Carries(w[n], sub[n]) /\ IsWire(w[n]) BY <2>2, Resolved
    <3>2. snapshot'[n] = Bare(w[n]) \/ snapshot'[n] = Wrapped(w[n]) BY <2>2
    <3> QED BY <3>1, <3>2, ExportedItem DEF Carries
  <2>5. ASSUME origin # "library", NEW n \in DOMAIN snapshot'
        PROVE  /\ snapshot'[n].stream.id = n - 1 /\ snapshot'[n].stream.dummy = FALSE
               /\ snapshot'[n].stream.mode \in KnownModes
               /\ snapshot'[n].next = NoName => snapshot'[n].stream.nextId = -1
               /\ \A m \in DOMAIN snapshot' :
                    snapshot'[n].next # NoName /\ snapshot'[m].name = snapshot'[n].next
                      => snapshot'[n].stream.nextId = m - 1
    <3>1. FromFile(sub) /\ \A i \in DOMAIN sub : sub[i].id = None BY <2>3, <2>5 DEF FromFile
    <3>2. n \in DOMAIN sub BY <2>2
    <3>3. w[n].id = n - 1 /\ \A m \in DOMAIN sub :
             sub[n].next # NoName /\ sub[m].name = sub[n].next => w[n].nextId = m - 1
      BY <2>2, <3>1, <3>2, ResolvedInOrder
    <3>4. sub[n].next = NoName => w[n].nextId = -1 BY <2>2, <3>2, Resolved
    <3>5. sub[n].dummy = FALSE /\ sub[n].mode \in KnownModes BY <3>1, <3>2 DEF FromFile
    <3> QED BY <2>2, <2>4, <3>3, <3>4, <3>5
  <2>6. origin' # "library" => origin # "library" BY <2>1
  <2> QED BY <2>4, <2>5, <2>6, Zenon DEF SnapInv
<1> QED BY <1>1, <1>2, <1>3 DEF Next, Quiet

\* A snapshot gives back the names its streams were uploaded with.
LEMMA NamesRestored ==
    ASSUME SnapInv, NEW n \in DOMAIN snapshot
    PROVE  /\ Taken(snapshot[n].stream.name, snapshot[n].name) = snapshot[n].name
           /\ Taken(snapshot[n].stream.next, snapshot[n].next) = snapshot[n].next
<1>1. snapshot[n].stream.name \in {NoName, snapshot[n].name}
      /\ snapshot[n].stream.next \in {NoName, snapshot[n].next}
  BY Zenon DEF SnapInv
<1> QED BY <1>1 DEF Taken

\* A capture stays a chain from its file to the export and back.
LEMMA ChainStep == ASSUME Phases, WireInv, SnapInv, ChainInv, [Next]_vars PROVE ChainInv'
<1>1. CASE Load
  <2>1. snapshot' = snapshot /\ pc = "load" BY <1>1, LoadCases
  <2>2. origin = "" => snapshot = <<>> BY Zenon DEF Phases
  <2>3. CASE /\ origin = "" /\ pc' = "rejected"
             /\ origin' = "pcap" => source' \in Captures /\ options' \in Options
    BY <2>1, <2>2, <2>3 DEF ChainInv
  <2>4. ASSUME NEW p, orig' = p, LoadsFirst(p), origin' = "pcap" PROVE ChainInv'
    <3>1. /\ source' \in Captures /\ options' \in Options /\ PcapLoads(source')
          /\ p = LoadPcap(source', options') /\ snapshot = <<>>
      BY <2>2, <2>4 DEF LoadsFirst
    <3>2. source' \in Seq(Captured) BY <3>1, UploadAssumption
    <3>3. Chained(p, source', options') /\ NoDirections(p) BY <3>1, <3>2, PcapProfile
    <3> QED BY <2>1, <2>4, <3>1, <3>3 DEF ChainInv, PcapLoads
  <2>5. ASSUME NEW p, orig' = p, LoadsAgain(p), origin' = "pcap" PROVE ChainInv'
    <3>1. /\ snapshot # <<>> /\ origin = "pcap" /\ source' = source /\ options' = options
          /\ p = LoadSnapshot(snapshot)
      BY <2>5 DEF LoadsAgain, input
    <3>2. /\ source \in Captures /\ options \in Options /\ source # <<>>
          /\ Len(snapshot) = Len(source)
          /\ \A i \in DOMAIN snapshot :
                /\ snapshot[i].name = PcapName(i) /\ snapshot[i].stream.self = (i = 1)
                /\ snapshot[i].stream.isg = gapBefore(source, i, options)
                /\ snapshot[i].next = IF i < Len(source) THEN PcapName(i + 1) ELSE NoName
      BY <3>1, Zenon DEF ChainInv
    <3>3. IsSnapshot(snapshot) BY DEF Phases
    <3>4. /\ NoDirections(p) /\ DOMAIN p = DOMAIN snapshot /\ Len(p) = Len(snapshot)
          /\ \A n \in DOMAIN snapshot :
                /\ p[n].name = Taken(snapshot[n].stream.name, snapshot[n].name)
                /\ p[n].next = Taken(snapshot[n].stream.next, snapshot[n].next)
                /\ p[n].self = snapshot[n].stream.self /\ p[n].isg = snapshot[n].stream.isg
      BY <3>1, <3>3, SnapshotProfile
    <3>5. ASSUME NEW i \in DOMAIN p
          PROVE  /\ p[i].name = PcapName(i) /\ p[i].self = (i = 1)
                 /\ p[i].isg = gapBefore(source, i, options)
                 /\ p[i].next = IF i < Len(source) THEN PcapName(i + 1) ELSE NoName
      <4>1. i \in DOMAIN snapshot BY <3>4
      <4>2. p[i].name = snapshot[i].name /\ p[i].next = snapshot[i].next
        BY <3>4, <4>1, NamesRestored
      <4>3. p[i].self = snapshot[i].stream.self /\ p[i].isg = snapshot[i].stream.isg
        BY <3>4, <4>1, Zenon
      <4> QED BY <3>2, <4>1, <4>2, <4>3, Zenon
    <3>6. Len(p) = Len(source) BY <3>2, <3>4, Zenon
    <3>7. Chained(p, source, options) BY <3>5, <3>6, Zenon DEF Chained
    <3> QED BY <2>1, <2>5, <3>1, <3>2, <3>4, <3>7, Zenon DEF ChainInv
  <2>6. CASE origin' # "pcap" BY <2>6 DEF ChainInv
  <2> QED BY <1>1, <2>3, <2>4, <2>5, <2>6, LoadCases
<1>2. CASE Quiet BY <1>2, QuietStep, Zenon DEF ChainInv
<1>3. CASE Export
  <2> DEFINE sub == ForPort(profile, Ports[1])
             w == wire[1]
  <2>1. pc = "done" /\ pc' = "load" /\ UNCHANGED <<origin, source, options, orig>>
    BY <1>3 DEF Export, input
  <2>2. CASE origin # "pcap" BY <2>1, <2>2 DEF ChainInv
  <2>3. CASE origin = "pcap"
    <3>1. /\ source \in Captures /\ options \in Options /\ source # <<>>
          /\ Chained(orig, source, options) /\ NoDirections(orig)
      BY <2>1, <2>3 DEF ChainInv
    <3>2. DOMAIN profile = DOMAIN orig /\ Len(profile) = Len(orig) /\ IsProfile(profile)
          /\ \A n \in DOMAIN orig : SameButGroup(profile[n], orig[n])
      BY <2>1, ProfileOf DEF Phases
    <3>3. NoDirections(profile) BY <3>1, <3>2 DEF NoDirections, SameButGroup
    <3>4. sub = profile BY <3>2, <3>3, ForPortAll DEF NoDirections
    <3>5. /\ IsProfile(sub) /\ Resolvable(sub) /\ w = Resolve(sub) /\ DOMAIN snapshot' = DOMAIN sub
          /\ Len(snapshot') = Len(sub)
          /\ \A n \in DOMAIN sub :
               /\ IsWire(w[n])
               /\ snapshot'[n] = Bare(w[n]) \/ snapshot'[n] = Wrapped(w[n])
      BY <1>3, Exported
    <3> HIDE DEF sub, w
    <3>6. ASSUME NEW i \in DOMAIN snapshot'
          PROVE  /\ snapshot'[i].name = PcapName(i) /\ snapshot'[i].stream.self = (i = 1)
                 /\ snapshot'[i].stream.isg = gapBefore(source, i, options)
                 /\ snapshot'[i].next = IF i < Len(source) THEN PcapName(i + 1) ELSE NoName
      <4>1. Carries(w[i], sub[i]) /\ IsWire(w[i]) BY <3>5, Resolved
      <4>2. snapshot'[i] = Bare(w[i]) \/ snapshot'[i] = Wrapped(w[i]) BY <3>5
      <4>3. /\ snapshot'[i].name = w[i].name /\ snapshot'[i].next = w[i].next
            /\ snapshot'[i].stream.self = w[i].self /\ snapshot'[i].stream.isg = w[i].isg
        BY <4>1, <4>2, ExportedItem
      <4>4. i \in DOMAIN orig /\ SameButGroup(sub[i], orig[i]) BY <3>2, <3>4, <3>5
      <4>5. /\ orig[i].name = PcapName(i) /\ orig[i].self = (i = 1)
            /\ orig[i].isg = gapBefore(source, i, options)
            /\ orig[i].next = IF i < Len(source) THEN PcapName(i + 1) ELSE NoName
        BY <3>1, <4>4, Zenon DEF Chained
      <4> QED BY <4>1, <4>3, <4>4, <4>5, Zenon DEF Carries, SameButGroup
    <3>7. Len(snapshot') = Len(source) BY <3>1, <3>2, <3>4, <3>5 DEF Chained
    <3> QED BY <2>1, <3>1, <3>6, <3>7, Zenon DEF ChainInv
  <2> QED BY <2>2, <2>3
<1> QED BY <1>1, <1>2, <1>3 DEF Next, Quiet

-----------------------------------------------------------------------------
(* What the invariant says of the upload *)

\* The ids and references of an upload are consistent in every state.
LEMMA InvWireConsistent == ASSUME Phases, WireInv PROVE WireConsistent
<1> SUFFICES ASSUME NEW p \in 1 .. Len(Ports)
             PROVE  LET w == wire[p] IN
                    /\ \A m, n \in DOMAIN w : m # n => w[m].id # w[n].id
                    /\ \A n \in DOMAIN w : w[n].nextId # -1 =>
                          LET sub == ForPort(profile, Ports[p]) IN
                          \E m \in DOMAIN w : w[m].id = w[n].nextId /\ w[m].name = sub[n].next
  BY Zenon DEF WireConsistent
<1> DEFINE sub == ForPort(profile, Ports[p])
           w == wire[p]
<1>0. p < k \/ p >= k
  <2>1. k \in 1 .. Len(Ports) + 1 BY Zenon DEF Phases
  <2> QED BY <2>1, PortCount
<1>1. CASE p >= k
  <2>1. w = <<>> BY <1>1, WireOf
  <2>2. DOMAIN w = {} BY <2>1
  <2> QED BY <2>2
<1>2. CASE p < k
  <2>1. IsProfile(sub) /\ Resolvable(sub) /\ w = Resolve(sub) BY <1>2, WireOf
  <2> HIDE DEF sub, w
  <2>2. /\ DOMAIN w = DOMAIN sub
        /\ \A n \in DOMAIN sub : IsWire(w[n]) /\ Carries(w[n], sub[n])
        /\ \A m, n \in DOMAIN sub : m # n => w[m].id # w[n].id
        /\ \A n \in DOMAIN sub : sub[n].next = NoName => w[n].nextId = -1
        /\ \A n \in DOMAIN sub : sub[n].next # NoName =>
               \E m \in DOMAIN sub : sub[m].name = sub[n].next /\ w[n].nextId = w[m].id
    BY <2>1, Resolved
  <2>3. ASSUME NEW n \in DOMAIN w, w[n].nextId # -1
        PROVE  \E m \in DOMAIN w : w[m].id = w[n].nextId /\ w[m].name = sub[n].next
    <3>1. sub[n].next # NoName BY <2>2, <2>3
    <3>2. PICK m \in DOMAIN sub : sub[m].name = sub[n].next /\ w[n].nextId = w[m].id
      BY <2>2, <2>3, <3>1
    <3>3. w[m].name = sub[m].name BY <2>2, <3>2 DEF Carries
    <3> QED BY <2>2, <3>2, <3>3
  <2> QED BY <2>2, <2>3, Zenon DEF sub, w
<1> QED BY <1>0, <1>1, <1>2

\* The ndr command's groups.
LEMMA InvTagsDistinct == ASSUME Phases PROVE TagsDistinct
<1> SUFFICES ASSUME cmd = "ndr", pc \notin {"load", "tag"}
             PROVE  LET new == {n \in DOMAIN profile : profile[n].pg # orig[n].pg} IN
                    /\ \A m, n \in new : m # n => profile[m].pg # profile[n].pg
                    /\ \A n \in DOMAIN profile : profile[n].dummy \/ profile[n].pg # None
  BY Zenon DEF TagsDistinct
<1>1. IsProfile(orig) /\ profile = EnsureFlowStats(orig, 1) BY DEF Phases
<1>2. /\ DOMAIN profile = DOMAIN orig
      /\ \A n \in DOMAIN orig : profile[n].dummy \/ profile[n].pg # None
      /\ \A m, n \in DOMAIN orig :
           m # n /\ profile[m].pg # orig[m].pg /\ profile[n].pg # orig[n].pg
             => profile[m].pg # profile[n].pg
  BY <1>1, Tagging
<1> QED BY <1>2, Zenon

\* A file's upload, exported and loaded again, goes on the wire as it was.
LEMMA InvSnapshotFaithful == ASSUME Phases, WireInv, SnapInv PROVE SnapshotFaithful
<1> SUFFICES ASSUME pc = "done", snapshot # <<>>, origin # "library", cmd = "streams",
                    NEW p \in 1 .. Len(Ports)
             PROVE  wire[p] = [n \in DOMAIN snapshot |-> [snapshot[n].stream EXCEPT
                                 !.name = snapshot[n].name, !.next = snapshot[n].next]]
  BY Zenon DEF SnapshotFaithful
<1> DEFINE w == wire[p]
<1>1. IsSnapshot(snapshot) /\ profile = LoadSnapshot(snapshot) BY DEF Phases
<1>2. /\ IsProfile(profile) /\ FromFile(profile) /\ NoDirections(profile)
      /\ DOMAIN profile = DOMAIN snapshot
      /\ \A n \in DOMAIN snapshot :
           /\ profile[n].name = Taken(snapshot[n].stream.name, snapshot[n].name)
           /\ profile[n].next = Taken(snapshot[n].stream.next, snapshot[n].next)
           /\ profile[n].pg = snapshot[n].stream.pg /\ profile[n].self = snapshot[n].stream.self
           /\ profile[n].isg = snapshot[n].stream.isg
           /\ profile[n].mode = toMode(snapshot[n].stream.mode)
           /\ profile[n].packet = snapshot[n].stream.packet /\ profile[n].vm = snapshot[n].stream.vm
  BY <1>1, SnapshotProfile
<1>3. ForPort(profile, Ports[p]) = profile BY <1>2, ForPortAll DEF NoDirections
<1>4. p < k
  <2>1. k = Len(Ports) + 1 BY Zenon DEF Phases
  <2> QED BY <2>1, PortCount
<1>5. Resolvable(profile) /\ w = Resolve(profile) BY <1>3, <1>4, WireOf
<1>6. \A n \in DOMAIN profile : profile[n].id = None BY <1>2 DEF FromFile
<1> HIDE DEF w
<1>7. ASSUME NEW n \in DOMAIN snapshot, NEW r,
             r = [snapshot[n].stream EXCEPT !.name = snapshot[n].name, !.next = snapshot[n].next]
      PROVE  w[n] = r
  <2> DEFINE s == snapshot[n].stream
  <2>1. /\ profile[n].name = snapshot[n].name /\ profile[n].next = snapshot[n].next
        /\ \A m \in DOMAIN snapshot : profile[m].name = snapshot[m].name
    BY <1>2, NamesRestored
  <2>2. /\ s.id = n - 1 /\ s.dummy = FALSE /\ s.mode \in KnownModes
        /\ snapshot[n].next = NoName => s.nextId = -1
        /\ \A m \in DOMAIN snapshot :
             snapshot[n].next # NoName /\ snapshot[m].name = snapshot[n].next => s.nextId = m - 1
    BY <1>7, Zenon DEF SnapInv
  <2>3. IsWire(w[n]) /\ Carries(w[n], profile[n]) /\ w[n].id = n - 1
    BY <1>2, <1>5, <1>6, Resolved, ResolvedInOrder
  <2>4. w[n].nextId = s.nextId
    <3>1. CASE profile[n].next = NoName
      <4>1. w[n].nextId = -1 BY <1>2, <1>5, <3>1, Resolved
      <4> QED BY <2>1, <2>2, <3>1, <4>1
    <3>2. CASE profile[n].next # NoName
      <4>1. PICK m \in DOMAIN profile : profile[m].name = profile[n].next
        BY <1>2, <1>5, <3>2, Resolved
      <4>2. w[n].nextId = m - 1 BY <1>2, <1>5, <1>6, <3>2, <4>1, ResolvedInOrder
      <4>3. s.nextId = m - 1 BY <1>2, <2>1, <2>2, <3>2, <4>1
      <4> QED BY <4>2, <4>3
    <3> QED BY <3>1, <3>2
  <2>5. toMode(s.mode) = s.mode BY <2>2 DEF toMode, KnownModes
  <2>6. profile[n].dummy = FALSE BY <1>2 DEF FromFile
  <2>7. IsWire(s) BY <1>1 DEF IsSnapshot
  <2>8. /\ profile[n].pg = s.pg /\ profile[n].self = s.self /\ profile[n].isg = s.isg
        /\ profile[n].mode = toMode(s.mode) /\ profile[n].packet = s.packet /\ profile[n].vm = s.vm
    BY <1>2, Zenon
  <2>9. /\ w[n].id = s.id /\ w[n].name = snapshot[n].name /\ w[n].next = snapshot[n].next
        /\ w[n].nextId = s.nextId /\ w[n].pg = s.pg /\ w[n].dummy = s.dummy /\ w[n].self = s.self
        /\ w[n].isg = s.isg /\ w[n].mode = s.mode /\ w[n].packet = s.packet /\ w[n].vm = s.vm
    BY <2>1, <2>2, <2>3, <2>4, <2>5, <2>6, <2>8, Zenon DEF Carries
  <2>10. r = [id |-> s.id, name |-> snapshot[n].name, next |-> snapshot[n].next, nextId |-> s.nextId,
              pg |-> s.pg, dummy |-> s.dummy, self |-> s.self, isg |-> s.isg, mode |-> s.mode,
              packet |-> s.packet, vm |-> s.vm]
    BY <1>7, <2>7, Renamed
  <2> HIDE DEF s
  <2>11. w[n] = [id |-> w[n].id, name |-> w[n].name, next |-> w[n].next, nextId |-> w[n].nextId,
                 pg |-> w[n].pg, dummy |-> w[n].dummy, self |-> w[n].self, isg |-> w[n].isg,
                 mode |-> w[n].mode, packet |-> w[n].packet, vm |-> w[n].vm]
    BY <2>3, Zenon DEF IsWire
  <2> QED BY <2>9, <2>10, <2>11, Zenon
<1>8. PICK len \in Nat : DOMAIN snapshot = 1 .. len BY <1>1 DEF IsSnapshot
<1>9. DOMAIN w = DOMAIN snapshot /\ w \in Seq(ToSet(w)) BY <1>2, <1>5, Resolved
<1>10. w = [n \in DOMAIN snapshot |-> w[n]] BY <1>8, <1>9
<1> QED BY <1>7, <1>10, Zenon DEF w

-----------------------------------------------------------------------------
(* The replay of a capture *)

\* Whole microseconds are integers.
LEMMA MicrosInt == ASSUME NEW d \in Int PROVE Micros(d) \in Int
<1>1. ASSUME NEW x \in Nat PROVE x \div TicksPerMicro \in Int BY TicksAssumption
<1>2. CASE d >= 0 BY <1>1, <1>2 DEF Micros
<1>3. CASE ~(d >= 0)
  <2>1. -d \in Nat BY <1>3
  <2>2. (-d) \div TicksPerMicro \in Int BY <1>1, <2>1
  <2> QED BY <1>3, <2>2 DEF Micros
<1> QED BY <1>2, <1>3

\* A gap is never negative: it is clamped to the minimal one.
LEMMA GapNat ==
    ASSUME NEW pkts \in Seq(Captured), NEW i \in DOMAIN pkts, NEW opts \in Options
    PROVE  gapBefore(pkts, i, opts) \in Nat
<1>1. opts.ipg \in Nat /\ opts.minIpg \in Nat /\ opts.speedup \in Nat BY UploadAssumption
<1>2. CASE opts.ipg > 0 BY <1>1, <1>2 DEF gapBefore
<1>3. CASE ~(opts.ipg > 0) /\ i = 1 BY <1>1, <1>3 DEF gapBefore
<1>4. CASE ~(opts.ipg > 0) /\ i # 1
  <2> DEFINE speedup == IF opts.speedup = 0 THEN 1 ELSE opts.speedup
             m == Micros(pkts[i].ts - pkts[i - 1].ts)
             x == (m * TicksPerMicro) \div speedup
  <2>1. i - 1 \in DOMAIN pkts BY <1>4
  <2>2. pkts[i].ts - pkts[i - 1].ts \in Int
    <3>1. pkts[i] \in Captured /\ pkts[i - 1] \in Captured BY <2>1
    <3>2. ASSUME NEW c \in Captured PROVE c.ts \in Nat BY DEF Captured
    <3>3. pkts[i].ts \in Nat /\ pkts[i - 1].ts \in Nat BY <3>1, <3>2
    <3> QED BY <3>3
  <2>3. m \in Int BY <2>2, MicrosInt
  <2>4. speedup \in Nat \ {0} BY <1>1
  <2>5. gapBefore(pkts, i, opts) = Larger(x, opts.minIpg) BY <1>4 DEF gapBefore
  <2> HIDE DEF m, speedup
  <2>6. m * TicksPerMicro \in Int BY <2>3, TicksAssumption
  <2>7. x \in Int BY <2>4, <2>6
  <2> HIDE DEF x
  <2> QED BY <1>1, <2>5, <2>7 DEF Larger
<1> QED BY <1>2, <1>3, <1>4

\* What the first port has of a capture: its packets in order, each referring to
\* the next by its id.
LEMMA ChainOnWire ==
    ASSUME Phases, WireInv, FileInv, ChainInv, pc \in {"done", "playing"}, origin = "pcap",
           NEW w, w = wire[1]
    PROVE  /\ source \in Seq(Captured) /\ options \in Options /\ source # <<>>
           /\ Len(source) \in Nat \ {0} /\ DOMAIN w = 1 .. Len(source) /\ Len(w) = Len(source)
           /\ w \in Seq(ToSet(w))
           /\ \A n \in 1 .. Len(source) :
                /\ w[n].id = n - 1 /\ w[n].self = (n = 1)
                /\ w[n].isg = gapBefore(source, n, options)
                /\ w[n].nextId = IF n < Len(source) THEN n ELSE -1
<1>1. /\ source \in Captures /\ options \in Options /\ source # <<>>
      /\ Chained(orig, source, options) /\ NoDirections(orig)
  BY DEF ChainInv
<1>2. source \in Seq(Captured) BY <1>1, UploadAssumption
<1>3. Len(source) \in Nat \ {0} BY <1>1, <1>2, EmptySeq
<1>4. DOMAIN profile = DOMAIN orig /\ Len(profile) = Len(orig) /\ IsProfile(profile)
      /\ \A n \in DOMAIN orig : SameButGroup(profile[n], orig[n])
  BY ProfileOf DEF Phases
<1>5. NoDirections(profile) BY <1>1, <1>4 DEF NoDirections, SameButGroup
<1>6. ForPort(profile, Ports[1]) = profile BY <1>4, <1>5, ForPortAll DEF NoDirections
<1>7. 1 \in 1 .. Len(Ports) /\ 1 < k
  <2>1. k = Len(Ports) + 1 BY Zenon DEF Phases
  <2> QED BY <2>1, PortCount
<1>8. Resolvable(profile) /\ w = Resolve(profile) BY <1>6, <1>7, WireOf
<1>9. /\ w \in Seq(ToSet(w)) /\ DOMAIN w = DOMAIN profile /\ Len(w) = Len(profile)
      /\ \A n \in DOMAIN profile : Carries(w[n], profile[n])
      /\ \A n \in DOMAIN profile : profile[n].next = NoName => w[n].nextId = -1
  BY <1>4, <1>8, Resolved
<1>10. \A n \in DOMAIN profile : profile[n].id = None
  <2>1. FromFile(orig) BY DEF FileInv
  <2> QED BY <1>4, <2>1 DEF FromFile, SameButGroup
<1>11. /\ \A n \in DOMAIN profile : w[n].id = n - 1
       /\ \A m, n \in DOMAIN profile :
              profile[n].next # NoName /\ profile[m].name = profile[n].next => w[n].nextId = m - 1
  BY <1>4, <1>8, <1>10, ResolvedInOrder
<1>12. Len(profile) = Len(source) /\ DOMAIN profile = 1 .. Len(source)
  BY <1>1, <1>4 DEF Chained, IsProfile
<1>13. ASSUME NEW n \in 1 .. Len(source)
       PROVE  /\ profile[n].name = PcapName(n) /\ profile[n].self = (n = 1)
              /\ profile[n].isg = gapBefore(source, n, options)
              /\ profile[n].next = IF n < Len(source) THEN PcapName(n + 1) ELSE NoName
  BY <1>1, <1>4, <1>12 DEF Chained, SameButGroup
<1>14. ASSUME NEW n \in 1 .. Len(source)
       PROVE  w[n].nextId = IF n < Len(source) THEN n ELSE -1
  <2>1. CASE n < Len(source)
    <3>1. n + 1 \in 1 .. Len(source) BY <1>3, <2>1
    <3>2. profile[n].next = PcapName(n + 1) /\ profile[n + 1].name = PcapName(n + 1)
      BY <1>13, <2>1, <3>1
    <3>3. PcapName(n + 1) # NoName BY DEF PcapName, NoName
    <3>4. w[n].nextId = (n + 1) - 1 BY <1>11, <1>12, <3>1, <3>2, <3>3
    <3> QED BY <2>1, <3>4
  <2>2. CASE ~(n < Len(source))
    <3>1. profile[n].next = NoName BY <1>13, <2>2
    <3> QED BY <1>9, <1>12, <2>2, <3>1
  <2> QED BY <2>1, <2>2
<1>15. ASSUME NEW n \in 1 .. Len(source)
       PROVE  w[n].id = n - 1 /\ w[n].self = (n = 1) /\ w[n].isg = gapBefore(source, n, options)
  BY <1>9, <1>11, <1>12, <1>13 DEF Carries
<1>16. DOMAIN w = 1 .. Len(source) /\ Len(w) = Len(source) BY <1>9, <1>12
<1> QED BY <1>1, <1>2, <1>3, <1>9, <1>14, <1>15, <1>16, Zenon

\* The server starts with the first packet and goes from each to the next.
LEMMA PlayStep ==
    ASSUME Phases, WireInv, FileInv, ChainInv, PlayInv, [Next]_vars PROVE PlayInv'
<1> DEFINE w == wire[1]
           len == Len(source)
           gap(n) == gapBefore(source, n, options)
<1>1. CASE Play
  <2>1. /\ pc = "done" /\ origin = "pcap" /\ pc' = "playing"
        /\ active' = (CHOOSE s \in ToSet(w) : s.self).id
        /\ UNCHANGED <<origin, source, options, now, sent>>
    BY <1>1 DEF Play, input
  <2>2. now = 0 /\ sent = <<>> BY <2>1 DEF PlayInv
  <2>3. /\ len \in Nat \ {0} /\ DOMAIN w = 1 .. len
        /\ \A n \in 1 .. len : w[n].id = n - 1 /\ w[n].self = (n = 1)
    BY <2>1, ChainOnWire
  <2> HIDE DEF w, len
  <2>4. 1 \in 1 .. len BY <2>3
  <2>5. w[1] \in ToSet(w) /\ w[1].self BY <2>3, <2>4 DEF ToSet
  <2>6. ASSUME NEW s \in ToSet(w), s.self PROVE s = w[1]
    <3>1. PICK n \in 1 .. len : s = w[n] BY <2>3 DEF ToSet
    <3> QED BY <2>3, <2>6, <3>1
  <2>7. (CHOOSE s \in ToSet(w) : s.self) = w[1] BY <2>5, <2>6
  <2>8. active' = 0
    <3>1. ASSUME NEW n \in 1 .. len, n = 1 PROVE w[n].id = 0 BY <2>3, <3>1
    <3>2. w[1].id = 0 BY <2>4, <3>1
    <3>3. active' = w[1].id BY <2>1, <2>7, Zenon
    <3> QED BY <3>2, <3>3
  <2>9. Len(sent) = 0 /\ DOMAIN sent = {} /\ sent \in Seq([pkt : Nat, at : Nat]) BY <2>2
  <2>10. 0 <= len /\ 0 < len BY <2>3
  <2>11. Replayed' BY <2>1, <2>2, <2>8, <2>9, <2>10 DEF Replayed, len
  <2> QED BY <2>1, <2>11 DEF PlayInv
<1>2. CASE SendBurst
  <2> DEFINE d == Len(sent)
             n == d + 1
  <2>1. /\ pc = "playing" /\ pc' = pc /\ active # None
        /\ UNCHANGED <<origin, source, options>>
        /\ LET m == CHOOSE m \in DOMAIN w : w[m].id = active
           IN  /\ now' = now + w[m].isg
               /\ sent' = Append(sent, [pkt |-> m, at |-> now'])
               /\ active' = w[m].nextId
    BY <1>2 DEF SendBurst, input
  <2>2. origin = "pcap" /\ Replayed BY <2>1 DEF PlayInv
  <2>3. /\ source \in Seq(Captured) /\ options \in Options /\ len \in Nat \ {0} /\ DOMAIN w = 1 .. len
        /\ \A i \in 1 .. len : w[i].id = i - 1 /\ w[i].isg = gap(i)
                               /\ w[i].nextId = IF i < len THEN i ELSE -1
    BY <2>1, <2>2, ChainOnWire
  <2>4. /\ sent \in Seq([pkt : Nat, at : Nat]) /\ d <= len
        /\ active = IF d < len THEN d ELSE None
        /\ now = IF d = 0 THEN 0 ELSE sent[d].at
        /\ \A i \in DOMAIN sent :
              /\ sent[i].pkt = i
              /\ sent[i].at = (IF i = 1 THEN 0 ELSE sent[i - 1].at) + gap(i)
    BY <2>2, Zenon DEF Replayed
  <2>5. d \in Nat /\ DOMAIN sent = 1 .. d BY <2>4
  <2>6. d < len /\ active = d BY <2>1, <2>4
  <2>7. gap(n) \in Nat
    <3>1. n \in DOMAIN source BY <2>3, <2>5, <2>6
    <3> QED BY <2>3, <3>1, GapNat
  <2>8. now \in Nat
    <3>1. CASE d = 0 BY <2>4, <3>1
    <3>2. CASE d # 0
      <4>1. d \in 1 .. d BY <2>5, <3>2
      <4>2. sent[d] \in [pkt : Nat, at : Nat] BY <2>4, <4>1, ElementOfSeq
      <4>3. sent[d].at \in Nat BY <4>2
      <4> QED BY <2>4, <3>2, <4>3
    <3> QED BY <3>1, <3>2
  <2> HIDE DEF w, len, gap, d
  <2>9. n \in 1 .. len BY <2>3, <2>5, <2>6
  <2>10. (CHOOSE m \in DOMAIN w : w[m].id = active) = n
    <3>1. w[n].id = active BY <2>3, <2>5, <2>6, <2>9
    <3>2. ASSUME NEW m \in 1 .. len, w[m].id = active PROVE m = n BY <2>3, <2>5, <2>6, <3>2
    <3> QED BY <2>3, <2>9, <3>1, <3>2
  <2>11. /\ now' = now + gap(n) /\ sent' = Append(sent, [pkt |-> n, at |-> now'])
         /\ active' = IF n < len THEN n ELSE -1
    <3>1. /\ now' = now + w[n].isg /\ sent' = Append(sent, [pkt |-> n, at |-> now'])
          /\ active' = w[n].nextId
      BY <2>1, <2>10
    <3> QED BY <2>3, <2>9, <3>1
  <2>12. now' \in Nat BY <2>7, <2>8, <2>11
  <2> DEFINE new == [pkt |-> n, at |-> now']
  <2>13. new \in [pkt : Nat, at : Nat] BY <2>5, <2>12
  <2>14. new.pkt = n /\ new.at = now' OBVIOUS
  <2> HIDE DEF new
  <2>15. /\ sent' \in Seq([pkt : Nat, at : Nat]) /\ Len(sent') = n /\ DOMAIN sent' = 1 .. n
         /\ sent'[n] = new /\ \A i \in 1 .. d : sent'[i] = sent[i]
    <3>1. sent' = Append(sent, new) BY <2>11 DEF new
    <3> QED BY <2>4, <2>5, <2>13, <3>1, AppendProperties DEF d
  <2>16. ASSUME NEW i \in 1 .. n
         PROVE  /\ sent'[i].pkt = i
                /\ sent'[i].at = (IF i = 1 THEN 0 ELSE sent'[i - 1].at) + gap(i)
    <3>1. CASE i = n
      <4>1. sent'[i].pkt = i /\ sent'[i].at = now' BY <2>14, <2>15, <3>1
      <4>2. now = IF i = 1 THEN 0 ELSE sent'[i - 1].at
        <5>1. CASE i = 1 BY <2>4, <2>5, <3>1, <5>1
        <5>2. CASE i # 1
          <6>1. i - 1 = d /\ d \in 1 .. d /\ d # 0 BY <2>5, <3>1, <5>2
          <6> QED BY <2>4, <2>15, <5>2, <6>1
        <5> QED BY <5>1, <5>2
      <4> QED BY <2>11, <3>1, <4>1, <4>2
    <3>2. CASE i # n
      <4>1. i \in 1 .. d BY <2>5, <3>2
      <4>2. sent'[i] = sent[i] BY <2>15, <4>1
      <4>3. i # 1 => sent'[i - 1] = sent[i - 1]
        <5>1. i # 1 => i - 1 \in 1 .. d BY <2>5, <4>1
        <5> QED BY <2>15, <5>1
      <4>4. /\ sent[i].pkt = i
            /\ sent[i].at = (IF i = 1 THEN 0 ELSE sent[i - 1].at) + gap(i)
        BY <2>4, <2>5, <4>1
      <4> QED BY <4>2, <4>3, <4>4
    <3> QED BY <3>1, <3>2
  <2>17. n <= len /\ n # 0 BY <2>5, <2>9
  <2>18. Replayed'
    <3>1. len' = len /\ \A i : gap(i)' = gap(i) BY <2>1 DEF len, gap
    <3>2. active' = IF Len(sent') < len THEN Len(sent') ELSE None BY <2>11, <2>15 DEF None
    <3>3. now' = IF Len(sent') = 0 THEN 0 ELSE sent'[Len(sent')].at BY <2>14, <2>15, <2>17
    <3>4. \A i \in DOMAIN sent' : /\ sent'[i].pkt = i
             /\ sent'[i].at = (IF i = 1 THEN 0 ELSE sent'[i - 1].at) + gap(i)
      BY <2>15, <2>16
    <3>5. sent' \in Seq([pkt : Nat, at : Nat]) /\ Len(sent') <= len BY <2>15, <2>17
    <3>6. source' = source /\ options' = options BY <2>1
    <3> QED BY <3>2, <3>3, <3>4, <3>5, <3>6, Zenon DEF Replayed, len, gap
  <2> QED BY <2>1, <2>2, <2>18 DEF PlayInv
<1>3. CASE UNCHANGED vars
  <2>1. UNCHANGED <<pc, origin, source, options, active, now, sent>>
    BY <1>3 DEF vars, server, input
  <2> QED BY <2>1, Zenon DEF PlayInv, Replayed
<1>4. CASE Load \/ Tag \/ CheckProfile \/ loadPort \/ Uploaded \/ Export
  <2>1. pc # "playing" /\ pc' # "playing" /\ UNCHANGED <<active, now, sent>>
    <3>1. CASE Load BY <3>1, LoadCases DEF server
    <3>2. CASE Tag \/ CheckProfile \/ loadPort \/ Uploaded \/ Export
      BY <3>2 DEF Tag, CheckProfile, loadPort, Uploaded, Export, server
    <3> QED BY <1>4, <3>1, <3>2
  <2> QED BY <2>1 DEF PlayInv
<1> QED BY <1>1, <1>2, <1>3, <1>4 DEF Next

\* A multiple of the ticks of a microsecond is converted without loss.
LEMMA MicrosExact ==
    ASSUME NEW a \in Nat, NEW b \in Nat, a % TicksPerMicro = 0, b % TicksPerMicro = 0
    PROVE  Micros(a - b) * TicksPerMicro = a - b
<1> DEFINE T == TicksPerMicro
<1>1. T \in Nat /\ T > 0 BY TicksAssumption
<1> HIDE DEF T
<1>2. ASSUME NEW x \in Nat, x % T = 0 PROVE \E q \in Nat : x = T * q
  <2> DEFINE q == x \div T
  <2>1. q \in Int /\ q >= 0 BY <1>1
  <2>2. x = T * q BY <1>1, <1>2
  <2> QED BY <2>1, <2>2
<1>3. ASSUME NEW q \in Nat PROVE (T * q) \div T = q BY <1>1
<1>4. PICK p \in Nat : a = T * p BY <1>2 DEF T
<1>5. PICK q \in Nat : b = T * q BY <1>2 DEF T
<1>6. a - b = T * (p - q) /\ -(a - b) = T * (q - p) BY <1>1, <1>4, <1>5
<1>7. CASE p >= q
  <2>1. p - q \in Nat BY <1>7
  <2>2. T * (p - q) >= 0 BY <1>1, <2>1
  <2>3. Micros(a - b) = (T * (p - q)) \div T BY <1>6, <2>2 DEF Micros, T
  <2>4. Micros(a - b) = p - q BY <1>3, <2>1, <2>3
  <2> QED BY <1>1, <1>6, <2>4 DEF T
<1>8. CASE q > p
  <2>1. q - p \in Nat /\ q - p > 0 BY <1>8
  <2>2. T * (q - p) > 0 BY <1>1, <2>1
  <2>3. ~(a - b >= 0) BY <1>6, <2>2
  <2>4. Micros(a - b) = -((T * (q - p)) \div T) BY <1>6, <2>3 DEF Micros, T
  <2>5. Micros(a - b) = -(q - p) BY <1>3, <2>1, <2>4
  <2> QED BY <1>1, <1>6, <2>5 DEF T
<1> QED BY <1>7, <1>8

\* Whatever is played is on the wire of the first port.
LEMMA InvTypeOK == ASSUME Phases, WireInv, FileInv, ChainInv, PlayInv PROVE TypeOK
<1>1. /\ pc \in {"load", "tag", "resolve", "upload", "done", "failed", "rejected", "playing"}
      /\ Len(profile) = Len(orig) /\ k \in 1 .. Len(Ports) + 1
  BY Zenon DEF Phases
<1>2. CASE pc # "playing"
  <2>1. active = None /\ now = 0 /\ sent = <<>> BY <1>2 DEF PlayInv
  <2>2. 1 \in 1 .. Len(Ports) /\ (1 >= k \/ 1 < k) BY <1>1, PortCount
  <2>3. 1 < k => wire[1] \in Seq(ToSet(wire[1])) BY <2>2, WireOf, Resolved
  <2>4. 1 >= k => wire[1] = <<>> BY <2>2, WireOf
  <2>5. Len(wire[1]) \in Nat BY <2>2, <2>3, <2>4
  <2> QED BY <1>1, <2>1, <2>5 DEF TypeOK
<1>3. CASE pc = "playing"
  <2> DEFINE w == wire[1]
             d == Len(sent)
  <2>1. origin = "pcap" /\ Replayed BY <1>3 DEF PlayInv
  <2>2. /\ Len(source) \in Nat \ {0} /\ DOMAIN w = 1 .. Len(source) /\ Len(w) = Len(source)
        /\ \A n \in 1 .. Len(source) : w[n].id = n - 1
    BY <1>3, <2>1, ChainOnWire
  <2>3. /\ sent \in Seq([pkt : Nat, at : Nat]) /\ d <= Len(source)
        /\ active = IF d < Len(source) THEN d ELSE None
        /\ now = IF d = 0 THEN 0 ELSE sent[d].at
    BY <2>1, Zenon DEF Replayed
  <2>4. d \in Nat BY <2>3
  <2>5. now \in Nat
    <3>1. CASE d = 0 BY <2>3, <3>1
    <3>2. CASE d # 0
      <4>1. d \in 1 .. d BY <2>4, <3>2
      <4>2. sent[d] \in [pkt : Nat, at : Nat] BY <2>3, <4>1, ElementOfSeq
      <4>3. sent[d].at \in Nat BY <4>2
      <4> QED BY <2>3, <3>2, <4>3
    <3> QED BY <3>1, <3>2
  <2> HIDE DEF w, d
  <2>6. ASSUME active # None PROVE \E s \in ToSet(w) : s.id = active
    <3>1. d < Len(source) /\ active = d BY <2>3, <2>6
    <3>2. d + 1 \in 1 .. Len(source) BY <2>2, <2>4, <3>1
    <3>3. w[d + 1].id = active BY <2>2, <2>4, <3>1, <3>2
    <3>4. w[d + 1] \in ToSet(w) BY <2>2, <3>2 DEF ToSet
    <3> QED BY <3>3, <3>4
  <2>7. d <= Len(w) BY <2>2, <2>3
  <2> QED BY <1>1, <2>5, <2>6, <2>7 DEF TypeOK, w, d
<1> QED BY <1>2, <1>3

\* The gap before packet n is the one between the timestamps, or longer.
KeepsGap(n) ==
    LET diff == source[n].ts - source[n - 1].ts
        gap  == gapBefore(source, n, options)
    IN  /\ diff \in Int /\ gap >= diff
        /\ options.minIpg = 0 /\ diff >= 0 => gap = diff

\* So it is in a microsecond capture.
LEMMA OwnGap ==
    ASSUME NEW n \in Nat, n > 1, source \in Seq(Captured), options \in Options,
           n \in DOMAIN source, OwnGaps, MicroCapture
    PROVE  KeepsGap(n)
<1> DEFINE gap == gapBefore(source, n, options)
           a == source[n].ts
           b == source[n - 1].ts
           x == Micros(a - b) * TicksPerMicro
           speedup == IF options.speedup = 0 THEN 1 ELSE options.speedup
<1>1. n - 1 \in DOMAIN source BY SMT
<1>2. a \in Nat /\ b \in Nat
  <2>1. source[n] \in Captured /\ source[n - 1] \in Captured BY <1>1
  <2>2. ASSUME NEW c \in Captured PROVE c.ts \in Nat BY DEF Captured
  <2> QED BY <2>1, <2>2
<1>3. a % TicksPerMicro = 0 /\ b % TicksPerMicro = 0 BY <1>1 DEF MicroCapture
<1>4. x = a - b BY <1>2, <1>3, MicrosExact
<1>5. options.ipg = 0 /\ speedup = 1 /\ options.minIpg \in Nat BY UploadAssumption DEF OwnGaps
<1>6. gap = Larger(x \div speedup, options.minIpg)
  <2>1. ~(0 > 0) /\ n # 1 OBVIOUS
  <2> QED BY <1>5, <2>1 DEF gapBefore
<1> HIDE DEF a, b, x, speedup, gap
<1>7. x \div 1 = x BY <1>2, <1>4
<1>8. gap = Larger(a - b, options.minIpg) BY <1>4, <1>5, <1>6, <1>7
<1>9. /\ a - b \in Int /\ gap >= a - b
      /\ options.minIpg = 0 /\ a - b >= 0 => gap = a - b
  BY <1>2, <1>5, <1>8 DEF Larger
<1> QED BY <1>9 DEF a, b, gap, KeepsGap

\* The replay keeps to the timestamps.
LEMMA InvReplayOnTime == ASSUME Phases, WireInv, FileInv, ChainInv, PlayInv PROVE ReplayOnTime
<1> SUFFICES ASSUME origin = "pcap", OwnGaps, MicroCapture, NEW e \in DOMAIN sent
             PROVE  LET captured == source[e].ts - source[1].ts
                        sorted   == \A j \in 2 .. e : source[j - 1].ts <= source[j].ts
                    IN  /\ sent[e].at >= captured
                        /\ sorted /\ options.minIpg = 0 => sent[e].at = captured
  BY Zenon DEF ReplayOnTime
<1>1. pc = "playing"
  <2>1. pc # "playing" => sent = <<>> BY DEF PlayInv
  <2>2. DOMAIN <<>> = {} OBVIOUS
  <2> QED BY <2>1, <2>2
<1>2. Replayed BY <1>1 DEF PlayInv
<1> DEFINE d == Len(sent)
           gap(n) == gapBefore(source, n, options)
<1>3. source \in Seq(Captured) /\ options \in Options /\ Len(source) \in Nat \ {0}
  BY <1>1, ChainOnWire
<1>4. /\ sent \in Seq([pkt : Nat, at : Nat]) /\ d <= Len(source)
      /\ \A n \in DOMAIN sent :
           sent[n].at = (IF n = 1 THEN 0 ELSE sent[n - 1].at) + gap(n)
  BY <1>2, Zenon DEF Replayed
<1>5. d \in Nat /\ DOMAIN sent = 1 .. d BY <1>4
<1>6. \A n \in 1 .. d : sent[n].at \in Nat
  <2>1. \A r \in [pkt : Nat, at : Nat] : r.at \in Nat OBVIOUS
  <2> QED BY <1>4, <1>5, <2>1, ElementOfSeq
<1>7. DOMAIN source = 1 .. Len(source) /\ 1 .. d \subseteq DOMAIN source BY <1>3, <1>4, <1>5
<1>8. \A n \in DOMAIN source : source[n].ts \in Nat
  <2>1. \A n \in DOMAIN source : source[n] \in Captured BY <1>3
  <2>2. ASSUME NEW c \in Captured PROVE c.ts \in Nat BY DEF Captured
  <2> QED BY <2>1, <2>2
<1> DEFINE captured(n) == source[n].ts - source[1].ts
           sorted(n) == \A j \in 2 .. n : source[j - 1].ts <= source[j].ts
           good(n) == /\ sent[n].at >= captured(n)
                      /\ sorted(n) /\ options.minIpg = 0 => sent[n].at = captured(n)
           T == {n \in 0 .. d : n = 0 \/ good(n)}
<1>9. ASSUME NEW n \in 1 .. d, n = 1 PROVE good(n)
  <2>1. gap(n) = 0
    <3>1. options.ipg = 0 /\ ~(0 > 0) BY DEF OwnGaps
    <3> QED BY <1>9, <3>1 DEF gapBefore
  <2>2. sent[n].at = 0 + gap(n) BY <1>4, <1>5, <1>9
  <2>3. captured(n) = 0 BY <1>7, <1>8, <1>9
  <2> QED BY <2>1, <2>2, <2>3
<1>10. ASSUME NEW n \in 1 .. d, n > 1, good(n - 1) PROVE good(n)
  <2> DEFINE diff == source[n].ts - source[n - 1].ts
  <2>0. n \in DOMAIN source /\ n - 1 \in DOMAIN source /\ 1 \in DOMAIN source BY <1>7, <1>5, <1>10
  <2>1. /\ diff \in Int /\ gap(n) >= diff
        /\ options.minIpg = 0 /\ diff >= 0 => gap(n) = diff
    <3>1. n \in Nat /\ n > 1 BY <1>5, <1>10
    <3>2. KeepsGap(n) BY <1>3, <2>0, <3>1, OwnGap
    <3> QED BY <3>2 DEF KeepsGap
  <2>2. sent[n].at = sent[n - 1].at + gap(n) BY <1>4, <1>5, <1>10
  <2>3. captured(n) = captured(n - 1) + diff /\ captured(n) \in Int /\ captured(n - 1) \in Int
    BY <1>8, <2>0
  <2>4. gap(n) \in Nat BY <1>3, <2>0, GapNat
  <2>5. sent[n - 1].at \in Nat
    <3>1. n - 1 \in 1 .. d BY <1>5, <1>10
    <3> QED BY <1>6, <3>1
  <2>6. ASSUME sorted(n) PROVE diff >= 0 /\ sorted(n - 1)
    <3>1. n \in 2 .. n /\ \A j \in 2 .. n - 1 : j \in 2 .. n BY <1>5, <1>10
    <3>2. source[n - 1].ts <= source[n].ts BY <2>6, <3>1
    <3>3. diff >= 0 BY <1>8, <2>0, <3>2
    <3>4. sorted(n - 1) BY <2>6, <3>1
    <3> QED BY <3>3, <3>4
  <2>7. sent[n - 1].at >= captured(n - 1)
        /\ (sorted(n - 1) /\ options.minIpg = 0 => sent[n - 1].at = captured(n - 1))
    BY <1>10, Zenon
  <2> HIDE DEF captured, sorted, diff, gap
  <2>8. sent[n].at >= captured(n) BY <2>1, <2>2, <2>3, <2>4, <2>5, <2>7
  <2>9. sorted(n) /\ options.minIpg = 0 => sent[n].at = captured(n)
    BY <2>1, <2>2, <2>3, <2>4, <2>5, <2>6, <2>7
  <2> QED BY <2>8, <2>9
<1> HIDE DEF good
<1>11. 0 \in T BY <1>5
<1>12. ASSUME NEW n \in 1 .. d, n - 1 \in T PROVE n \in T
  <2>1. CASE n = 1 BY <1>5, <1>9, <2>1
  <2>2. CASE n # 1
    <3>1. n > 1 /\ n - 1 # 0 BY <1>5, <2>2
    <3>2. good(n - 1) BY <1>12, <3>1
    <3>3. good(n) BY <1>10, <3>1, <3>2
    <3> QED BY <1>5, <3>3
  <2> QED BY <2>1, <2>2
<1> HIDE DEF T
<1>13. \A n \in 0 .. d : n \in T BY <1>5, <1>11, <1>12, Induct
<1>14. e \in 0 .. d /\ e # 0 BY <1>5
<1>15. good(e) BY <1>13, <1>14 DEF T
<1> QED BY <1>15, Zenon DEF good

-----------------------------------------------------------------------------
(* Where instructions write *)

\* Min and Max of a nonempty set of numbers up to m.
LEMMA LeastAndGreatest ==
    ASSUME NEW m \in Nat, NEW S, S \subseteq 1 .. m, S # {}
    PROVE  /\ Min(S) \in S /\ \A y \in S : Min(S) <= y
           /\ Max(S) \in S /\ \A y \in S : y <= Max(S)
<1>1. \E x \in S : \A y \in S : x <= y
  <2>1. S \subseteq Nat OBVIOUS
  <2> QED BY <2>1, LeastNumber
<1>2. \E x \in S : \A y \in S : y <= x
  <2> DEFINE T == {m - y : y \in S}
  <2>1. T \subseteq Nat /\ T # {}
    <3>1. \A y \in S : m - y \in Nat OBVIOUS
    <3>2. PICK y \in S : TRUE OBVIOUS
    <3>3. m - y \in T BY <3>2
    <3> QED BY <3>1, <3>3
  <2>2. PICK t \in T : \A u \in T : t <= u BY <2>1, LeastNumber
  <2>3. PICK x \in S : t = m - x BY <2>2
  <2>4. ASSUME NEW y \in S PROVE y <= x
    <3>1. m - y \in T OBVIOUS
    <3>2. m - x <= m - y BY <2>2, <2>3, <3>1
    <3> QED BY <3>2
  <2> QED BY <2>4
<1>3. Min(S) = CHOOSE x \in S : \A y \in S : x <= y BY DEF Min
<1>4. Max(S) = CHOOSE x \in S : \A y \in S : x >= y BY DEF Max
<1>5. \E x \in S : \A y \in S : x >= y
  <2>1. PICK x \in S : \A y \in S : y <= x BY <1>2
  <2>2. \A y \in S : x >= y BY <2>1
  <2> QED BY <2>2
<1>6. Min(S) \in S /\ \A y \in S : Min(S) <= y BY <1>1, <1>3
<1>7. Max(S) \in S /\ \A y \in S : Max(S) >= y BY <1>4, <1>5
<1>8. \A y \in S : y <= Max(S) BY <1>7
<1> QED BY <1>6, <1>7, <1>8

\* The headers that buildLayer makes are some bytes long.
LEMMA HeaderLenPositive ==
    ASSUME NEW l \in Layer, l.kind \in Kinds PROVE HeaderLen(l) \in Nat \ {0}
<1>1. l.segs \in Nat BY DEF Layer
<1>2. CASE l.kind = "srh" BY <1>1, <1>2 DEF HeaderLen
<1>3. CASE l.kind # "srh" BY <1>3 DEF HeaderLen, Kinds
<1> QED BY <1>2, <1>3

\* A named field is inside the header.
LEMMA FieldInHeader ==
    ASSUME NEW kind \in Canonical, NEW field \in DOMAIN fieldOffsets[kind], NEW l, l.kind = kind
    PROVE  fieldOffsets[kind][field] \in 0 .. HeaderLen(l) - 1
<1>1. CASE kind = "eth" BY <1>1 DEF fieldOffsets, HeaderLen
<1>2. CASE kind = "dot1q" BY <1>2 DEF fieldOffsets, HeaderLen
<1>3. CASE kind = "ip" BY <1>3 DEF fieldOffsets, HeaderLen
<1>4. CASE kind = "ipv6" BY <1>4 DEF fieldOffsets, HeaderLen
<1>5. CASE kind = "udp" BY <1>5 DEF fieldOffsets, HeaderLen
<1>6. CASE kind = "tcp" BY <1>6 DEF fieldOffsets, HeaderLen
<1> QED BY <1>1, <1>2, <1>3, <1>4, <1>5, <1>6 DEF Canonical

\* Offsets are integers.
LEMMA OffsetInt ==
    ASSUME NEW stack \in Seq(Layer), NEW i \in 1 .. Len(stack) + 1,
           \A j \in DOMAIN stack : stack[j].kind \in Kinds
    PROVE  /\ Offset(stack, i) \in Int
           /\ [j \in 1 .. i - 1 |-> HeaderLen(stack[j])] \in Seq(Int)
<1> DEFINE q == [j \in 1 .. i - 1 |-> HeaderLen(stack[j])]
<1>1. i - 1 \in Nat OBVIOUS
<1>2. ASSUME NEW j \in 1 .. i - 1 PROVE HeaderLen(stack[j]) \in Int
  <2>1. j \in DOMAIN stack /\ stack[j] \in Layer OBVIOUS
  <2> QED BY <2>1, HeaderLenPositive
<1>3. q \in Seq(Int)
  <2>1. q \in [1 .. i - 1 -> Int] BY <1>2
  <2> HIDE DEF q
  <2> QED BY <1>1, <2>1, FunctionIsSeq
<1> HIDE DEF q
<1>4. Total(q) \in Int
  <2>1. PICK f \in [0 .. Len(q) -> Int] : Total(q) = f[Len(q)] BY <1>3, TotalDef
  <2>2. Len(q) \in 0 .. Len(q) BY <1>3
  <2> QED BY <2>1, <2>2
<1> QED BY <1>3, <1>4 DEF Offset, q

\* As long as its length fits a byte an SRH is read to its end, and the layers are
\* found where they are.
LEMMA FoundWhereBuilt ==
    ASSUME NEW stack \in Seq(Layer), SegmentsFit(stack), NEW i \in 1 .. Len(stack) + 1
    PROVE  DecodedOffset(stack, i) = Offset(stack, i)
<1>1. ASSUME NEW j \in 1 .. i - 1 PROVE DecodedLen(stack[j]) = HeaderLen(stack[j])
  <2>1. j \in DOMAIN stack /\ stack[j] \in Layer OBVIOUS
  <2>2. CASE stack[j].kind # "srh" BY <2>2 DEF DecodedLen
  <2>3. CASE stack[j].kind = "srh"
    <3> DEFINE n == stack[j].segs
    <3>1. n \in Nat /\ n <= 127 BY <2>1, <2>3 DEF SegmentsFit, Layer
    <3>2. (2 * n) % 256 = 2 * n
      <4> HIDE DEF n
      <4>1. n \in 0 .. 127 BY <3>1
      <4>2. \A m \in 0 .. 127 : (2 * m) % 256 = 2 * m OBVIOUS
      <4> QED BY <4>1, <4>2
    <3>3. DecodedLen(stack[j]) = 8 * (1 + 2 * n) BY <2>3, <3>2 DEF DecodedLen
    <3>4. HeaderLen(stack[j]) = 8 + 16 * n BY <2>3 DEF HeaderLen
    <3> HIDE DEF n
    <3> QED BY <3>1, <3>3, <3>4
  <2> QED BY <2>2, <2>3
<1>2. [j \in 1 .. i - 1 |-> DecodedLen(stack[j])] = [j \in 1 .. i - 1 |-> HeaderLen(stack[j])]
  BY <1>1
<1> QED BY <1>2, Zenon DEF DecodedOffset, Offset

\* A reference that resolves does so inside the outermost header of its layer.
LEMMA ResolvedInHeader ==
    ASSUME NEW stack \in Seq(Layer), Buildable(stack), SegmentsFit(stack), stack[1].kind = "eth",
           NEW ref, ref.at = None, ResolveOffset(stack, ref) # None
    PROVE  ResolveOffset(stack, ref) \in OutermostHeader(stack, ref.layer)
<1> DEFINE kind == ref.layer
           D == Decoded(stack)
           seen(c) == {i \in 1 .. D : stack[i].kind = c}
           all == {j \in DOMAIN stack : stack[j].kind = kind}
           starts == decodeLayerStarts(stack)
           H == HeaderLen(stack[Min(all)])
           at == Offset(stack, Min(all))
<1>1. stack # <<>> /\ \A j \in DOMAIN stack : stack[j].kind \in Kinds
  BY DEF Buildable, LayerBuilds
<1>2. PICK len \in Nat : len = Len(stack) /\ len >= 1 /\ DOMAIN stack = 1 .. len
  <2>1. Len(stack) \in Nat \ {0} BY <1>1, EmptySeq
  <2> QED BY <2>1
<1>3. D \in 1 .. len
  <2> DEFINE S == {n \in DOMAIN stack : \A i \in 1 .. n - 1 :
                     /\ Names(stack[i], stack[i + 1].kind)
                     /\ i > 1 => ~CutShort(stack[i - 1])}
  <2>1. D = Max(S) BY DEF Decoded
  <2>2. \A n \in 1 .. len : n = 1 => \A i \in 1 .. n - 1 : FALSE OBVIOUS
  <2>3. 1 \in 1 .. len BY <1>2
  <2>4. 1 \in S BY <1>2, <2>2, <2>3
  <2>5. S \subseteq 1 .. len /\ S # {} BY <1>2, <2>4
  <2> HIDE DEF S
  <2> QED BY <1>2, <2>1, <2>5, LeastAndGreatest
<1>4. starts = [c \in {"eth"} \cup {c \in Canonical : seen(c) # {}} |->
                  IF seen(c) = {} THEN 0 ELSE DecodedOffset(stack, Min(seen(c)))]
  BY DEF decodeLayerStarts
<1>5. ~(ref.at # None) OBVIOUS
<1>6. /\ kind \in DOMAIN starts
      /\ \/ ref.field = "" /\ ResolveOffset(stack, ref) = starts[kind]
         \/ /\ ref.field \in DOMAIN fieldOffsets[kind]
            /\ ResolveOffset(stack, ref) = starts[kind] + fieldOffsets[kind][ref.field]
  BY <1>5 DEF ResolveOffset
<1>7. kind \in Canonical /\ seen(kind) # {}
  <2>1. CASE kind = "eth"
    <3>1. 1 \in seen(kind) BY <1>3, <2>1
    <3> QED BY <2>1, <3>1 DEF Canonical
  <2>2. CASE kind # "eth" BY <1>4, <1>6, <2>2
  <2> QED BY <2>1, <2>2
<1> HIDE DEF D
<1>8. Min(seen(kind)) = Min(all)
  <2> DEFINE A == seen(kind)
  <2>1. A \subseteq 1 .. len /\ A # {} /\ all \subseteq 1 .. len /\ A \subseteq all
    BY <1>2, <1>3, <1>7
  <2>2. \A j \in all : j <= D => j \in A BY <1>2, <1>3
  <2>3. \A j \in A : j <= D BY <1>3
  <2>4. all # {} BY <2>1
  <2> HIDE DEF A, all
  <2>5. Min(A) \in A /\ \A y \in A : Min(A) <= y BY <1>2, <2>1, LeastAndGreatest
  <2>6. Min(all) \in all /\ \A y \in all : Min(all) <= y BY <1>2, <2>1, <2>4, LeastAndGreatest
  <2>7. Min(all) <= Min(A) /\ Min(A) <= D BY <2>1, <2>3, <2>5, <2>6
  <2>8. Min(all) \in 1 .. len /\ Min(A) \in 1 .. len BY <2>1, <2>5, <2>6
  <2>9. Min(all) <= D BY <1>3, <2>7, <2>8
  <2>10. Min(all) \in A BY <2>2, <2>6, <2>9
  <2>11. Min(A) <= Min(all) BY <2>5, <2>10
  <2>12. Min(A) = Min(all) BY <2>7, <2>8, <2>11
  <2> QED BY <2>12 DEF A
<1>10. Min(all) \in 1 .. len /\ stack[Min(all)].kind = kind
  <2>1. all \subseteq 1 .. len /\ all # {} BY <1>2, <1>3, <1>7
  <2>2. Min(all) \in all
    <3> HIDE DEF all
    <3> QED BY <1>2, <2>1, LeastAndGreatest
  <2> QED BY <1>2, <2>2
<1>9. starts[kind] = at
  <2>1. starts[kind] = DecodedOffset(stack, Min(all)) BY <1>4, <1>7, <1>8
  <2>2. Min(all) \in 1 .. Len(stack) + 1 BY <1>2, <1>10
  <2> QED BY <2>1, <2>2, FoundWhereBuilt
<1>11. at \in Int
  <2>1. Min(all) \in 1 .. Len(stack) + 1 BY <1>2, <1>10
  <2> QED BY <1>1, <2>1, OffsetInt
<1>12. H \in Nat \ {0}
  <2>1. stack[Min(all)] \in Layer /\ stack[Min(all)].kind \in Kinds BY <1>1, <1>2, <1>10
  <2> QED BY <2>1, HeaderLenPositive
<1>13. OutermostHeader(stack, kind) = at .. at + H - 1 BY DEF OutermostHeader
<1>14. ref.field \in DOMAIN fieldOffsets[kind] => fieldOffsets[kind][ref.field] \in 0 .. H - 1
  BY <1>7, <1>10, FieldInHeader
<1> HIDE DEF at, H, starts, all, seen
<1>15. CASE ResolveOffset(stack, ref) = starts[kind]
  BY <1>9, <1>11, <1>12, <1>13, <1>15
<1>16. ASSUME NEW x \in 0 .. H - 1 PROVE at + x \in at .. at + H - 1 BY <1>11, <1>12
<1>17. CASE ResolveOffset(stack, ref) = starts[kind] + fieldOffsets[kind][ref.field]
            /\ ref.field \in DOMAIN fieldOffsets[kind]
  BY <1>9, <1>13, <1>14, <1>16, <1>17
<1> QED BY <1>6, <1>15, <1>17

\* An instruction with a reference writes in the header it names.
InHeader(ins, stack) == SegmentsFit(stack) => WritesInHeader(ins, stack)

\* So do the instructions that buildInstruction makes of one that builds.
LEMMA InstructionInHeader ==
    ASSUME NEW stack \in Seq(Layer), Buildable(stack), NEW ins, NEW len,
           VMBuildable(<<ins>>, stack, len), NEW b, b = buildInstruction(ins, stack)
    PROVE  b \in Seq(ToSet(b)) /\ \A x \in ToSet(b) : InHeader(x, stack)
<1>1. \/ ins.kind \in Others
      \/ ins.kind \in Writers /\ ResolveOffset(stack, ins.ref) # None
      \/ /\ ins.kind = "checksum_sweep"
         /\ ResolveOffset(stack, ins.ref) # None /\ ResolveOffset(stack, ins.cks) # None
  <2>1. <<ins>>[1] = ins /\ 1 \in DOMAIN <<ins>> OBVIOUS
  <2> QED BY <2>1 DEF VMBuildable
<1>2. ASSUME NEW kind PROVE InHeader(Plain(kind), stack)
  <2>1. Plain(kind).for.layer = "" BY DEF Plain, NoReference
  <2> QED BY <2>1 DEF InHeader, WritesInHeader
<1>3. ASSUME NEW kind, NEW ref, ResolveOffset(stack, ref) # None
      PROVE  InHeader(Sent(kind, stack, ref), stack)
  <2>1. Sent(kind, stack, ref).for = ref /\ Sent(kind, stack, ref).offset = ResolveOffset(stack, ref)
    BY DEF Sent
  <2> QED BY <1>3, <2>1, ResolvedInHeader DEF InHeader, WritesInHeader
<1>4. CASE ins.kind \in Writers /\ ResolveOffset(stack, ins.ref) # None
  <2> DEFINE x == Sent(ins.kind, stack, ins.ref)
  <2>1. b = <<x>> BY <1>4 DEF buildInstruction, Others, Writers
  <2>2. InHeader(x, stack) BY <1>3, <1>4
  <2> HIDE DEF x
  <2>3. ToSet(b) = {x} BY <2>1 DEF ToSet
  <2> QED BY <2>1, <2>2, <2>3
<1>5. CASE ins.kind \in Others
  <2> DEFINE x == Plain(ins.kind)
  <2>1. b = <<x>> BY <1>5 DEF buildInstruction, Others, Writers
  <2>2. InHeader(x, stack) BY <1>2
  <2> HIDE DEF x
  <2>3. ToSet(b) = {x} BY <2>1 DEF ToSet
  <2> QED BY <2>1, <2>2, <2>3
<1>6. CASE /\ ins.kind = "checksum_sweep"
           /\ ResolveOffset(stack, ins.ref) # None /\ ResolveOffset(stack, ins.cks) # None
  <2> DEFINE f == Plain("flow_var")
             x == Sent("write_flow_var", stack, ins.ref)
             y == Sent("write_flow_var", stack, ins.cks)
  <2>1. b = <<f, x, f, y>> BY <1>6 DEF buildInstruction, Others, Writers
  <2>2. InHeader(x, stack) /\ InHeader(y, stack) /\ InHeader(f, stack) BY <1>2, <1>3, <1>6
  <2> HIDE DEF f, x, y
  <2>3. b \in Seq({f, x, y}) BY <2>1
  <2>4. ToSet(b) = {f, x, y} BY <2>1 DEF ToSet
  <2> QED BY <2>2, <2>3, <2>4
<1> QED BY <1>1, <1>4, <1>5, <1>6

\* A program that builds writes where its references say.
LEMMA ProgramNamed ==
    ASSUME NEW stack \in Seq(Layer), Buildable(stack), NEW S, NEW vm \in Seq(S), NEW len,
           VMBuildable(vm, stack, len)
    PROVE  Named(buildVM(vm, stack), stack)
<1>1. PICK m \in Nat : m = Len(vm) /\ DOMAIN vm = 1 .. m OBVIOUS
<1> DEFINE q == [i \in 1 .. m |-> buildInstruction(vm[i], stack)]
           B == UNION {ToSet(q[i]) : i \in 1 .. m}
<1>2. buildVM(vm, stack) = FlattenSeq(q) BY <1>1 DEF buildVM
<1>3. ASSUME NEW i \in 1 .. m
      PROVE  q[i] \in Seq(ToSet(q[i])) /\ \A x \in ToSet(q[i]) : InHeader(x, stack)
  <2>1. VMBuildable(<<vm[i]>>, stack, len)
    <3>1. DOMAIN <<vm[i]>> = {1} /\ <<vm[i]>>[1] = vm[i] OBVIOUS
    <3>2. i \in DOMAIN vm BY <1>1
    <3> QED BY <3>1, <3>2 DEF VMBuildable
  <2>2. q[i] = buildInstruction(vm[i], stack) OBVIOUS
  <2> HIDE DEF q
  <2> QED BY <2>1, <2>2, InstructionInHeader
<1>4. ASSUME NEW i \in 1 .. m PROVE q[i] \in Seq(B)
  <2>1. q[i] \in Seq(ToSet(q[i])) BY <1>3
  <2>2. ToSet(q[i]) \subseteq B OBVIOUS
  <2> HIDE DEF B, q
  <2> QED BY <2>1, <2>2
<1>5. q \in Seq(Seq(B))
  <2>1. q \in [1 .. m -> Seq(B)] BY <1>4
  <2> QED BY <1>1, <2>1, FunctionIsSeq
<1> HIDE DEF q
<1>6. \A x \in B : InHeader(x, stack) BY <1>3
<1> HIDE DEF B
<1>7. PICK p \in Seq(B) : p = buildVM(vm, stack) BY <1>2, <1>5, FlattenType
<1>8. ToSet(p) \subseteq B BY <1>7 DEF ToSet
<1>9. \A x \in ToSet(p) : InHeader(x, stack) BY <1>6, <1>8
<1> QED BY <1>7, <1>9 DEF Named, InHeader

\* Instructions without references name nothing.
LEMMA UnnamedNamed == ASSUME NEW vm, Unnamed(vm), NEW stack PROVE Named(vm, stack)
<1>1. NoReference.layer = "" BY DEF NoReference
<1>2. \A ins \in ToSet(vm) : ins.for.layer = "" BY <1>1 DEF Unnamed, ToSet
<1> QED BY <1>2 DEF Named, WritesInHeader

\* What is loaded writes where it says, whatever loaded it.
LEMMA LoadedNamed ==
    ASSUME Phases, VmInv, NEW p, LoadsFirst(p) \/ LoadsAgain(p), NEW n \in DOMAIN p
    PROVE  Named(p[n].vm, p[n].packet.layers)
<1>1. ASSUME source' \in Captures, p = LoadPcap(source', options')
      PROVE  Named(p[n].vm, p[n].packet.layers)
  <2>1. p[n] = PcapStream(source', n, options') BY <1>1 DEF LoadPcap
  <2>2. p[n].vm = <<>> BY <2>1 DEF PcapStream, ZeroStream
  <2>3. Unnamed(<<>>) BY DEF Unnamed
  <2> QED BY <2>2, <2>3, UnnamedNamed
<1>2. ASSUME source' \in Files, Parses(source'), p = Parse(source')
      PROVE  Named(p[n].vm, p[n].packet.layers)
  <2>1. source' \in Seq(Entry) BY <1>2, UploadAssumption
  <2>2. PICK i \in DOMAIN source' : BuiltFrom(p[n], source'[i]) BY <1>2, <2>1, ParseStreams
  <2> DEFINE e == source'[i]
  <2>3. e \in Entry BY <2>1, <2>2
  <2>4. e.layers \in Seq(Layer) /\ e.vm \in Seq(Instruction) BY <2>3 DEF Entry
  <2>5. /\ p[n].packet.layers = e.layers /\ p[n].vm = buildVM(e.vm, e.layers)
        /\ Buildable(e.layers) /\ \E len : VMBuildable(e.vm, e.layers, len)
    BY <2>2, BuiltStream
  <2> HIDE DEF e
  <2>6. Named(buildVM(e.vm, e.layers), e.layers) BY <2>4, <2>5, ProgramNamed
  <2> QED BY <2>5, <2>6
<1>3. ASSUME NEW items \in Snapshots, p = LoadSnapshot(items)
      PROVE  Named(p[n].vm, p[n].packet.layers)
  <2>1. IsSnapshot(items) /\ \A i \in DOMAIN items : Unnamed(items[i].stream.vm)
    BY SnapshotsAreSnapshots
  <2>2. n \in DOMAIN items /\ p[n].vm = items[n].stream.vm BY <1>3, <2>1, SnapshotProfile
  <2> QED BY <2>1, <2>2, UnnamedNamed
<1>4. ASSUME p \in Profiles PROVE Named(p[n].vm, p[n].packet.layers)
  <2>1. p \in Seq({s \in Stream : Unnamed(s.vm)}) BY <1>4, UploadAssumption
  <2>2. Unnamed(p[n].vm) BY <2>1
  <2> QED BY <2>2, UnnamedNamed
<1>5. ASSUME LoadsAgain(p) PROVE Named(p[n].vm, p[n].packet.layers)
  <2>1. IsSnapshot(snapshot) /\ p = LoadSnapshot(snapshot) BY <1>5 DEF Phases, LoadsAgain
  <2>2. n \in DOMAIN snapshot /\ p[n].vm = snapshot[n].stream.vm
        /\ p[n].packet = snapshot[n].stream.packet
    BY <2>1, SnapshotProfile
  <2> QED BY <2>2 DEF VmInv
<1> QED BY <1>1, <1>2, <1>3, <1>4, <1>5 DEF LoadsFirst

\* The streams of a port write where those of the profile do.
LEMMA PortNamed ==
    ASSUME Phases, VmInv, pc # "load", NEW port, NEW sub, sub = ForPort(profile, port),
           NEW n \in DOMAIN sub
    PROVE  Named(sub[n].vm, sub[n].packet.layers)
<1>1. IsProfile(profile) BY DEF Phases
<1>2. PICK m \in DOMAIN profile : sub[n] = profile[m] BY <1>1, ForPortProfile DEF ToSet
<1>3. m \in DOMAIN orig /\ SameButGroup(profile[m], orig[m]) BY <1>2, ProfileOf
<1>4. Named(orig[m].vm, orig[m].packet.layers) BY <1>3 DEF VmInv
<1> QED BY <1>2, <1>3, <1>4 DEF SameButGroup

\* Every step keeps that.
LEMMA VmStep == ASSUME Phases, WireInv, VmInv, [Next]_vars PROVE VmInv'
<1>1. CASE Load
  <2>1. snapshot' = snapshot BY <1>1, LoadCases
  <2>2. CASE orig' = orig BY <2>1, <2>2, Zenon DEF VmInv
  <2>3. ASSUME NEW p, orig' = p, LoadsFirst(p) \/ LoadsAgain(p) PROVE VmInv'
    BY <2>1, <2>3, LoadedNamed DEF VmInv
  <2> QED BY <1>1, <2>2, <2>3, LoadCases
<1>2. CASE Quiet BY <1>2, QuietStep, Zenon DEF VmInv
<1>3. CASE Export
  <2> DEFINE sub == ForPort(profile, Ports[1])
             w == wire[1]
  <2>1. orig' = orig /\ pc = "done" BY <1>3 DEF Export
  <2>2. /\ IsProfile(sub) /\ Resolvable(sub) /\ w = Resolve(sub) /\ DOMAIN snapshot' = DOMAIN sub
        /\ \A n \in DOMAIN sub :
             /\ IsWire(w[n])
             /\ snapshot'[n] = Bare(w[n]) \/ snapshot'[n] = Wrapped(w[n])
    BY <1>3, Exported
  <2>3. \A n \in DOMAIN sub : Named(sub[n].vm, sub[n].packet.layers) BY <2>1, PortNamed
  <2> HIDE DEF sub, w
  <2>4. ASSUME NEW n \in DOMAIN snapshot'
        PROVE  Named(snapshot'[n].stream.vm, snapshot'[n].stream.packet.layers)
    <3>1. Carries(w[n], sub[n]) /\ IsWire(w[n]) BY <2>2, Resolved
    <3>2. snapshot'[n] = Bare(w[n]) \/ snapshot'[n] = Wrapped(w[n]) BY <2>2
    <3>3. snapshot'[n].stream.vm = w[n].vm /\ snapshot'[n].stream.packet = w[n].packet
      BY <3>1, <3>2, ExportedItem
    <3>4. w[n].vm = sub[n].vm /\ w[n].packet = sub[n].packet BY <3>1 DEF Carries
    <3> QED BY <2>2, <2>3, <3>3, <3>4
  <2> QED BY <2>1, <2>4, Zenon DEF VmInv
<1> QED BY <1>1, <1>2, <1>3 DEF Next, Quiet

\* What is on the wire writes where it says.
LEMMA InvWritesWhereNamed == ASSUME Phases, WireInv, VmInv PROVE WritesWhereNamed
<1> SUFFICES ASSUME NEW p \in 1 .. Len(Ports), NEW s \in ToSet(wire[p])
             PROVE  Named(s.vm, s.packet.layers)
  BY Zenon DEF WritesWhereNamed, Named
<1> DEFINE sub == ForPort(profile, Ports[p])
           w == wire[p]
<1>0. k \in 1 .. Len(Ports) + 1 /\ (pc \in {"load", "tag", "resolve"} => k = 1) BY Zenon DEF Phases
<1>1. p < k
  <2>1. p >= k \/ p < k BY <1>0, PortCount
  <2>2. p >= k => w = <<>> BY WireOf
  <2>3. ToSet(<<>>) = {} BY DEF ToSet
  <2> QED BY <2>1, <2>2, <2>3
<1>2. IsProfile(sub) /\ Resolvable(sub) /\ w = Resolve(sub) BY <1>1, WireOf
<1>3. pc # "load" BY <1>0, <1>1, PortCount
<1>4. \A n \in DOMAIN sub : Named(sub[n].vm, sub[n].packet.layers) BY <1>3, PortNamed
<1>5. s \in ToSet(w) OBVIOUS
<1> HIDE DEF sub, w
<1>6. DOMAIN w = DOMAIN sub /\ \A n \in DOMAIN sub : Carries(w[n], sub[n]) BY <1>2, Resolved
<1>7. PICK n \in DOMAIN sub : s = w[n] BY <1>5, <1>6 DEF ToSet
<1>8. s.vm = sub[n].vm /\ s.packet = sub[n].packet BY <1>6, <1>7 DEF Carries
<1> QED BY <1>4, <1>7, <1>8

-----------------------------------------------------------------------------
(* The frames of an imix *)

\* The recursion of SerializedLen.
IsLength(f, stack, payload) ==
    f = [n \in 0 .. Len(stack) |->
           IF n = 0 THEN payload
           ELSE IF stack[Len(stack) + 1 - n].kind = "eth" THEN Larger(MinFrame, f[n - 1] + 14)
           ELSE f[n - 1] + HeaderLen(stack[Len(stack) + 1 - n])]

\* The lengths of what the innermost layers hold, which end in SerializedLen.
LEMMA SerializedLenDef ==
    ASSUME NEW stack \in Seq(Layer), NEW payload \in Int,
           \A j \in DOMAIN stack : stack[j].kind \in Kinds
    PROVE  \E f : /\ f[0] = payload /\ \A n \in 0 .. Len(stack) : f[n] \in Int
                  /\ \A n \in 1 .. Len(stack) :
                        f[n] = LET l == stack[Len(stack) + 1 - n]
                               IN  IF l.kind = "eth" THEN Larger(MinFrame, f[n - 1] + 14)
                                   ELSE f[n - 1] + HeaderLen(l)
                  /\ SerializedLen(stack, payload) = f[Len(stack)]
<1>1. PICK m \in Nat : m = Len(stack) /\ DOMAIN stack = 1 .. m /\ \A n \in 1 .. m : stack[n] \in Layer
  OBVIOUS
<1> DEFINE at(n) == stack[m + 1 - n]
           next(n, v) == IF at(n).kind = "eth" THEN Larger(MinFrame, v + 14) ELSE v + HeaderLen(at(n))
           step == [n \in 1 .. m |-> [v \in Int |-> next(n, v)]]
<1>2. ASSUME NEW n \in 1 .. m, NEW v \in Int PROVE next(n, v) \in Int
  <2>1. m + 1 - n \in 1 .. m BY <1>1
  <2>2. HeaderLen(at(n)) \in Int BY <1>1, <2>1, HeaderLenPositive
  <2> QED BY <2>2 DEF Larger, MinFrame
<1> HIDE DEF next
<1>3. step \in [1 .. m -> [Int -> Int]] BY <1>2
<1>4. \A n \in 1 .. m : \A v \in Int : step[n][v] = next(n, v) OBVIOUS
<1> HIDE DEF step
<1>5. PICK g \in [0 .. m -> Int] : g[0] = payload /\ \A n \in 1 .. m : g[n] = step[n][g[n - 1]]
  <2> DEFINE V == Int
  <2>1. m \in Nat /\ payload \in V /\ step \in [1 .. m -> [V -> V]] BY <1>1, <1>3
  <2> HIDE DEF V
  <2>2. PICK g : Solves(g, V, m, payload, step) BY <2>1, Recursion
  <2> QED BY <2>2 DEF V, Solves
<1>6. ASSUME NEW n \in 0 .. m PROVE g[n] = IF n = 0 THEN payload ELSE next(n, g[n - 1])
  <2>1. CASE n = 0 BY <1>5, <2>1
  <2>2. CASE n # 0
    <3>1. n \in 1 .. m /\ n - 1 \in 0 .. m BY <2>2
    <3>2. g[n - 1] \in Int BY <1>5, <3>1
    <3> QED BY <1>4, <1>5, <2>2, <3>1, <3>2
  <2> QED BY <2>1, <2>2
<1>7. IsLength(g, stack, payload)
  <2>1. g = [n \in 0 .. m |-> IF n = 0 THEN payload ELSE next(n, g[n - 1])] BY <1>6
  <2> QED BY <1>1, <2>1 DEF IsLength, next
<1> DEFINE c == CHOOSE f : IsLength(f, stack, payload)
<1>8. IsLength(c, stack, payload) BY <1>7
<1>9. SerializedLen(stack, payload) = c[Len(stack)] BY DEF SerializedLen, IsLength
<1> HIDE DEF c
<1>10. \A n \in 0 .. m : c[n] = IF n = 0 THEN payload ELSE next(n, c[n - 1])
  BY <1>1, <1>8 DEF IsLength, next
<1>11. c[0] = payload BY <1>1, <1>10
<1>12. \A n \in 1 .. m : c[n] = next(n, c[n - 1]) BY <1>1, <1>10
<1> DEFINE T == {n \in 0 .. m : c[n] \in Int}
<1>13. 0 \in T BY <1>1, <1>11
<1>14. ASSUME NEW n \in 1 .. m, n - 1 \in T PROVE n \in T
  <2>1. c[n - 1] \in Int BY <1>14
  <2>2. c[n] \in Int BY <1>2, <1>12, <2>1
  <2> QED BY <1>1, <2>2
<1> HIDE DEF T
<1>15. \A n \in 0 .. m : n \in T BY <1>1, <1>13, <1>14, Induct
<1>16. \A n \in 0 .. m : c[n] \in Int BY <1>15 DEF T
<1> QED BY <1>1, <1>9, <1>11, <1>12, <1>16 DEF next

\* A stack without tunnels that does not need padding takes its headers and the
\* payload.
LEMMA SimpleLength ==
    ASSUME NEW stack \in Seq(Layer), Buildable(stack), Simple(stack), NEW payload \in Nat,
           payload + Offset(stack, Len(stack) + 1) >= MinFrame
    PROVE  SerializedLen(stack, payload) = payload + Offset(stack, Len(stack) + 1)
<1>1. stack # <<>> /\ \A j \in DOMAIN stack : stack[j].kind \in Kinds
  BY DEF Buildable, LayerBuilds
<1>2. PICK m \in Nat : m = Len(stack) /\ m >= 1 /\ DOMAIN stack = 1 .. m
  <2>1. Len(stack) \in Nat \ {0} BY <1>1, EmptySeq
  <2> QED BY <2>1
<1> DEFINE h == [j \in 1 .. (m + 1) - 1 |-> HeaderLen(stack[j])]
<1>3. h \in Seq(Int) /\ Offset(stack, m + 1) = Total(h)
  <2>1. m + 1 \in 1 .. Len(stack) + 1 BY <1>2
  <2> QED BY <1>1, <2>1, OffsetInt DEF Offset
<1>4. Len(h) = m /\ \A j \in 1 .. m : h[j] = HeaderLen(stack[j])
  <2>1. (m + 1) - 1 = m BY <1>2
  <2>2. DOMAIN h = 1 .. m BY <2>1
  <2> QED BY <1>2, <1>3, <2>1, <2>2
<1> HIDE DEF h
<1>5. PICK s \in [0 .. m -> Int] : /\ s[0] = 0 /\ \A n \in 1 .. m : s[n] = s[n - 1] + h[n]
                                   /\ Total(h) = s[m]
  BY <1>3, <1>4, TotalDef
<1>6. PICK f : /\ f[0] = payload /\ \A n \in 0 .. m : f[n] \in Int
               /\ \A n \in 1 .. m :
                     f[n] = LET l == stack[m + 1 - n]
                            IN  IF l.kind = "eth" THEN Larger(MinFrame, f[n - 1] + 14)
                                ELSE f[n - 1] + HeaderLen(l)
               /\ SerializedLen(stack, payload) = f[m]
  BY <1>1, <1>2, SerializedLenDef
<1> DEFINE T == {n \in 0 .. m - 1 : f[n] = payload + s[m] - s[m - n]}
<1>7. 0 \in T
  <2>1. 0 \in 0 .. m - 1 /\ m \in 0 .. m /\ m - 0 = m BY <1>2
  <2>2. s[m] \in Int BY <1>5, <2>1
  <2>3. f[0] = payload + s[m] - s[m] BY <1>6, <2>2
  <2> QED BY <2>1, <2>3
<1>8. ASSUME NEW n \in 1 .. m - 1, n - 1 \in T PROVE n \in T
  <2> DEFINE i == m + 1 - n
  <2>1. i \in 2 .. m /\ i \in 1 .. m /\ n \in 1 .. m /\ n - 1 \in 0 .. m /\ i - 1 = m - n
        /\ m - (n - 1) = i /\ i - 1 \in 0 .. m /\ i \in 0 .. m /\ m \in 0 .. m
    BY <1>2
  <2>2. stack[i].kind # "eth" BY <1>2, <2>1 DEF Simple
  <2>3. f[n] = f[n - 1] + HeaderLen(stack[i]) BY <1>6, <2>1, <2>2
  <2>4. s[i] = s[i - 1] + h[i] /\ h[i] = HeaderLen(stack[i]) BY <1>4, <1>5, <2>1
  <2>5. f[n - 1] = payload + s[m] - s[i] BY <1>8, <2>1
  <2>6. s[i] \in Int /\ s[i - 1] \in Int /\ s[m] \in Int BY <1>5, <2>1
  <2>7. h[i] \in Int BY <1>3, <1>4, <2>1
  <2>8. f[n] = payload + s[m] - s[i] + h[i] BY <2>3, <2>4, <2>5
  <2> HIDE DEF i
  <2>9. f[n] = payload + s[m] - s[i - 1]
    <3>1. PICK a \in Int : a = s[i - 1] BY <2>6
    <3>2. PICK b \in Int : b = s[i] BY <2>6
    <3>3. PICK t \in Int : t = s[m] BY <2>6
    <3>4. PICK x \in Int : x = h[i] BY <2>7
    <3>5. b = a + x BY <2>4, <3>1, <3>2, <3>4
    <3>6. f[n] = payload + t - b + x BY <2>8, <3>2, <3>3, <3>4
    <3>7. payload \in Int /\ a \in Int /\ b \in Int /\ t \in Int /\ x \in Int
      BY <3>1, <3>2, <3>3, <3>4
    <3>8. payload + t - b + x = payload + t - a BY <3>5, <3>7
    <3> QED BY <3>1, <3>3, <3>6, <3>8
  <2>10. f[n] = payload + s[m] - s[m - n] BY <2>1, <2>9
  <2> QED BY <2>10
<1> HIDE DEF T
<1>9. m - 1 \in T
  <2>1. m - 1 \in Nat /\ m - 1 \in 0 .. m - 1 BY <1>2
  <2> QED BY <1>7, <1>8, <2>1, Induct
<1>10. f[m - 1] = payload + s[m] - s[1]
  <2>1. f[m - 1] = payload + s[m] - s[m - (m - 1)] /\ m - (m - 1) = 1 BY <1>2, <1>9 DEF T
  <2> QED BY <2>1
<1>11. s[1] = 14
  <2>1. ASSUME NEW j \in 1 .. m, j = 1 PROVE s[j] = 14
    <3>1. stack[j].kind = "eth" /\ j - 1 = 0 BY <2>1 DEF Simple
    <3>2. HeaderLen(stack[j]) = 14 BY <3>1 DEF HeaderLen
    <3> QED BY <1>4, <1>5, <3>1, <3>2
  <2>2. 1 \in 1 .. m BY <1>2
  <2> QED BY <2>1, <2>2
<1>12. f[m] = Larger(MinFrame, f[m - 1] + 14)
  <2>1. m \in 1 .. m /\ m + 1 - m = 1 BY <1>2
  <2>2. stack[1].kind = "eth" BY DEF Simple
  <2> QED BY <1>6, <2>1, <2>2
<1>13. s[m] \in Int /\ payload + s[m] >= MinFrame BY <1>2, <1>3, <1>5
<1>14. f[m] = payload + s[m] BY <1>10, <1>11, <1>12, <1>13 DEF Larger, MinFrame
<1> QED BY <1>2, <1>3, <1>5, <1>6, <1>14

\* headerLen counts the headers of a stack without tunnels.
LEMMA SimpleHeaders ==
    ASSUME NEW stack \in Seq(Layer), Buildable(stack), Simple(stack)
    PROVE  headerLen(stack) = Offset(stack, Len(stack) + 1) /\ headerLen(stack) \in Int
<1>1. stack # <<>> /\ \A j \in DOMAIN stack : stack[j].kind \in Kinds
  BY DEF Buildable, LayerBuilds
<1>2. PICK m \in Nat : m = Len(stack) /\ m >= 1 /\ DOMAIN stack = 1 .. m
  <2>1. Len(stack) \in Nat \ {0} BY <1>1, EmptySeq
  <2> QED BY <2>1
<1>3. ASSUME NEW j \in 1 .. m PROVE layerHeaderLen(stack[j].kind) = HeaderLen(stack[j])
  <2>1. stack[j].kind \in Kinds \ {"vxlan", "srh"}
    <3>1. CASE j = 1 BY <3>1 DEF Simple, Kinds
    <3>2. CASE j # 1
      <4>1. j \in 2 .. Len(stack) BY <1>2, <3>2
      <4> QED BY <1>1, <1>2, <4>1 DEF Simple
    <3> QED BY <3>1, <3>2
  <2> QED BY <2>1 DEF Kinds, layerHeaderLen, HeaderLen
<1>4. DOMAIN stack = 1 .. (m + 1) - 1 BY <1>2
<1>5. [j \in DOMAIN stack |-> layerHeaderLen(stack[j].kind)]
        = [j \in 1 .. (m + 1) - 1 |-> HeaderLen(stack[j])]
  BY <1>2, <1>3, <1>4
<1>6. headerLen(stack) = Offset(stack, m + 1) BY <1>5, Zenon DEF headerLen, Offset
<1>7. m + 1 \in 1 .. Len(stack) + 1 BY <1>2
<1> QED BY <1>1, <1>2, <1>6, <1>7, OffsetInt

\* c has the entries of a and then those of b.
OneAfterAnother(c, a, b) ==
    /\ \A y \in 1 .. Len(a) : y \in 1 .. Len(c) /\ c[y] = a[y]
    /\ \A i \in 1 .. Len(b) : Len(a) + i \in 1 .. Len(c) /\ c[Len(a) + i] = b[i]

\* Where concatenation puts the entries of two sequences.
LEMMA ConcatAt ==
    ASSUME NEW S, NEW a \in Seq(S), NEW b \in Seq(S), NEW c, c = a \o b
    PROVE  OneAfterAnother(c, a, b)
<1>1. Len(a) \in Nat /\ Len(b) \in Nat OBVIOUS
<1>2. /\ Len(c) = Len(a) + Len(b)
      /\ \A y \in 1 .. Len(a) + Len(b) : c[y] = IF y <= Len(a) THEN a[y] ELSE b[y - Len(a)]
  BY ConcatProperties
<1>3. ASSUME NEW y \in 1 .. Len(a) PROVE y \in 1 .. Len(c) /\ c[y] = a[y]
  <2>1. y \in 1 .. Len(a) + Len(b) /\ y <= Len(a) BY <1>1
  <2> QED BY <1>2, <2>1
<1>4. ASSUME NEW i \in 1 .. Len(b) PROVE Len(a) + i \in 1 .. Len(c) /\ c[Len(a) + i] = b[i]
  <2>1. /\ Len(a) + i \in 1 .. Len(a) + Len(b) /\ ~(Len(a) + i <= Len(a))
        /\ (Len(a) + i) - Len(a) = i
    BY <1>1
  <2> QED BY <1>2, <2>1
<1> QED BY <1>3, <1>4 DEF OneAfterAnother

\* r is q up to the n-th entry.
UpTo(r, q, n) == Len(r) = n - 1 /\ \A j \in 1 .. n - 1 : r[j] = q[j]

\* p has the entries of b right after those of a.
Follows(p, a, b) == \A i \in DOMAIN b : p[Len(a) + i] = b[i]

\* Where FlattenSeq puts the entries of the n-th sequence: after those before it.
LEMMA FlattenAt ==
    ASSUME NEW S, NEW q \in Seq(Seq(S)), NEW n \in 1 .. Len(q), NEW r \in Seq(Seq(S)),
           UpTo(r, q, n)
    PROVE  Follows(FlattenSeq(q), FlattenSeq(r), q[n])
<1> SUFFICES ASSUME NEW i \in DOMAIN q[n]
             PROVE  FlattenSeq(q)[Len(FlattenSeq(r)) + i] = q[n][i]
  BY DEF Follows
<1>0. Len(r) = n - 1 /\ \A j \in 1 .. n - 1 : r[j] = q[j] BY DEF UpTo
<1>1. PICK m \in Nat : m = Len(q) /\ \A j \in 1 .. m : q[j] \in Seq(S) OBVIOUS
<1>2. PICK f : /\ f[0] = <<>> /\ \A j \in 0 .. m : f[j] \in Seq(S)
               /\ \A j \in 1 .. m : f[j] = f[j - 1] \o q[j]
               /\ FlattenSeq(q) = f[m]
  BY <1>1, FlattenDef
<1>3. PICK g : /\ g[0] = <<>> /\ \A j \in 1 .. n - 1 : g[j] = g[j - 1] \o r[j]
               /\ FlattenSeq(r) = g[n - 1]
  <2>1. PICK g : /\ g[0] = <<>> /\ \A j \in 1 .. Len(r) : g[j] = g[j - 1] \o r[j]
                 /\ FlattenSeq(r) = g[Len(r)]
    BY FlattenDef
  <2> QED BY <1>0, <2>1
<1>4. n - 1 \in Nat /\ n \in 1 .. m /\ n \in 0 .. m /\ n - 1 \in 0 .. m /\ m \in 0 .. m
      /\ \A j \in 1 .. n - 1 : j \in 1 .. m
  BY <1>1
<1> DEFINE T == {j \in 0 .. n - 1 : g[j] = f[j]}
<1>5. 0 \in T BY <1>2, <1>3, <1>4
<1>6. ASSUME NEW j \in 1 .. n - 1, j - 1 \in T PROVE j \in T
  <2>1. g[j - 1] = f[j - 1] /\ r[j] = q[j] BY <1>0, <1>6
  <2>2. g[j] = g[j - 1] \o r[j] /\ f[j] = f[j - 1] \o q[j] BY <1>2, <1>3, <1>4
  <2>3. g[j] = f[j] BY <2>1, <2>2
  <2> QED BY <1>4, <2>3
<1> HIDE DEF T
<1>7. \A j \in 0 .. n - 1 : j \in T BY <1>4, <1>5, <1>6, Induct
<1>8. FlattenSeq(r) = f[n - 1]
  <2>1. n - 1 \in 0 .. n - 1 BY <1>4
  <2> QED BY <1>3, <1>7, <2>1 DEF T
<1> DEFINE x == Len(f[n - 1]) + i
<1>9. /\ x \in 1 .. Len(f[n]) /\ f[n][x] = q[n][i]
  <2>1. f[n - 1] \in Seq(S) /\ q[n] \in Seq(S) /\ f[n] = f[n - 1] \o q[n] BY <1>1, <1>2, <1>4
  <2>2. i \in 1 .. Len(q[n]) BY <2>1
  <2>3. OneAfterAnother(f[n], f[n - 1], q[n]) BY <2>1, ConcatAt
  <2> QED BY <2>2, <2>3 DEF OneAfterAnother
<1> HIDE DEF x
<1> DEFINE U == {j \in 0 .. m : j < n \/ (x \in 1 .. Len(f[j]) /\ f[j][x] = q[n][i])}
<1>10. 0 \in U BY <1>4
<1>11. ASSUME NEW j \in 1 .. m, j - 1 \in U PROVE j \in U
  <2>1. CASE j < n BY <1>1, <2>1
  <2>2. CASE j = n BY <1>1, <1>9, <2>2
  <2>3. CASE j > n
    <3>1. ~(j - 1 < n) /\ j - 1 \in 0 .. m BY <1>1, <2>3
    <3>2. x \in 1 .. Len(f[j - 1]) /\ f[j - 1][x] = q[n][i] BY <1>11, <3>1
    <3>3. f[j - 1] \in Seq(S) /\ q[j] \in Seq(S) /\ f[j] = f[j - 1] \o q[j] BY <1>1, <1>2, <3>1
    <3>4. OneAfterAnother(f[j], f[j - 1], q[j]) BY <3>3, ConcatAt
    <3>5. x \in 1 .. Len(f[j]) /\ f[j][x] = f[j - 1][x] BY <3>2, <3>4 DEF OneAfterAnother
    <3> QED BY <1>1, <3>2, <3>5
  <2>4. j < n \/ j = n \/ j > n BY <1>1
  <2> QED BY <2>1, <2>2, <2>3, <2>4
<1> HIDE DEF U
<1>12. \A j \in 0 .. m : j \in U BY <1>1, <1>10, <1>11, Induct
<1>13. ~(m < n) BY <1>1
<1>14. f[m][x] = q[n][i] BY <1>4, <1>12, <1>13 DEF U
<1> QED BY <1>2, <1>8, <1>14 DEF x

\* The streams of an entry come after those of the entries before it.
LEMMA ParseAt ==
    ASSUME NEW entries \in Seq(Entry), Parses(entries), NEW n \in DOMAIN entries,
           NEW i \in DOMAIN build(entries[n])
    PROVE  Parse(entries)[Len(Parse(SubSeq(entries, 1, n - 1))) + i] = build(entries[n])[i]
<1>1. PICK m \in Nat : m = Len(entries) /\ DOMAIN entries = 1 .. m
                       /\ \A j \in 1 .. m : entries[j] \in Entry
  OBVIOUS
<1> DEFINE before == SubSeq(entries, 1, n - 1)
           q == [j \in 1 .. m |-> build(entries[j])]
           r == [j \in 1 .. n - 1 |-> build(entries[j])]
           S == UNION {ToSet(q[j]) : j \in 1 .. m}
<1>2. n \in 1 .. m /\ n - 1 \in Nat /\ \A j \in 1 .. n - 1 : j \in 1 .. m BY <1>1
<1>3. /\ DOMAIN before = 1 .. n - 1 /\ \A j \in 1 .. n - 1 : before[j] = entries[j]
  <2>1. 1 \in Int /\ n - 1 \in Int /\ \A j \in 1 .. n - 1 : entries[j] \in Entry BY <1>1, <1>2
  <2>2. /\ before \in Seq(Entry) /\ Len(before) = IF 1 <= n - 1 THEN (n - 1) - 1 + 1 ELSE 0
        /\ \A j \in 1 .. (n - 1) - 1 + 1 : before[j] = entries[1 + j - 1]
    BY <2>1, SubSeqProperties
  <2>3. Len(before) = n - 1 /\ (n - 1) - 1 + 1 = n - 1 BY <1>2, <2>2
  <2>4. \A j \in 1 .. n - 1 : 1 + j - 1 = j BY <1>2
  <2> HIDE DEF before
  <2> QED BY <2>2, <2>3, <2>4
<1>4. Parse(entries) = FlattenSeq(q) BY <1>1 DEF Parse
<1>5. Parse(before) = FlattenSeq(r)
  <2>1. [j \in DOMAIN before |-> build(before[j])] = r BY <1>3
  <2> QED BY <2>1, Zenon DEF Parse
<1>6. ASSUME NEW j \in 1 .. m PROVE q[j] \in Seq(S)
  <2>1. EntryBuilds(entries[j]) /\ entries[j] \in Entry BY <1>1 DEF Parses
  <2>2. q[j] = build(entries[j]) OBVIOUS
  <2> HIDE DEF q
  <2>3. q[j] \in Seq(ToSet(q[j])) BY <2>1, <2>2, BuildEntry
  <2>4. ToSet(q[j]) \subseteq S OBVIOUS
  <2> HIDE DEF S
  <2> QED BY <2>3, <2>4
<1>7. \A j \in 1 .. n - 1 : r[j] = q[j] BY <1>2
<1>8. q \in Seq(Seq(S)) /\ Len(q) = m
  <2> DEFINE B == Seq(S)
  <2>1. q \in [1 .. m -> B] BY <1>6
  <2> HIDE DEF B, q
  <2>2. q \in Seq(B) /\ Len(q) = m BY <1>1, <2>1, FunctionIsSeq
  <2> QED BY <2>2 DEF B
<1>9. r \in Seq(Seq(S)) /\ Len(r) = n - 1
  <2>1. \A j \in 1 .. n - 1 : build(entries[j]) \in Seq(S) BY <1>2, <1>6
  <2> DEFINE B == Seq(S)
  <2>2. r \in [1 .. n - 1 -> B] BY <2>1
  <2> HIDE DEF B, r
  <2>3. r \in Seq(B) /\ Len(r) = n - 1 BY <1>2, <2>2, FunctionIsSeq
  <2> QED BY <2>3 DEF B
<1>10. q[n] = build(entries[n]) BY <1>2
<1> HIDE DEF q, r, S, before
<1>11. FlattenSeq(q)[Len(FlattenSeq(r)) + i] = q[n][i]
  <2>1. n \in 1 .. Len(q) /\ i \in DOMAIN q[n] BY <1>2, <1>8, <1>10
  <2>2. UpTo(r, q, n) BY <1>7, <1>9 DEF UpTo
  <2>3. Follows(FlattenSeq(q), FlattenSeq(r), q[n]) BY <1>8, <1>9, <2>1, <2>2, FlattenAt
  <2> QED BY <2>1, <2>3 DEF Follows
<1> QED BY <1>4, <1>5, <1>10, <1>11 DEF before

\* A step keeps what was parsed until it is tagged.
LEMMA DslStep == ASSUME Phases, DslInv, [Next]_vars PROVE DslInv'
<1>1. CASE Load
  <2>1. CASE pc' = "rejected" BY <2>1 DEF DslInv
  <2>2. ASSUME NEW p, orig' = p, LoadsFirst(p) PROVE DslInv' BY <2>2 DEF LoadsFirst, DslInv
  <2>3. ASSUME NEW p, LoadsAgain(p), snapshot' = snapshot PROVE DslInv'
    BY <2>3 DEF LoadsAgain, DslInv
  <2> QED BY <1>1, <2>1, <2>2, <2>3, LoadCases
<1>2. CASE Quiet BY <1>2, QuietStep, Zenon DEF DslInv
<1>3. CASE Export BY <1>3 DEF Export, DslInv
<1> QED BY <1>1, <1>2, <1>3 DEF Next, Quiet

\* A row of an imix that fits has its size.
LEMMA InvImixFrameSize == ASSUME Phases, DslInv PROVE ImixFrameSize
<1> SUFFICES ASSUME origin = "dsl", pc = "tag", snapshot = <<>>,
                    NEW n \in DOMAIN source, NEW i \in DOMAIN source[n].imix,
                    Simple(source[n].layers), source[n].payload = None,
                    source[n].imix[i].size
                      >= Larger(MinFrame, Offset(source[n].layers, Len(source[n].layers) + 1))
             PROVE  profile[Len(Parse(SubSeq(source, 1, n - 1))) + i].packet.len
                      = source[n].imix[i].size
  BY Zenon DEF ImixFrameSize
<1> DEFINE e == source[n]
           size == e.imix[i].size
           b == build(e)
           payload == rowPayload(e, i)
<1>1. source \in Seq(Entry) /\ Parses(source) /\ profile = Parse(source)
  <2>1. source \in Files /\ Parses(source) /\ orig = Parse(source) BY DEF DslInv
  <2>2. profile = orig BY Zenon DEF Phases
  <2> QED BY <2>1, <2>2, UploadAssumption
<1>2. e \in Entry /\ EntryBuilds(e) BY <1>1 DEF Parses
<1>3. e.layers \in Seq(Layer) /\ e.imix \in Seq(Row) BY <1>2 DEF Entry
<1>4. e.imix # <<>> /\ size \in Nat
  <2>1. DOMAIN <<>> = {} /\ e.imix[i] \in Row BY <1>3
  <2> QED BY <2>1 DEF Row
<1>5. Buildable(e.layers)
  <2>1. OneBuilds(e, payload) BY <1>2, <1>4 DEF EntryBuilds
  <2> QED BY <2>1 DEF OneBuilds
<1>6. i \in DOMAIN b /\ b[i].packet.len = FrameLen(e, payload)
  <2>1. b = [j \in DOMAIN e.imix |-> buildOne(e, rowPayload(e, j), imixName(e, j), NoName, e.imix[j].pg)]
    BY <1>4 DEF build
  <2>2. i \in DOMAIN b /\ b[i] = buildOne(e, payload, imixName(e, i), NoName, e.imix[i].pg) BY <2>1
  <2> HIDE DEF payload, e, b
  <2> QED BY <2>2 DEF buildOne, ZeroStream
<1>7. profile[Len(Parse(SubSeq(source, 1, n - 1))) + i] = b[i] BY <1>1, <1>6, ParseAt
<1>8. FrameLen(e, payload) = SerializedLen(e.layers, payload) BY DEF FrameLen
<1> DEFINE h == Offset(e.layers, Len(e.layers) + 1)
<1>9. headerLen(e.layers) = h /\ h \in Int BY <1>3, <1>5, SimpleHeaders
<1>10. payload = IF size - h < 0 THEN 0 ELSE size - h BY <1>9 DEF rowPayload, payloadForSize
<1>11. size >= Larger(MinFrame, h) OBVIOUS
<1> HIDE DEF h, size, payload, e, b
<1>12. size >= MinFrame /\ size >= h BY <1>4, <1>9, <1>11 DEF Larger, MinFrame
<1>13. payload = size - h /\ payload \in Nat /\ payload + h = size BY <1>4, <1>9, <1>10, <1>12
<1>14. SerializedLen(e.layers, payload) = payload + h
  <2>1. Simple(e.layers) BY DEF e
  <2>2. payload + Offset(e.layers, Len(e.layers) + 1) >= MinFrame BY <1>12, <1>13 DEF h
  <2> QED BY <1>3, <1>5, <1>13, <2>1, <2>2, SimpleLength DEF h
<1> QED BY <1>6, <1>7, <1>8, <1>13, <1>14 DEF size, e

-----------------------------------------------------------------------------
(* The theorems of the upload *)

\* No step breaks the invariant.
LEMMA StepInv == IInv /\ [Next]_vars => IInv'
BY PhasesStep, WireStep, FileStep, SnapStep, ChainStep, PlayStep, VmStep, DslStep DEF IInv

\* It holds in every state, from which every theorem below follows.
THEOREM UploadInv == Spec => []IInv
BY InitInv, StepInv, PTL DEF Spec

\* For all ports and files: the command goes through its phases with the profile
\* it loaded, and the server plays streams it has been given.
THEOREM UploadTypeOK == Spec => []TypeOK
<1>1. IInv => TypeOK BY InvTypeOK DEF IInv
<1> QED BY <1>1, UploadInv, PTL

\* For all profiles, with ids forced by a program or not: the streams a port gets
\* have different ids, and a reference is the id of a stream of the same upload
\* that has the name referred to.
THEOREM UploadWireConsistent == Spec => []WireConsistent
<1>1. IInv => WireConsistent BY InvWireConsistent DEF IInv
<1> QED BY <1>1, UploadInv, PTL

\* For all profiles: EnsureFlowStats gives every stream of the ndr command a
\* group, each one of its own.
THEOREM UploadTagsDistinct == Spec => []TagsDistinct
<1>1. IInv => TagsDistinct BY InvTagsDistinct DEF IInv
<1> QED BY <1>1, UploadInv, PTL

\* For all captures, ids and options: a replay with the capture's own gaps never
\* runs ahead of its timestamps, and keeps to them if they are in order, from the
\* file and from a snapshot of the upload.
THEOREM UploadReplayOnTime == Spec => []ReplayOnTime
<1>1. IInv => ReplayOnTime BY InvReplayOnTime DEF IInv
<1> QED BY <1>1, UploadInv, PTL

\* The packets of a capture are sent in order, none left out or repeated, and the
\* server stops after the last one only.
ReplayInOrder ==
    pc = "playing" =>
        /\ \A n \in DOMAIN sent : sent[n].pkt = n
        /\ Len(sent) <= Len(source) /\ (active = None <=> Len(sent) = Len(source))

\* That is what ReplayCompletes says of the states, for all captures; that the
\* last packet is reached is left to the runs.
THEOREM UploadReplayInOrder == Spec => []ReplayInOrder
<1>1. IInv => ReplayInOrder
  <2> SUFFICES ASSUME IInv, pc = "playing"
               PROVE  /\ \A n \in DOMAIN sent : sent[n].pkt = n
                      /\ Len(sent) <= Len(source) /\ (active = None <=> Len(sent) = Len(source))
    BY Zenon DEF ReplayInOrder
  <2>1. origin = "pcap" /\ Replayed BY DEF IInv, PlayInv
  <2>2. Len(source) \in Nat BY <2>1, ChainOnWire DEF IInv
  <2>3. /\ sent \in Seq([pkt : Nat, at : Nat]) /\ Len(sent) <= Len(source)
        /\ active = IF Len(sent) < Len(source) THEN Len(sent) ELSE None
        /\ \A n \in DOMAIN sent : sent[n].pkt = n
    BY <2>1, Zenon DEF Replayed
  <2>4. Len(sent) \in Nat BY <2>3
  <2>5. active = None <=> Len(sent) = Len(source) BY <2>2, <2>3, <2>4 DEF None
  <2> QED BY <2>3, <2>5
<1> QED BY <1>1, UploadInv, PTL

\* For all stacks of layers: an instruction written for a field of a layer writes
\* inside the outermost header of that layer, in tunnels and from snapshots too.
THEOREM UploadWritesWhereNamed == Spec => []WritesWhereNamed
<1>1. IInv => WritesWhereNamed BY InvWritesWhereNamed DEF IInv
<1> QED BY <1>1, UploadInv, PTL

\* For all entries: the row of an imix without a tunnel has its frame size exactly
\* if its headers fit.
THEOREM UploadImixFrameSize == Spec => []ImixFrameSize
<1>1. IInv => ImixFrameSize BY InvImixFrameSize DEF IInv
<1> QED BY <1>1, UploadInv, PTL

\* For all files: what is exported from a port, loaded and uploaded again is what
\* was exported, in either form of the export.
THEOREM UploadSnapshotFaithful == Spec => []SnapshotFaithful
<1>1. IInv => SnapshotFaithful BY InvSnapshotFaithful DEF IInv
<1> QED BY <1>1, UploadInv, PTL

=============================================================================
