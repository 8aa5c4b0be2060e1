------------------------------- MODULE Profile -------------------------------
(***************************************************************************)
(* Streams and profiles of pkg/stl/stream.go and mode.go: tagging with     *)
(* flow statistics (EnsureFlowStats), the split by direction (ForPort),    *)
(* and the resolution of stream ids and next references (Resolve).         *)
(*                                                                         *)
(* A stream is what these functions and the server look at.  A name is the *)
(* sequence of its words, as the loaders derive names (pkt_3, imix_0).     *)
(* The fields that only pass through (rate, core, seed, MAC override) are  *)
(* left out.                                                               *)
(***************************************************************************)
EXTENDS Packets, FiniteSets

NoName   == <<>>
Name     == Seq(STRING)
NoPacket == [layers |-> <<>>, len |-> 0]

Stream == [name : Name, next : Name, id : Nat \cup {None}, dir : {0, 1, None},
           pg : Nat \cup {None}, dummy : BOOLEAN, self : BOOLEAN, isg : Nat, mode : STRING,
           packet : [layers : Seq(Layer), len : Nat], vm : Seq(SentInstruction)]

\* The zero value of Stream.  A disabled FlowStats is no group.
ZeroStream ==
    [name |-> NoName, next |-> NoName, id |-> None, dir |-> None, pg |-> None, dummy |-> FALSE,
     self |-> FALSE, isg |-> 0, mode |-> "", packet |-> NoPacket, vm |-> <<>>]

-----------------------------------------------------------------------------
\* ForPort: streams without a direction and those of the port's parity.
ForPort(p, port) == Kept(p, {s \in ToSet(p) : s.dir \in {None, port % 2}})

EnsureFlowStatsNoSkip(p, start) ==
    [n \in DOMAIN p |-> IF p[n].pg # None THEN p[n] ELSE [p[n] EXCEPT !.pg = start]]

\* EnsureFlowStats: consecutive groups from start for the streams without one.
EnsureFlowStats(p, start) ==
    LET lacks(n) == ~p[n].dummy /\ p[n].pg = None
        before(n) == Cardinality({m \in 1 .. n - 1 : lacks(m)})
    IN  [n \in DOMAIN p |->
            IF lacks(n) THEN [p[n] EXCEPT !.pg = start + before(n)] ELSE p[n]]

-----------------------------------------------------------------------------
(* Resolve *)

\* The inner loop of the allocation: the first id past nextAuto not in use.
FirstFree(nextAuto, used) ==
    CHOOSE m \in nextAuto + 1 .. nextAuto + 1 + Cardinality(used) :
        m \notin used /\ \A k \in nextAuto + 1 .. m - 1 : k \in used

AllocateIgnoresUsed(acc, s) ==
    LET id == IF s.id # None THEN s.id ELSE acc.nextAuto
    IN  [ids |-> Append(acc.ids, id), used |-> acc.used \cup {id}, nextAuto |-> id + 1]

Allocate(acc, s) ==
    LET want == IF s.id # None THEN s.id ELSE acc.nextAuto
        id   == IF want \in acc.used THEN FirstFree(acc.nextAuto, acc.used) ELSE want
    IN  [ids |-> Append(acc.ids, id), used |-> acc.used \cup {id}, nextAuto |-> id + 1]

\* The ids of the streams of p, in order.
Ids(p) ==
    LET acc[n \in 0 .. Len(p)] ==
            IF n = 0 THEN [ids |-> <<>>, used |-> {}, nextAuto |-> 0]
            ELSE Allocate(acc[n - 1], p[n])
    IN  acc[Len(p)].ids

DuplicateName(p) ==
    \E m, n \in DOMAIN p : m # n /\ p[m].name # NoName /\ p[m].name = p[n].name

Dangling(p) ==
    \E n \in DOMAIN p : p[n].next # NoName /\ \A m \in DOMAIN p : p[m].name # p[n].next

\* Resolve returns an error, or ...
Resolvable(p) ==
    /\ ~DuplicateName(p) /\ ~Dangling(p)
    /\ \A n \in DOMAIN p : p[n].packet # NoPacket

WireStream ==
    [id : Nat, name : Name, next : Name, nextId : Nat \cup {-1}, pg : Nat \cup {None},
     dummy : BOOLEAN, self : BOOLEAN, isg : Nat, mode : STRING,
     packet : [layers : Seq(Layer), len : Nat], vm : Seq(SentInstruction)]

\* ... the wire streams, with their ids and their successors' ids.
Resolve(p) ==
    LET ids == Ids(p)
        target(n) == CHOOSE m \in DOMAIN p : p[m].name = p[n].next
    IN  [n \in DOMAIN p |->
            [id |-> ids[n], name |-> p[n].name, next |-> p[n].next,
             nextId |-> IF p[n].next = NoName THEN -1 ELSE ids[target(n)],
             pg |-> p[n].pg, dummy |-> p[n].dummy, self |-> p[n].self, isg |-> p[n].isg,
             mode |-> p[n].mode, packet |-> p[n].packet, vm |-> p[n].vm]]

=============================================================================
