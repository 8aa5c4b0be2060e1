---------------------------- MODULE ChecksumSweep ----------------------------
(***************************************************************************)
(* The checksum_sweep instruction of pkg/stl/dsl/vm.go: two flow variables *)
(* that the server's field engine steps once per packet, one up through a  *)
(* 16-bit field (a UDP source port) and one down through the checksum, so  *)
(* that their sum, and with it the one's-complement checksum, stays what   *)
(* it was in the built packet.                                             *)
(*                                                                         *)
(* A packet is its two swept words.  The rest of the frame is constant, so *)
(* the checksum is right exactly when the two words add up, modulo         *)
(* Words - 1 (one's-complement arithmetic), to what they added up to in    *)
(* the packet that stl.BuildPacket made, whose checksum it had computed.   *)
(***************************************************************************)
EXTENDS Integers

CONSTANTS
    Words,          \* number of 16-bit words: 2^16 in the code
    DefaultMin,     \* where the sweep starts unless told otherwise: 1024
    Mins            \* the values a profile gives to "min"

ASSUME SweepAssumption ==
    /\ Words \in Nat /\ Words > 2
    /\ DefaultMin \in Nat /\ Mins \subseteq Nat

VARIABLES
    built,          \* the two words of the built packet
    sport, ocks,    \* the flow variables, once the instruction is built
    sweep,          \* "none", "built", "refused", or "running" on the server
    lastSent        \* the two words of the last packet the server sent

sweepVars == <<built, sport, ocks, sweep, lastSent>>

Word    == 0 .. Words - 1
Packet  == [field : Word, csum : Word]
FlowVar == [min : Nat, max : Nat, value : Nat]

NewFlowVar(init, min, max) == [min |-> min, max |-> max, value |-> init]

SweepInit ==
    /\ built \in Packet
    /\ sport = NewFlowVar(0, 0, 0) /\ ocks = NewFlowVar(0, 0, 0)
    /\ sweep = "none"
    /\ lastSent = built

-----------------------------------------------------------------------------
(* The client *)

\* An offset names no field of the packet, or the checksum is past its end.
BadOffset ==
    /\ sweep = "none"
    /\ sweep' = "refused"
    /\ UNCHANGED <<built, sport, ocks, lastSent>>

\* base < 2: there is no room below the checksum.
TooSmall ==
    /\ sweep = "none" /\ built.csum < 2
    /\ sweep' = "refused"
    /\ UNCHANGED <<built, sport, ocks, lastSent>>

BuildSweepToZero(min) ==
    LET base == built.csum
    IN  /\ sweep = "none" /\ base >= 2
        /\ sport' = NewFlowVar(min, min, min + base)
        /\ ocks' = NewFlowVar(base, 0, base)
        /\ sweep' = "built"
        /\ UNCHANGED <<built, lastSent>>

BuildSweepUneven(min) ==
    LET base == built.csum
    IN  /\ sweep = "none" /\ base >= 2
        /\ sport' = NewFlowVar(min, min, min + base)
        /\ ocks' = NewFlowVar(base, 1, base)
        /\ sweep' = "built"
        /\ UNCHANGED <<built, lastSent>>

\* The two instructions: the field climbs span steps from min while the
\* checksum descends span steps from its value in the built packet.
BuildSweep(min) ==
    LET base == built.csum
        span == base - 1
    IN  /\ sweep = "none" /\ base >= 2
        /\ sport' = NewFlowVar(min, min, min + span)
        /\ ocks' = NewFlowVar(base, base - span, base)
        /\ sweep' = "built"
        /\ UNCHANGED <<built, lastSent>>

buildChecksumSweep == BadOffset \/ TooSmall \/ \E min \in Mins \cup {DefaultMin} : BuildSweep(min)

-----------------------------------------------------------------------------
(* The server's field engine *)

Inc(v) == [v EXCEPT !.value = IF v.value >= v.max THEN v.min ELSE v.value + 1]
Dec(v) == [v EXCEPT !.value = IF v.value <= v.min THEN v.max ELSE v.value - 1]

\* One packet: the variables are written into it, then stepped.  What a server
\* does with a two-byte variable whose bounds need three is not modelled.
SendPacket ==
    /\ sweep \in {"built", "running"} /\ sport.max < Words
    /\ lastSent' = [field |-> sport.value, csum |-> ocks.value]
    /\ sport' = Inc(sport) /\ ocks' = Dec(ocks)
    /\ sweep' = "running"
    /\ UNCHANGED built

SweepNext == buildChecksumSweep \/ SendPacket

SweepSpec == SweepInit /\ [][SweepNext]_sweepVars

-----------------------------------------------------------------------------
(* Properties *)

\* The words of a packet are words, and the flow variables stay within the
\* bounds the instructions give them.
SweepTypeOK ==
    /\ built \in Packet /\ lastSent \in Packet
    /\ sport \in FlowVar /\ ocks \in FlowVar
    /\ sweep \in {"none", "built", "refused", "running"}
    /\ sport.value \in sport.min .. sport.max /\ ocks.value \in ocks.min .. ocks.max

Valid(p) == (p.field + p.csum) % (Words - 1) = (built.field + built.csum) % (Words - 1)

\* However many packets were sent and however often the variables wrapped
\* around, the checksum of a sweep that starts at the value the built packet
\* holds in the swept field is right.
AlignedChecksumValid == sweep = "running" /\ sport.min = built.field => Valid(lastSent)

\* No packet of a sweep carries checksum zero, which a UDP receiver takes for
\* "no checksum" and an IPv6 one drops.
ChecksumNeverZero == sweep = "running" => lastSent.csum # 0

\* The inductive invariant behind both: the two variables are the same number
\* of steps from their starts, because both ranges have built.csum values.
LockStep ==
    /\ sweep \in {"built", "running"} =>
        /\ built.csum >= 2
        /\ sport.max = sport.min + built.csum - 1
        /\ ocks.min = 1 /\ ocks.max = built.csum
        /\ sport.value - sport.min = ocks.max - ocks.value
    /\ sweep = "running" =>
        /\ sport.max < Words
        /\ lastSent.field + lastSent.csum = sport.min + built.csum
        /\ lastSent.csum >= 1
=============================================================================
