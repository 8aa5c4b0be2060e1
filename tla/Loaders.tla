------------------------------- MODULE Loaders -------------------------------
(***************************************************************************)
(* Files become profiles: LoadPcap of pkg/stl/loaders/pcap.go makes a      *)
(* chain of one-packet streams from a capture, Parse of pkg/stl/dsl/dsl.go *)
(* one stream per entry of a YAML list, or one per row of an imix entry,   *)
(* and LoadSnapshot of pkg/stl/loaders/snapshot.go takes back the streams  *)
(* of an earlier upload.                                                   *)
(*                                                                         *)
(* Times are in ticks, TicksPerMicro of them to a microsecond (1000 in a   *)
(* nanosecond capture).  Rates are left out.  The decodes flag says whether *)
(* gopacket finds nothing wrong with the frame.                            *)
(***************************************************************************)
EXTENDS Profile

CONSTANT TicksPerMicro

ASSUME TicksAssumption == TicksPerMicro \in Nat \ {0}

-----------------------------------------------------------------------------
(* Captures *)

Captured == [ts : Nat, len : Nat, decodes : BOOLEAN]

\* A duration in whole microseconds, as Duration.Microseconds truncates it.
Micros(ticks) == IF ticks >= 0 THEN ticks \div TicksPerMicro ELSE -((-ticks) \div TicksPerMicro)

gapBeforeFirst(pkts, i, opts) ==
    LET speedup == IF opts.speedup = 0 THEN 1 ELSE opts.speedup
    IN  IF opts.ipg > 0 THEN opts.ipg
        ELSE IF i = 1 THEN 0
        ELSE Larger((Micros(pkts[i].ts - pkts[1].ts) * TicksPerMicro) \div speedup, opts.minIpg)

\* gapBefore: the gap before packet i.
gapBefore(pkts, i, opts) ==
    LET speedup == IF opts.speedup = 0 THEN 1 ELSE opts.speedup
    IN  IF opts.ipg > 0 THEN opts.ipg
        ELSE IF i = 1 THEN 0
        ELSE Larger((Micros(pkts[i].ts - pkts[i - 1].ts) * TicksPerMicro) \div speedup, opts.minIpg)

PcapName(i) == <<"pkt", ToString(i - 1)>>

PcapStreamShort(pkts, i, opts) ==
    [ZeroStream EXCEPT !.name = PcapName(i), !.next = IF i + 1 < Len(pkts) THEN PcapName(i + 1) ELSE NoName,
                       !.self = (i = 1), !.mode = "single_burst", !.isg = gapBefore(pkts, i, opts),
                       !.packet = [layers |-> <<>>, len |-> pkts[i].len]]

PcapStream(pkts, i, opts) ==
    [ZeroStream EXCEPT !.name = PcapName(i), !.next = IF i < Len(pkts) THEN PcapName(i + 1) ELSE NoName,
                       !.self = (i = 1), !.mode = "single_burst", !.isg = gapBefore(pkts, i, opts),
                       !.packet = [layers |-> <<>>, len |-> pkts[i].len]]

\* LoadPcap: an error, or the chain.
PcapLoads(pkts) == pkts # <<>> /\ \A i \in DOMAIN pkts : pkts[i].decodes
LoadPcap(pkts, opts) == [i \in DOMAIN pkts |-> PcapStream(pkts, i, opts)]

-----------------------------------------------------------------------------
(* YAML entries *)

Row   == [size : Nat, weight : Nat, pg : Nat \cup {None}]
Entry == [name : Name, next : Name, mode : STRING, layers : Seq(Layer), payload : (Nat \ {0}) \cup {None},
          decodes : BOOLEAN, vm : Seq(Instruction), pg : Nat \cup {None}, self : BOOLEAN,
          isg : Nat, dir : {0, 1, None}, imix : Seq(Row)]

\* layerHeaderLen: the kinds it does not know count for nothing.
layerHeaderLenNoVlan(kind) ==
    CASE kind = "eth" -> 14 [] kind = "ip" -> 20 [] kind = "ipv6" -> 40
      [] kind = "udp" -> 8 [] kind = "tcp" -> 20 [] OTHER -> 0

layerHeaderLen(kind) ==
    CASE kind = "eth" -> 14 [] kind = "dot1q" -> 4 [] kind = "ip" -> 20
      [] kind = "ipv6" -> 40 [] kind = "udp" -> 8 [] kind = "tcp" -> 20
      [] OTHER -> 0

headerLen(stack) == Total([i \in DOMAIN stack |-> layerHeaderLen(stack[i].kind)])

payloadForSize(target, stack) ==
    IF target - headerLen(stack) < 0 THEN 0 ELSE target - headerLen(stack)

\* The length of the frame buildPacket makes: an explicit payload comes first.
FrameLen(e, payloadSize) == SerializedLen(e.layers, IF e.payload # None THEN e.payload ELSE payloadSize)

\* dslMode.build.
ModeBuilds(e) == e.mode \in {"", "continuous", "single_burst", "multi_burst"}
buildMode(e)  == IF e.mode = "" THEN "continuous" ELSE e.mode

\* buildOne: the packet, then the field-engine program against it.
OneBuilds(e, payloadSize) ==
    Buildable(e.layers) /\ e.decodes /\ VMBuildable(e.vm, e.layers, FrameLen(e, payloadSize))

buildOne(e, payloadSize, name, next, pg) ==
    [ZeroStream EXCEPT !.name = name, !.next = next, !.pg = pg, !.dir = e.dir, !.self = e.self,
                       !.isg = e.isg, !.mode = buildMode(e), !.vm = buildVM(e.vm, e.layers),
                       !.packet = [layers |-> e.layers, len |-> FrameLen(e, payloadSize)]]

imixWeight(e)  == Total([i \in DOMAIN e.imix |-> e.imix[i].weight])
imixName(e, i) == Append(IF e.name = NoName THEN <<"imix">> ELSE e.name, ToString(i - 1))
rowPayload(e, i) == payloadForSize(e.imix[i].size, e.layers)

\* build: the streams of an entry, those of its rows if it has any.  An entry
\* without rows has no payload_size here.
EntryBuilds(e) ==
    /\ ModeBuilds(e)
    /\ IF e.imix = <<>> THEN OneBuilds(e, 0)
       ELSE imixWeight(e) # 0 /\ \A i \in DOMAIN e.imix : OneBuilds(e, rowPayload(e, i))

build(e) ==
    IF e.imix = <<>> THEN << buildOne(e, 0, e.name, e.next, e.pg) >>
    ELSE [i \in DOMAIN e.imix |-> buildOne(e, rowPayload(e, i), imixName(e, i), NoName, e.imix[i].pg)]

\* Parse: an error, or the streams of all entries.
Parses(entries) == \A i \in DOMAIN entries : EntryBuilds(entries[i])
Parse(entries)  == FlattenSeq([i \in DOMAIN entries |-> build(entries[i])])

-----------------------------------------------------------------------------
(* Snapshots *)

\* A captured stream object, the wire's; a GUI export wraps it with its names
\* outside.  Bare, the object is its own wrapper.
Item == [name : Name, next : Name, stream : WireStream]

Bare(w)    == [name |-> w.name, next |-> w.next, stream |-> w]
Wrapped(w) == [name |-> w.name, next |-> w.next,
               stream |-> [w EXCEPT !.name = NoName, !.next = NoName]]

toMode(type) == IF type \in {"single_burst", "multi_burst"} THEN type ELSE "continuous"

toStreamInnerNames(item) ==
    LET s == item.stream
    IN  [ZeroStream EXCEPT !.name = s.name, !.next = s.next, !.pg = s.pg, !.self = s.self,
                           !.isg = s.isg, !.mode = toMode(s.mode), !.packet = s.packet, !.vm = s.vm]

\* The loop of LoadSnapshot with toStream: the object's own names come first,
\* bytes and instructions are taken as they are; the id, the dummy flag and the
\* direction are not.
toStream(item) ==
    LET s == item.stream
    IN  [ZeroStream EXCEPT !.name = IF s.name = NoName THEN item.name ELSE s.name,
                           !.next = IF s.next = NoName THEN item.next ELSE s.next,
                           !.pg = s.pg, !.self = s.self, !.isg = s.isg, !.mode = toMode(s.mode),
                           !.packet = s.packet, !.vm = s.vm]

LoadSnapshot(items) == [i \in DOMAIN items |-> toStream(items[i])]

=============================================================================
