------------------------------- MODULE Upload -------------------------------
(***************************************************************************)
(* A profile on its way from a file to the server and back: Load of        *)
(* pkg/stl/loaders/load.go, the sequence of the streams and ndr commands   *)
(* of pkg/cli/commands.go (tag, resolve, take the ports, load each), the   *)
(* server's replay of a capture's chain, and a snapshot of what was        *)
(* uploaded, loaded and uploaded again.                                    *)
(***************************************************************************)
EXTENDS Loaders

CONSTANTS
    Ports,          \* the ports of the command, a sequence of ids
    Captures,       \* captures: sequences of captured packets
    Options,        \* PcapOptions: records [ipg, minIpg, speedup], times in ticks
    Files,          \* YAML lists: sequences of entries
    Snapshots,      \* stream lists of other clients: sequences of bare or wrapped objects
    Profiles        \* profiles made by a program that uses the packages as a library

NoOptions == [ipg |-> 0, minIpg |-> 0, speedup |-> 0]

\* Instructions that were not made from references to fields, as buildVM makes
\* them, have their byte offsets only.
Unnamed(vm) == \A i \in DOMAIN vm : vm[i].for = NoReference

ASSUME UploadAssumption ==
    /\ Ports \in Seq(Nat) /\ Ports # <<>>
    /\ \A o \in Options : /\ o.ipg \in Nat /\ o.minIpg \in Nat /\ o.speedup \in Nat
                          /\ o.speedup # 0 => TicksPerMicro % o.speedup = 0
    /\ Captures \subseteq Seq(Captured) /\ Files \subseteq Seq(Entry)
    /\ Snapshots \subseteq Seq({item \in Item : Unnamed(item.stream.vm)})
    /\ Profiles \subseteq Seq({s \in Stream : Unnamed(s.vm)})

VARIABLES
    cmd,            \* "streams" or "ndr": which command's sequence runs
    pc,             \* its next step
    origin,         \* "pcap", "dsl", "snapshot" or "library": what was loaded first
    source,         \* the capture or the entries, <<>> for the others
    options,        \* the options of the capture
    profile, orig,  \* the profile, and as it was loaded
    k,              \* index of the next port to load
    wire,           \* the streams the command uploaded to each port
    snapshot,       \* a capture of the streams of the first port, <<>> before it is made
    active,         \* the id of the stream the server plays, None if none
    now,            \* the server's clock, in ticks
    sent            \* what it sent so far: the position of the stream and the time

input  == <<origin, source, options>>
server == <<active, now, sent>>
vars == <<cmd, pc, input, profile, orig, k, wire, snapshot, server>>

NoWire == [n \in 1 .. Len(Ports) |-> <<>>]

Init ==
    /\ cmd \in {"streams", "ndr"} /\ pc = "load"
    /\ origin = "" /\ source = <<>> /\ options = NoOptions
    /\ profile = <<>> /\ orig = <<>> /\ k = 1 /\ wire = NoWire /\ snapshot = <<>>
    /\ active = None /\ now = 0 /\ sent = <<>>

-----------------------------------------------------------------------------
(* Load, by the kind of the file *)

LoadedAs(p) == pc' = "tag" /\ profile' = p /\ orig' = p
LoadError   == pc' = "rejected" /\ UNCHANGED <<profile, orig>>

FromCapture ==
    /\ origin = "" /\ origin' = "pcap"
    /\ \E pkts \in Captures, opts \in Options :
        /\ source' = pkts /\ options' = opts
        /\ IF PcapLoads(pkts) THEN LoadedAs(LoadPcap(pkts, opts)) ELSE LoadError

FromEntries ==
    /\ origin = "" /\ origin' = "dsl"
    /\ \E entries \in Files :
        /\ source' = entries /\ options' = options
        /\ IF Parses(entries) THEN LoadedAs(Parse(entries)) ELSE LoadError

\* A snapshot of another client, or of the earlier upload.  A frame that was
\* built here decodes again.
FromSnapshot ==
    \/ /\ origin = "" /\ origin' = "snapshot" /\ UNCHANGED <<source, options>>
       /\ \E items \in Snapshots, decodes \in BOOLEAN :
            IF decodes THEN LoadedAs(LoadSnapshot(items)) ELSE LoadError
    \/ /\ snapshot # <<>> /\ UNCHANGED input
       /\ LoadedAs(LoadSnapshot(snapshot))

FromProgram ==
    /\ origin = "" /\ origin' = "library" /\ UNCHANGED <<source, options>>
    /\ \E p \in Profiles : LoadedAs(p)

Load ==
    /\ pc = "load"
    /\ FromCapture \/ FromEntries \/ FromSnapshot \/ FromProgram
    /\ UNCHANGED <<cmd, k, wire, snapshot, server>>

-----------------------------------------------------------------------------
(* The commands *)

\* NDRCmd.Run tags the profile first; StreamsCmd.Run does not.
Tag ==
    /\ pc = "tag" /\ pc' = "resolve"
    /\ profile' = IF cmd = "ndr" THEN EnsureFlowStats(profile, 1) ELSE profile
    /\ UNCHANGED <<cmd, input, orig, k, wire, snapshot, server>>

\* The whole profile is resolved before the ports are acquired.
CheckProfile ==
    /\ pc = "resolve"
    /\ pc' = IF Resolvable(profile) THEN "upload" ELSE "rejected"
    /\ UNCHANGED <<cmd, input, profile, orig, k, wire, snapshot, server>>

\* loadPort for the next port.
loadPort ==
    /\ pc = "upload" /\ k <= Len(Ports)
    /\ LET sub == ForPort(profile, Ports[k]) IN
       IF Resolvable(sub)
       THEN wire' = [wire EXCEPT ![k] = Resolve(sub)] /\ k' = k + 1 /\ pc' = pc
       ELSE pc' = "failed" /\ UNCHANGED <<wire, k>>
    /\ UNCHANGED <<cmd, input, profile, orig, snapshot, server>>

Uploaded ==
    /\ pc = "upload" /\ k > Len(Ports)
    /\ pc' = "done"
    /\ UNCHANGED <<cmd, input, profile, orig, k, wire, snapshot, server>>

-----------------------------------------------------------------------------
(* The server *)

\* It starts the streams that start by themselves: of a capture's chain, one.
Play ==
    /\ pc = "done" /\ origin = "pcap" /\ pc' = "playing"
    /\ active' = (CHOOSE s \in ToSet(wire[1]) : s.self).id
    /\ UNCHANGED <<cmd, input, profile, orig, k, wire, snapshot, now, sent>>

\* It waits the inter-stream gap, sends the burst of one packet and goes on to
\* the next stream, found by its id.
SendBurst ==
    /\ pc = "playing" /\ active # None
    /\ LET n == CHOOSE n \in DOMAIN wire[1] : wire[1][n].id = active
       IN  /\ now' = now + wire[1][n].isg
           /\ sent' = Append(sent, [pkt |-> n, at |-> now'])
           /\ active' = wire[1][n].nextId
    /\ UNCHANGED <<cmd, pc, input, profile, orig, k, wire, snapshot>>

\* The streams of the first port are exported, as they are on the wire or in the
\* GUI's form, and a new command is given the export.
Export ==
    /\ pc = "done" /\ snapshot = <<>> /\ wire[1] # <<>>
    /\ \/ snapshot' = [n \in DOMAIN wire[1] |-> Bare(wire[1][n])]
       \/ snapshot' = [n \in DOMAIN wire[1] |-> Wrapped(wire[1][n])]
    /\ cmd' \in {"streams", "ndr"} /\ pc' = "load" /\ k' = 1 /\ wire' = NoWire
    /\ UNCHANGED <<input, profile, orig, server>>

Next == Load \/ Tag \/ CheckProfile \/ loadPort \/ Uploaded \/ Play \/ SendBurst \/ Export

Spec == Init /\ [][Next]_vars

\* The server keeps transmitting what it was told to.
FairSpec == Spec /\ WF_vars(SendBurst)

-----------------------------------------------------------------------------
(* Properties *)

\* Phases of a command, and the server plays streams it has.
TypeOK ==
    /\ pc \in {"load", "tag", "resolve", "upload", "done", "failed", "rejected", "playing"}
    /\ Len(profile) = Len(orig) /\ k \in 1 .. Len(Ports) + 1
    /\ active # None => \E s \in ToSet(wire[1]) : s.id = active
    /\ now \in Nat /\ Len(sent) <= Len(wire[1])

\* The streams a port gets have distinct ids, whatever ids were forced, and a
\* next_stream_id is the id of a stream of the same upload with that name.
WireConsistent ==
    \A p \in 1 .. Len(Ports) :
        LET w == wire[p] IN
        /\ \A m, n \in DOMAIN w : m # n => w[m].id # w[n].id
        /\ \A n \in DOMAIN w : w[n].nextId # -1 =>
              LET sub == ForPort(profile, Ports[p]) IN
              \E m \in DOMAIN w : w[m].id = w[n].nextId /\ w[m].name = sub[n].next

\* Before its first upload the ndr command has tagged the profile: every stream
\* that is not a dummy has a group, and those it handed out are all different.
TagsDistinct ==
    cmd = "ndr" /\ pc \notin {"load", "tag"} =>
        LET new == {n \in DOMAIN profile : profile[n].pg # orig[n].pg} IN
        /\ \A m, n \in new : m # n => profile[m].pg # profile[n].pg
        /\ \A n \in DOMAIN profile : profile[n].dummy \/ profile[n].pg # None

\* Nor does a group handed out clash with one the profile set itself: the ndr
\* command tags "before splitting by direction so pg ids stay unique across ports".
GroupsUnique ==
    cmd = "ndr" /\ pc = "done" =>
        \A m, n \in DOMAIN profile :
            m # n /\ profile[m].pg # orig[m].pg => profile[m].pg # profile[n].pg

MicroCapture == \A i \in DOMAIN source : source[i].ts % TicksPerMicro = 0
OwnGaps == options.ipg = 0 /\ options.speedup \in {0, 1}

\* A capture with microsecond timestamps, replayed with its own gaps, is never
\* replayed ahead of its timestamps, not even when they run backwards and the
\* gaps are clamped; a capture in time order without a minimal gap is replayed
\* exactly on them.  That goes for its snapshot too.
ReplayOnTime ==
    origin = "pcap" /\ OwnGaps /\ MicroCapture =>
        \A n \in DOMAIN sent :
            LET captured == source[n].ts - source[1].ts
                sorted   == \A j \in 2 .. n : source[j - 1].ts <= source[j].ts
            IN  /\ sent[n].at >= captured
                /\ sorted /\ options.minIpg = 0 => sent[n].at = captured

\* Following the next references of the chain by their ids, the server sends
\* every packet of a capture in the end, each once and in order.
ReplayCompletes ==
    [](pc = "playing" =>
        <>(Len(sent) = Len(source) /\ \A n \in DOMAIN sent : sent[n].pkt = n))

Simple(stack) ==
    /\ stack[1].kind = "eth"
    /\ \A i \in 2 .. Len(stack) : stack[i].kind \notin {"eth", "vxlan", "srh"}

\* A row of an imix without a tunnel has its frame size exactly, provided that
\* the headers fit in it and the entry gives no payload of its own.
ImixFrameSize ==
    origin = "dsl" /\ pc = "tag" /\ snapshot = <<>> =>
        \A n \in DOMAIN source : \A i \in DOMAIN source[n].imix :
            LET e == source[n]
                s == profile[Len(Parse(SubSeq(source, 1, n - 1))) + i]
            IN  /\ Simple(e.layers) /\ e.payload = None
                /\ e.imix[i].size >= Larger(MinFrame, Offset(e.layers, Len(e.layers) + 1))
                => s.packet.len = e.imix[i].size

\* The header of the first layer of a kind, as the bytes it takes.
OutermostHeader(stack, kind) ==
    LET i == Min({j \in DOMAIN stack : stack[j].kind = kind})
    IN  Offset(stack, i) .. Offset(stack, i) + HeaderLen(stack[i]) - 1

WritesInHeader(ins, stack) ==
    ins.for.layer # "" /\ ins.for.at = None /\ stack[1].kind = "eth" =>
        ins.offset \in OutermostHeader(stack, ins.for.layer)

\* The length of every SRH fits its byte.
SegmentsFit(stack) == \A i \in DOMAIN stack : stack[i].kind = "srh" => stack[i].segs <= 127

\* An uploaded instruction that was written for a field of a layer writes inside
\* the outermost header of that layer, in tunnels too, behind up to 127 segments,
\* and in a packet that was exported and loaded again.
WritesWhereNamed ==
    \A p \in 1 .. Len(Ports) : \A s \in ToSet(wire[p]) :
        SegmentsFit(s.packet.layers) =>
            \A ins \in ToSet(s.vm) : WritesInHeader(ins, s.packet.layers)

\* The same behind any number of segments: an SRH is decoded "so the packet walker
\* can record the offsets of the layers that follow it (the field engine targets
\* them by name)".
WritesBehindSegments ==
    \A p \in 1 .. Len(Ports) : \A s \in ToSet(wire[p]) : \A ins \in ToSet(s.vm) :
        WritesInHeader(ins, s.packet.layers)

\* What a file loaded, exported from one port in either form, loaded and uploaded
\* again, is on every port the same: ids, names, references by id, groups, modes,
\* gaps, packets and instructions.
SnapshotFaithful ==
    pc = "done" /\ snapshot # <<>> /\ origin # "library" /\ cmd = "streams" =>
        \A p \in 1 .. Len(Ports) :
            wire[p] = [n \in DOMAIN snapshot |-> [snapshot[n].stream EXCEPT
                        !.name = snapshot[n].name, !.next = snapshot[n].next]]

=============================================================================
