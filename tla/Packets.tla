------------------------------- MODULE Packets -------------------------------
(***************************************************************************)
(* Packets: the layer lists of pkg/stl/dsl/layers.go, srh.go and packet.go *)
(* become frames, whose layers pkg/stl/packet.go finds again to resolve    *)
(* the field references of the field engine (pkg/stl/dsl/vm.go).           *)
(*                                                                         *)
(* A layer is its kind and what decides how the next one is found: whether *)
(* a UDP header has the VXLAN port, whether its checksum is pinned, and    *)
(* the number of segments of an SRH; ok says that its fields have values   *)
(* buildLayer accepts.  A frame is its layers and its length.              *)
(***************************************************************************)
EXTENDS Lists

None == -1

Kinds    == {"eth", "dot1q", "ip", "ipv6", "udp", "tcp", "vxlan", "srh"}
Layer    == [kind : STRING, vxlan : BOOLEAN, pinned : BOOLEAN, segs : Nat, ok : BOOLEAN]
Larger(a, b) == IF a >= b THEN a ELSE b

-----------------------------------------------------------------------------
(* Building *)

\* The header that names its successor: the switches on the next layer of
\* buildEth, buildDot1Q, buildIPv4, buildIPv6 and buildSRH.  What follows UDP
\* is found by its port, and VXLAN always carries Ethernet.
Names(l, kind) ==
    CASE l.kind \in {"eth", "dot1q"} -> kind \in {"ip", "ipv6", "dot1q"}
      [] l.kind = "ip"    -> kind \in {"udp", "tcp"}
      [] l.kind = "ipv6"  -> kind \in {"udp", "tcp", "srh", "ip", "ipv6"}
      [] l.kind = "srh"   -> kind \in {"udp", "tcp", "ip", "ipv6"}
      [] l.kind = "udp"   -> kind = "vxlan" /\ l.vxlan
      [] l.kind = "vxlan" -> kind = "eth"
      [] OTHER            -> FALSE

\* The network layer that buildLayers wires to the checksum of layer i: the last
\* one before it, 0 if there is none.
NetworkLayer(stack, i) == Max({0} \cup {j \in 1 .. i - 1 : stack[j].kind \in {"ip", "ipv6"}})

\* buildSRH wants segments.
SegmentsGiven(l) == l.kind = "srh" => l.segs > 0

\* buildLayer wants a known kind with good fields.
LayerBuilds(l) == l.kind \in Kinds /\ l.ok /\ SegmentsGiven(l)

\* buildPacket wants layers; gopacket computes no transport checksum without a
\* network layer.
Buildable(stack) ==
    /\ stack # <<>>
    /\ \A i \in DOMAIN stack :
        /\ LayerBuilds(stack[i])
        /\ stack[i].kind = "tcp" \/ (stack[i].kind = "udp" /\ ~stack[i].pinned)
             => NetworkLayer(stack, i) # 0

\* The bytes of a header; srh.SerializeTo writes its own.
HeaderLen(l) ==
    CASE l.kind = "eth" -> 14 [] l.kind = "dot1q" -> 4 [] l.kind = "ip" -> 20
      [] l.kind = "ipv6" -> 40 [] l.kind = "udp" -> 8 [] l.kind = "tcp" -> 20
      [] l.kind = "vxlan" -> 8 [] l.kind = "srh" -> 8 + 16 * l.segs

MinFrame == 60

\* The bytes gopacket makes of the layers, from the innermost out: an Ethernet
\* layer pads what it holds.
SerializedLen(stack, payload) ==
    LET layer(n) == stack[Len(stack) + 1 - n]
        len[n \in 0 .. Len(stack)] ==
            IF n = 0 THEN payload
            ELSE IF layer(n).kind = "eth" THEN Larger(MinFrame, len[n - 1] + 14)
            ELSE len[n - 1] + HeaderLen(layer(n))
    IN  len[Len(stack)]

\* Bytes before layer i.
Offset(stack, i) == Total([j \in 1 .. i - 1 |-> HeaderLen(stack[j])])

-----------------------------------------------------------------------------
(* Finding the layers again *)

\* The bytes a header is taken to have.  SerializeTo writes the length of an SRH
\* into one byte, in units of 8, and decodeSRH goes by it: from 128 segments on
\* what follows is looked for among the segments.
DecodedLen(l) == IF l.kind = "srh" THEN 8 * (1 + ((2 * l.segs) % 256)) ELSE HeaderLen(l)
CutShort(l)   == DecodedLen(l) < HeaderLen(l)

\* Bytes taken to be before layer i.
DecodedOffset(stack, i) == Total([j \in 1 .. i - 1 |-> DecodedLen(stack[j])])

\* gopacket starts with Ethernet and goes on as long as a header names the next;
\* decodeSRH takes it past the segments it counts.  The bytes of a segment pass
\* for the header that is named and for one that names none itself; those that a
\* decoder would refuse are left out.
Decoded(stack) ==
    IF stack[1].kind # "eth" THEN 0
    ELSE Max({n \in DOMAIN stack : \A i \in 1 .. n - 1 :
                /\ Names(stack[i], stack[i + 1].kind)
                /\ i > 1 => ~CutShort(stack[i - 1])})

\* canonicalLayerName: the kinds a reference may name.
Canonical == {"eth", "dot1q", "ip", "ipv6", "udp", "tcp"}

decodeLayerStartsLast(stack) ==
    LET seen(kind) == {i \in 1 .. Decoded(stack) : stack[i].kind = kind}
    IN  [kind \in {"eth"} \cup {c \in Canonical : seen(c) # {}} |->
            IF seen(kind) = {} THEN 0 ELSE DecodedOffset(stack, Max(seen(kind)))]

\* decodeLayerStarts: the first layer of a kind counts.  Whatever the frame
\* starts with is taken for an Ethernet header.
decodeLayerStarts(stack) ==
    LET seen(kind) == {i \in 1 .. Decoded(stack) : stack[i].kind = kind}
    IN  [kind \in {"eth"} \cup {c \in Canonical : seen(c) # {}} |->
            IF seen(kind) = {} THEN 0 ELSE DecodedOffset(stack, Min(seen(kind)))]

fieldOffsets ==
    [eth   |-> [dst |-> 0, src |-> 6, type |-> 12],
     dot1q |-> [vlan |-> 0, type |-> 2],
     ip    |-> [tos |-> 1, len |-> 2, id |-> 4, flags |-> 6, frag |-> 6, ttl |-> 8,
                proto |-> 9, chksum |-> 10, src |-> 12, dst |-> 16],
     ipv6  |-> [src |-> 8, dst |-> 24],
     udp   |-> [sport |-> 0, dport |-> 2, len |-> 4, chksum |-> 6],
     tcp   |-> [sport |-> 0, dport |-> 2, seq |-> 4, ack |-> 8, flags |-> 13,
                window |-> 14, chksum |-> 16, urgptr |-> 18]]

\* A reference is a byte, or it names a layer and one of its fields ("" for the
\* layer itself).
Reference == [at : Nat \cup {None}, layer : STRING, field : STRING]

\* resolveOffset and ResolveOffset: None if there is no such layer or field, or
\* if nothing is given.
ResolveOffset(stack, ref) ==
    LET starts == decodeLayerStarts(stack)
    IN  IF ref.at # None THEN ref.at
        ELSE IF ref.layer \notin DOMAIN starts THEN None
        ELSE IF ref.field = "" THEN starts[ref.layer]
        ELSE IF ref.field \notin DOMAIN fieldOffsets[ref.layer] THEN None
        ELSE starts[ref.layer] + fieldOffsets[ref.layer][ref.field]

-----------------------------------------------------------------------------
(* The field engine *)

\* Instructions that name an offset, and those that name none.  A sweep names a
\* second one, where the built packet holds a checksum.
Writers == {"write_flow_var", "write_mask_flow_var", "fix_checksum_ipv4"}
Others  == {"flow_var", "flow_var_rand_limit", "tuple_flow_var", "trim_pkt_size",
            "fix_checksum_hw", "fix_checksum_icmpv6"}

Instruction == [kind : STRING, ref : Reference, cks : Reference, base : Nat]

\* buildVM fails on an unknown instruction, on a reference to nothing, and on a
\* sweep of a checksum past the frame's end or too small to count down from.
VMBuildable(vm, stack, len) ==
    \A i \in DOMAIN vm :
        \/ vm[i].kind \in Others
        \/ vm[i].kind \in Writers /\ ResolveOffset(stack, vm[i].ref) # None
        \/ /\ vm[i].kind = "checksum_sweep"
           /\ ResolveOffset(stack, vm[i].ref) # None
           /\ ResolveOffset(stack, vm[i].cks) # None
           /\ ResolveOffset(stack, vm[i].cks) + 2 <= len
           /\ vm[i].base >= 2

\* buildInstruction: the instruction as it is sent, with its byte offset; for is
\* the reference it was made from.  buildChecksumSweep makes four.
NoReference == [at |-> None, layer |-> "", field |-> ""]
SentInstruction == [kind : STRING, offset : Nat \cup {None}, for : Reference]

Sent(kind, stack, ref) == [kind |-> kind, offset |-> ResolveOffset(stack, ref), for |-> ref]
Plain(kind) == [kind |-> kind, offset |-> None, for |-> NoReference]

buildInstruction(ins, stack) ==
    CASE ins.kind \in Writers -> << Sent(ins.kind, stack, ins.ref) >>
      [] ins.kind \in Others  -> << Plain(ins.kind) >>
      [] ins.kind = "checksum_sweep" ->
            << Plain("flow_var"), Sent("write_flow_var", stack, ins.ref),
               Plain("flow_var"), Sent("write_flow_var", stack, ins.cks) >>

buildVM(vm, stack) == FlattenSeq([i \in DOMAIN vm |-> buildInstruction(vm[i], stack)])

=============================================================================
