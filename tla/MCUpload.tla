------------------------------ MODULE MCUpload ------------------------------
(* Upload on the two default ports, with captures of up to three packets,    *)
(* files of up to two entries and profiles of up to three streams.           *)
EXTENDS Upload

MCPorts == <<0, 1>>

-----------------------------------------------------------------------------
MCOptions ==
    {[ipg |-> i, minIpg |-> m, speedup |-> s] : i \in {0, 2}, m \in {0, 4}, s \in {0, 2}}

\* Timestamps of whole microseconds in any order, and some in between.
MCCaptures ==
    BoundedSeq([ts : {0, 2, 4, 8}, len : {64}, decodes : {TRUE}], 3)
    \cup BoundedSeq([ts : {0, 1, 3}, len : {64}, decodes : BOOLEAN], 2)

-----------------------------------------------------------------------------
L(kind) == [kind |-> kind, vxlan |-> FALSE, pinned |-> FALSE, segs |-> 0, ok |-> TRUE]
Plainly(kinds) == [i \in DOMAIN kinds |-> L(kinds[i])]
Tunnel == [L("udp") EXCEPT !.vxlan = TRUE, !.pinned = TRUE]

\* Without a tunnel, in VXLAN over either IP version, in SRv6, and stacks that
\* are broken at some point or do not start with Ethernet.
MCStacks ==
    {Plainly(<<"eth", "dot1q", "ip", "udp">>), Plainly(<<"eth", "ipv6", "tcp">>),
     <<L("eth"), L("ip"), Tunnel, L("vxlan"), L("eth"), L("ip"), L("udp")>>,
     <<L("eth"), L("ipv6"), [Tunnel EXCEPT !.pinned = FALSE], L("vxlan"), L("eth"), L("ip"), L("tcp")>>,
     <<L("eth"), L("ipv6"), [L("srh") EXCEPT !.segs = 2], L("ip"), L("udp")>>,
     <<L("eth"), L("ipv6"), [L("srh") EXCEPT !.segs = 127], L("tcp")>>,
     <<L("eth"), L("ipv6"), [L("srh") EXCEPT !.segs = 128], L("udp")>>,
     <<L("eth"), L("ipv6"), L("srh"), L("udp")>>,
     Plainly(<<"eth", "ip", "ip", "udp">>), Plainly(<<"eth", "udp">>),
     Plainly(<<"ip", "udp">>), Plainly(<<"eth", "icmp">>), <<>>,
     <<[L("eth") EXCEPT !.ok = FALSE], L("ip")>>}

Ref(layer, field) == [at |-> None, layer |-> layer, field |-> field]
MCRefs ==
    {Ref(layer, field) : layer \in Canonical \cup {"srh"}, field \in {"", "src", "sport", "chksum"}}
    \cup {[Ref("", "") EXCEPT !.at = 30], Ref("", "")}

MCPrograms ==
    {<<>>}
    \cup {<< [kind |-> kind, ref |-> ref, cks |-> Ref("", ""), base |-> 0] >> :
            kind \in {"write_flow_var", "flow_var", "bogus"}, ref \in MCRefs}
    \cup {<< [kind |-> "checksum_sweep", ref |-> Ref("udp", "sport"), cks |-> cks, base |-> base] >> :
            cks \in MCRefs, base \in {1, 2}}

AnEntry ==
    [name |-> <<>>, next |-> <<>>, mode |-> "", layers |-> Plainly(<<"eth", "ip", "udp">>),
     payload |-> None, decodes |-> TRUE, vm |-> <<>>, pg |-> None, self |-> TRUE, isg |-> 0,
     dir |-> None, imix |-> <<>>]

FewNames == {<<>>, <<"a">>, <<"a", "0">>}

MCFiles ==
    \* fields written in stacks of every kind
    {<<[AnEntry EXCEPT !.layers = stack, !.vm = vm]>> : stack \in MCStacks, vm \in MCPrograms}
    \* rows of every size over them
    \cup {<<[AnEntry EXCEPT !.layers = stack, !.payload = payload, !.mode = mode, !.imix = rows]>> :
            stack \in MCStacks, payload \in {None, 4}, mode \in {"", "bogus"},
            rows \in BoundedSeq([size : {60, 128, 590}, weight : {0, 3}, pg : {None}], 2)}
    \* two entries that name each other, of any direction, one of them with rows
    \cup BoundedSeq({[AnEntry EXCEPT !.name = name, !.next = next, !.dir = dir, !.decodes = decodes] :
            name \in FewNames, next \in FewNames, dir \in {None, 0, 1}, decodes \in BOOLEAN}, 2)
    \cup {<<[AnEntry EXCEPT !.name = <<"a">>, !.pg = pg, !.mode = mode, !.self = FALSE, !.isg = 3],
            [AnEntry EXCEPT !.name = name, !.next = next, !.imix = rows]>> :
            pg \in {None, 1}, mode \in {"single_burst", "multi_burst"}, name \in FewNames, next \in FewNames,
            rows \in BoundedSeq([size : {60}, weight : {3}, pg : {None, 1}], 2)}

-----------------------------------------------------------------------------
Frame == [layers |-> <<>>, len |-> 64]

\* Names inside, outside or on both sides, and a mode the client does not know.
MCSnapshots ==
    BoundedSeq({[name |-> outer, next |-> next,
                 stream |-> [id |-> 0, name |-> inner, next |-> NoName, nextId |-> -1, pg |-> pg,
                             dummy |-> FALSE, self |-> TRUE, isg |-> 0, mode |-> mode,
                             packet |-> Frame, vm |-> <<>>]] :
                outer \in FewNames, next \in {<<>>, <<"a">>}, inner \in {<<>>, <<"a">>},
                pg \in {None, 1}, mode \in {"single_burst", "bogus"}}, 2)

-----------------------------------------------------------------------------
\* Names and references, forced ids and directions, with and without a packet.
Linked ==
    {[ZeroStream EXCEPT !.name = name, !.next = next, !.id = id, !.dir = dir, !.packet = packet] :
        name \in {<<>>, <<"a">>}, next \in {<<>>, <<"a">>}, id \in {None, 0, 1},
        dir \in {None, 1}, packet \in {Frame}}

\* Groups, dummies and missing packets.
Tagged ==
    {[ZeroStream EXCEPT !.dir = dir, !.pg = pg, !.dummy = dummy, !.packet = packet] :
        dir \in {None, 1}, pg \in {None, 0, 1}, dummy \in BOOLEAN, packet \in {Frame, NoPacket}}

MCProfiles == BoundedSeq(Linked, 3) \cup BoundedSeq(Tagged, 2)
=============================================================================
