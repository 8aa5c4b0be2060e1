--------------------------- MODULE CliPortsProofs ----------------------------
(***************************************************************************)
(* TLAPS proofs about the traffic commands, for any ports, profiles, port  *)
(* lists (one that names a port twice included) and number of commands and *)
(* processes.                                                              *)
(***************************************************************************)
EXTENDS CliPorts, TLAPS

Handles  == [id : Ports, handler : Nat]
LoadCmds == [name : {"streams", "ndr"}, profile : Profiles, force : BOOLEAN]
Loading  == {"remove", "add"}

ServerType ==
    /\ owner \in [Ports -> {"none", "us", "gone", "other"}]
    /\ handler \in [Ports -> Nat] /\ active \in [Ports -> BOOLEAN]
    /\ streams = [p \in Ports |-> streams[p]]

ClientType ==
    /\ pc \in {"ready", "release", "exited", "killed"} \cup Busy
    /\ held \in Seq(Handles) /\ acquired \in Seq(Handles)
    /\ \A h \in Elems(held) \cup Elems(acquired) : h.handler <= handler[h.id]
    /\ pc = "acquire" => /\ todo \in Seq(Ports)
                         /\ cmd \in LoadCmds \/ (cmd.name = "stop" /\ cmd.force \in BOOLEAN)
    /\ pc # "acquire" => todo \in Seq(Handles)
    /\ pc \in Busy => todo # <<>>
    /\ pc \in Loading \cup Measuring => cmd \in LoadCmds /\ held # <<>>
    /\ pc = "find" => todo = held
    /\ cmds \in Nat /\ runs \in 0 .. MaxRuns /\ procs \in 0 .. MaxProcs

\* Whatever another session owns it has touched since the command began.
OtherMarked == \A p \in Ports : owner[p] = "other" => p \in touched

Exact(p) == streams[p] = StreamsFor[cmd.profile][p]

\* loadPort's progress.  A port that is behind is loaded exactly; a handle that
\* is behind has been accepted, so it is the port's current one; and the port
\* whose streams are being added was emptied.  From then on a search can neither
\* lose a stream nor a handle of a port nobody else took.
LoadInv ==
    /\ pc \in Loading => \A h \in Untouched : /\ h.id \in Ids(todo) \/ Exact(h.id)
                                              /\ h \in Elems(todo) \/ Valid(h)
    /\ pc = "add" /\ Head(todo).id \notin touched =>
          streams[Head(todo).id] = {} /\ Valid(Head(todo))
    /\ pc \in Measuring => \A h \in Untouched : Exact(h.id) /\ Valid(h)

\* The progress of the stop command and of the four stopAll loops.
StopInv ==
    /\ pc \in {"stop", "settle", "unwind", "finish", "abort"} =>
          \A h \in Untouched : h \in Elems(todo) \/ ~active[h.id]
    /\ pc \in {"baseline", "drain", "verdict", "failed"} =>
          \A h \in Untouched : ~active[h.id]

\* The inductive invariant.
IInv ==
    /\ ServerType /\ ClientType /\ OtherMarked
    /\ LoadInv /\ StopInv /\ LoadedExactly /\ StoppedMeansIdle

-----------------------------------------------------------------------------
(* Sequences of ports and of handles *)

\* A non-empty sequence is its head and its tail.
LEMMA ElemsTail ==
    ASSUME NEW S, NEW s \in Seq(S), s # <<>>
    PROVE  /\ Head(s) \in S /\ Tail(s) \in Seq(S) /\ Head(s) \in Elems(s)
           /\ Elems(s) = {Head(s)} \cup Elems(Tail(s))
           /\ Ids(s) = {Head(s).id} \cup Ids(Tail(s))
           /\ Len(s) > 1 => Tail(s) # <<>>
           /\ ~(Len(s) > 1) => Elems(s) = {Head(s)} /\ Ids(s) = {Head(s).id}
<1>1. /\ Head(s) \in S /\ Tail(s) \in Seq(S) /\ Head(s) = s[1]
      /\ Len(s) \in Nat /\ Len(s) >= 1 /\ Len(Tail(s)) = Len(s) - 1
      /\ \A k \in 1 .. Len(Tail(s)) : Tail(s)[k] = s[k + 1]
  OBVIOUS
<1>2. \A k \in 1 .. Len(s) : k = 1 \/ (k - 1 \in 1 .. Len(Tail(s)) /\ s[k] = Tail(s)[k - 1])
  BY <1>1
<1>3. \A k \in 1 .. Len(Tail(s)) : k + 1 \in 1 .. Len(s) /\ Tail(s)[k] = s[k + 1]
  BY <1>1
<1>4. Elems(s) = {Head(s)} \cup Elems(Tail(s))
  <2>1. ASSUME NEW x \in Elems(s) PROVE x \in {Head(s)} \cup Elems(Tail(s))
    <3>1. PICK j \in 1 .. Len(s) : x = s[j] BY <2>1 DEF Elems
    <3>2. CASE j = 1 BY <1>1, <3>1, <3>2
    <3>3. CASE j # 1
      <4>1. j - 1 \in 1 .. Len(Tail(s)) /\ x = Tail(s)[j - 1]
        BY <1>2, <3>1, <3>3
      <4> QED BY <4>1 DEF Elems
    <3> QED BY <3>2, <3>3
  <2>2. ASSUME NEW x \in {Head(s)} \cup Elems(Tail(s)) PROVE x \in Elems(s)
    BY <1>1, <1>3, <2>2 DEF Elems
  <2> QED BY <2>1, <2>2
<1>5. Ids(s) = {Head(s).id} \cup Ids(Tail(s))
  <2>1. ASSUME NEW x \in Ids(s) PROVE x \in {Head(s).id} \cup Ids(Tail(s))
    <3>1. PICK j \in 1 .. Len(s) : x = s[j].id BY <2>1 DEF Ids
    <3>2. CASE j = 1 BY <1>1, <3>1, <3>2
    <3>3. CASE j # 1
      <4>1. j - 1 \in 1 .. Len(Tail(s)) /\ x = Tail(s)[j - 1].id
        BY <1>2, <3>1, <3>3
      <4> QED BY <4>1 DEF Ids
    <3> QED BY <3>2, <3>3
  <2>2. ASSUME NEW x \in {Head(s).id} \cup Ids(Tail(s)) PROVE x \in Ids(s)
    BY <1>1, <1>3, <2>2 DEF Ids
  <2> QED BY <2>1, <2>2
<1>6. Len(s) > 1 => Tail(s) # <<>>
  <2>0. Len(<<>>) = 0 OBVIOUS
  <2>1. Tail(s) = <<>> => Len(Tail(s)) = 0 BY <2>0, Zenon
  <2> QED BY <1>1, <2>1
<1>7. ~(Len(s) > 1) => Elems(Tail(s)) = {} /\ Ids(Tail(s)) = {}
  <2>1. ~(Len(s) > 1) => 1 .. Len(Tail(s)) = {}
    BY <1>1
  <2> QED BY <2>1 DEF Elems, Ids
<1> QED BY <1>1, <1>4, <1>5, <1>6, <1>7

\* The port of an element, and the elements of no sequence at all.
LEMMA IdsOf ==
    /\ \A s : \A h \in Elems(s) : h.id \in Ids(s)
    /\ Elems(<<>>) = {} /\ Ids(<<>>) = {}
BY DEF Elems, Ids

\* The elements of a sequence have its type.
LEMMA ElemsType ==
    ASSUME NEW S, NEW s \in Seq(S)
    PROVE  /\ \A h \in Elems(s) : h \in S
           /\ s # <<>> => Elems(s) # {}
<1>1. s # <<>> => 1 \in 1 .. Len(s) OBVIOUS
<1> QED BY <1>1 DEF Elems

\* Appending a handle.
LEMMA ElemsAppend ==
    ASSUME NEW S, NEW s \in Seq(S), NEW x \in S
    PROVE  /\ Append(s, x) \in Seq(S) /\ Append(s, x) # <<>>
           /\ Elems(Append(s, x)) = Elems(s) \cup {x}
<1>1. /\ Append(s, x) \in Seq(S)
      /\ Len(s) \in Nat /\ Len(Append(s, x)) = Len(s) + 1
      /\ Append(s, x)[Len(s) + 1] = x
      /\ \A k \in 1 .. Len(s) : Append(s, x)[k] = s[k]
  OBVIOUS
<1>2. Append(s, x) # <<>> BY <1>1
<1>3. ASSUME NEW y \in Elems(Append(s, x)) PROVE y \in Elems(s) \cup {x}
  BY <1>1, <1>3 DEF Elems
<1>4. ASSUME NEW y \in Elems(s) \cup {x} PROVE y \in Elems(Append(s, x))
  BY <1>1, <1>4 DEF Elems
<1> QED BY <1>1, <1>2, <1>3, <1>4

-----------------------------------------------------------------------------
(* Steps in general *)

\* The handles of the context and of the work list name ports.
LEMMA HandleIds ==
    ASSUME IInv
    PROVE  /\ \A h \in Elems(held) : h \in Handles /\ h.id \in Ports
           /\ \A h \in Untouched : h \in Elems(held) /\ h.id \in Ports /\ h.id \notin touched
           /\ pc \in Busy \ {"acquire"} =>
                 /\ Head(todo) \in Handles /\ Head(todo).id \in Ports
                 /\ \A h \in Elems(todo) : h \in Handles /\ h.id \in Ports
<1>1. held \in Seq(Handles) /\ (pc \in Busy \ {"acquire"} => todo \in Seq(Handles) /\ todo # <<>>)
  BY DEF IInv, ClientType
<1>2. \A h \in Handles : h.id \in Ports
  BY DEF Handles
<1>3. \A h \in Elems(held) : h \in Handles
  BY <1>1, ElemsType
<1>4. pc \in Busy \ {"acquire"} => Head(todo) \in Handles /\ \A h \in Elems(todo) : h \in Handles
  BY <1>1, ElemsType, ElemsTail
<1> QED BY <1>2, <1>3, <1>4 DEF Untouched

\* The server and the other session may change what they like about a port that
\* is touched, and only end the traffic of the others.
LEMMA WorldInv ==
    ASSUME IInv, UNCHANGED client, ServerType', OtherMarked',
           handler' = handler, touched \subseteq touched',
           \A q \in Ports : q \notin touched' =>
               owner'[q] = owner[q] /\ streams'[q] = streams[q] /\ (active'[q] => active[q])
    PROVE  IInv'
<1>0. UNCHANGED <<held, pc, cmd, todo, acquired, status, cmds, runs, procs>>
  BY DEF client, count
<1>1. ClientType'
  BY <1>0 DEF IInv, ClientType
<1>2. \A h \in Untouched' :
         /\ h \in Untouched /\ (Exact(h.id) => Exact(h.id)') /\ (Valid(h) => Valid(h)')
         /\ streams'[h.id] = streams[h.id] /\ (active'[h.id] => active[h.id])
  BY <1>0, HandleIds DEF Untouched, Exact, Valid
<1>3. LoadInv'
  <2>1. (pc \in Loading => \A h \in Untouched : /\ h.id \in Ids(todo) \/ Exact(h.id)
                                                /\ h \in Elems(todo) \/ Valid(h))'
    BY <1>0, <1>2 DEF IInv, LoadInv
  <2>2. (pc \in Measuring => \A h \in Untouched : Exact(h.id) /\ Valid(h))'
    BY <1>0, <1>2 DEF IInv, LoadInv
  <2>3. (pc = "add" /\ Head(todo).id \notin touched =>
          streams[Head(todo).id] = {} /\ Valid(Head(todo)))'
    <3>1. pc = "add" => Head(todo).id \in Ports
      BY HandleIds DEF Busy
    <3> QED BY <1>0, <3>1 DEF IInv, LoadInv, Valid
  <2> QED BY <2>1, <2>2, <2>3 DEF LoadInv
<1>4. StopInv'
  BY <1>0, <1>2 DEF IInv, StopInv
<1>5. LoadedExactly'
  BY <1>0, <1>2 DEF IInv, LoadedExactly
<1>6. StoppedMeansIdle'
  BY <1>0, <1>2 DEF IInv, StoppedMeansIdle
<1> QED BY <1>1, <1>3, <1>4, <1>5, <1>6 DEF IInv

\* A command that returns leaves nothing to do; what its message claims is what
\* has to be shown.
LEMMA ReturnInv ==
    ASSUME IInv, NEW s, Return(s), ServerType', OtherMarked', held' = held, handler' = handler,
           s = "loaded" => /\ cmd \in LoadCmds
                           /\ \A h \in Untouched : streams'[h.id] = StreamsFor[cmd.profile][h.id],
           s \in {"stopped", "measured"} => \A h \in Untouched : ~active'[h.id]
    PROVE  IInv'
<1>1. /\ pc' = "ready" /\ status' = s /\ todo' = <<>> /\ acquired' = <<>> /\ runs' = 0
      /\ cmd' = IF s = "loaded" THEN [cmd EXCEPT !.force = FALSE] ELSE NoCmd
      /\ UNCHANGED <<cmds, procs, touched>>
  BY DEF Return
<1>2. Untouched' = Untouched /\ Elems(acquired') = {}
  BY <1>1, IdsOf DEF Untouched
<1>3. ClientType'
  BY <1>1, <1>2, CliAssumption DEF IInv, ClientType, Busy, Measuring, Loading
<1>4. LoadInv' /\ StopInv'
  BY <1>1 DEF LoadInv, StopInv, Loading, Measuring
<1>5. s = "loaded" => cmd'.profile = cmd.profile
  BY <1>1 DEF LoadCmds
<1>6. LoadedExactly'
  BY <1>1, <1>2, <1>5 DEF LoadedExactly
<1>7. StoppedMeansIdle'
  BY <1>1, <1>2 DEF StoppedMeansIdle
<1> QED BY <1>3, <1>4, <1>6, <1>7 DEF IInv

\* A command that goes on to label l with the ports of rest: the progress of the
\* loop it is in is what has to be shown.
LEMMA GotoInv ==
    ASSUME IInv, NEW l \in Busy \ {"acquire"}, NEW rest \in Seq(Handles), rest # <<>>,
           Goto(l, rest), ServerType', OtherMarked', handler' = handler,
           UNCHANGED <<held, acquired>>,
           l \in Loading \cup Measuring => cmd \in LoadCmds /\ held # <<>>,
           l = "find" => rest = held,
           LoadInv', StopInv'
    PROVE  IInv'
<1>1. /\ pc' = l /\ todo' = rest /\ UNCHANGED <<cmd, status, cmds, runs, procs, touched>>
      /\ pc' # "ready"
  BY DEF Goto, count, Busy, Measuring
<1>2. ClientType'
  BY <1>1 DEF IInv, ClientType
<1>3. LoadedExactly' /\ StoppedMeansIdle'
  BY <1>1 DEF LoadedExactly, StoppedMeansIdle
<1> QED BY <1>2, <1>3 DEF IInv

-----------------------------------------------------------------------------
(* The commands *)

\* The first process finds free, idle and empty ports.
THEOREM InitInv == Init => IInv
<1> SUFFICES ASSUME Init PROVE IInv OBVIOUS
<1>1. active \in [Ports -> BOOLEAN]
  BY Zenon DEF Init
<1>2. ServerType
  BY <1>1 DEF Init, ServerType
<1>3. ClientType
  BY <1>1, IdsOf, CliAssumption DEF Init, ClientType, Busy, Measuring, Loading
<1>4. OtherMarked
  BY DEF Init, OtherMarked
<1>5. LoadInv /\ StopInv /\ LoadedExactly /\ StoppedMeansIdle
  BY DEF Init, LoadInv, StopInv, LoadedExactly, StoppedMeansIdle, Loading, Measuring
<1> QED BY <1>2, <1>3, <1>4, <1>5 DEF IInv

\* A command begins by acquiring ports, or by a call on the ports it holds.
LEMMA BeginInv ==
    ASSUME IInv, NEW c, NEW l, NEW rest, rest # <<>>, Begin(c, l, rest),
           \/ l = "acquire" /\ rest \in Seq(Ports)
              /\ (c \in LoadCmds \/ (c.name = "stop" /\ c.force \in BOOLEAN))
           \/ l \in {"start", "stop"} /\ rest = held
    PROVE  IInv'
<1>1. /\ cmds' = cmds + 1 /\ cmd' = c /\ pc' = l /\ todo' = rest /\ status' = "running"
      /\ touched' = {p \in Ports : owner[p] = "other"}
      /\ UNCHANGED <<owner, handler, active, streams, held, acquired, runs, procs>>
  BY DEF Begin, server
<1>2. ServerType' /\ OtherMarked'
  BY <1>1 DEF IInv, ServerType, OtherMarked
<1>3. ClientType'
  BY <1>1 DEF IInv, ClientType, Busy, Measuring, Loading
<1>4. LoadInv' /\ LoadedExactly' /\ StoppedMeansIdle'
  BY <1>1 DEF LoadInv, LoadedExactly, StoppedMeansIdle, Loading, Measuring
<1>5. StopInv'
  <2>1. l = "stop" => \A h \in Untouched' : h \in Elems(todo')
    BY <1>1 DEF Untouched
  <2> QED BY <1>1, <2>1 DEF StopInv
<1> QED BY <1>2, <1>3, <1>4, <1>5 DEF IInv

\* The four traffic commands are such beginnings.
LEMMA CommandInv == ASSUME IInv, Command PROVE IInv'
<1>1. CASE StreamsCmd \/ NDRCmd
  <2>1. PICK prof \in Profiles, ids \in PortLists, force \in BOOLEAN, n \in {"streams", "ndr"} :
           Begin([name |-> n, profile |-> prof, force |-> force], "acquire", ids)
    BY <1>1 DEF StreamsCmd, NDRCmd
  <2>2. [name |-> n, profile |-> prof, force |-> force] \in LoadCmds
    BY Zenon DEF LoadCmds
  <2>3. ids \in Seq(Ports) /\ ids # <<>>
    BY CliAssumption
  <2> QED BY <2>1, <2>2, <2>3, BeginInv
<1>2. CASE StartCmd
  BY <1>2, BeginInv DEF StartCmd
<1>3. CASE StopCmd
  <2>1. CASE held # <<>> /\ Begin([name |-> "stop", force |-> FALSE], "stop", held)
    BY <2>1, BeginInv
  <2>2. CASE /\ held = <<>>
             /\ \E ids \in PortLists, force \in BOOLEAN :
                   Begin([name |-> "stop", force |-> force], "acquire", ids)
    <3>1. PICK ids \in PortLists, force \in BOOLEAN :
             Begin([name |-> "stop", force |-> force], "acquire", ids)
      BY <2>2
    <3>2. /\ [name |-> "stop", force |-> force].name = "stop"
          /\ [name |-> "stop", force |-> force].force \in BOOLEAN
      BY Zenon
    <3>3. ids \in Seq(Ports) /\ ids # <<>>
      BY CliAssumption
    <3> QED BY <3>1, <3>2, <3>3, BeginInv
  <2> QED BY <1>3, <2>1, <2>2 DEF StopCmd
<1> QED BY <1>1, <1>2, <1>3 DEF Command

\* acquirePorts: a grant issues a new handle, which invalidates the old one; the
\* last grant replaces the context's ports.
LEMMA AcquireInv == ASSUME IInv, acquirePorts PROVE IInv'
<1> DEFINE p == Head(todo)
           h == Handle(p, handler'[p])
<1>1. pc = "acquire" /\ UNCHANGED <<active, streams>>
  BY DEF acquirePorts
<1>2. /\ todo \in Seq(Ports) /\ todo # <<>> /\ p \in Ports /\ Tail(todo) \in Seq(Ports)
      /\ Len(todo) > 1 => Tail(todo) # <<>>
      /\ cmd \in LoadCmds \/ cmd.name = "stop"
  BY <1>1, ElemsTail DEF IInv, ClientType, Busy
<1>3. CASE ~Grants(p, cmd.force) /\ Return("error") /\ UNCHANGED <<owner, handler, held>>
  <2>1. ServerType' /\ OtherMarked'
    BY <1>1, <1>3 DEF IInv, ServerType, OtherMarked, Return
  <2> QED BY <1>3, <2>1, ReturnInv
<1>4. CASE /\ Grants(p, cmd.force)
           /\ owner' = [owner EXCEPT ![p] = "us"]
           /\ handler' = [handler EXCEPT ![p] = handler[p] + 1]
           /\ IF Len(todo) > 1
              THEN /\ acquired' = Append(acquired, h)
                   /\ Goto("acquire", Tail(todo)) /\ UNCHANGED held
              ELSE /\ held' = Append(acquired, h)
                   /\ acquired' = <<>>
                   /\ Goto(IF cmd.name = "stop" THEN "stop" ELSE "remove", held')
  <2>1. /\ handler' \in [Ports -> Nat] /\ handler'[p] \in Nat
        /\ \A q \in Ports : handler'[q] >= handler[q]
        /\ owner' \in [Ports -> {"none", "us", "gone", "other"}]
        /\ \A q \in Ports : owner'[q] = "other" => owner[q] = "other"
    BY <1>2, <1>4 DEF IInv, ServerType
  <2>2. ServerType'
    BY <1>1, <2>1 DEF IInv, ServerType
  <2>3. UNCHANGED <<cmd, status, cmds, runs, procs, touched>>
    BY <1>4 DEF Goto, count
  <2>4. OtherMarked'
    BY <2>1, <2>3 DEF IInv, OtherMarked
  <2>5. h \in Handles /\ h.id = p /\ h.handler = handler'[p]
    BY <1>2, <2>1 DEF Handle, Handles
  <2>6. /\ Append(acquired, h) \in Seq(Handles) /\ Append(acquired, h) # <<>>
        /\ Elems(Append(acquired, h)) = Elems(acquired) \cup {h}
    BY <2>5, ElemsAppend DEF IInv, ClientType
  <2>7. \A g \in Elems(held) \cup Elems(acquired) \cup {h} : g.handler <= handler'[g.id]
    <3>1. \A g \in Elems(held) \cup Elems(acquired) :
             g \in Handles /\ g.id \in Ports /\ g.handler \in Nat
      <4>1. \A g \in Elems(held) \cup Elems(acquired) : g \in Handles
        BY ElemsType DEF IInv, ClientType
      <4> QED BY <4>1 DEF Handles
    <3>2. \A g \in Elems(held) \cup Elems(acquired) : g.handler <= handler'[g.id]
      BY <2>1, <3>1 DEF IInv, ClientType, ServerType
    <3> QED BY <2>1, <2>5, <3>2
  <2>8. CASE Len(todo) > 1
    <3>1. /\ pc' = "acquire" /\ todo' = Tail(todo) /\ acquired' = Append(acquired, h)
          /\ held' = held
      BY <1>4, <2>8 DEF Goto
    <3>2. ClientType'
      BY <1>1, <1>2, <2>3, <2>6, <2>7, <2>8, <3>1
      DEF IInv, ClientType, Busy, Measuring, Loading
    <3>3. LoadInv' /\ StopInv' /\ LoadedExactly' /\ StoppedMeansIdle'
      BY <3>1 DEF LoadInv, StopInv, LoadedExactly, StoppedMeansIdle, Loading, Measuring
    <3> QED BY <2>2, <2>4, <3>2, <3>3 DEF IInv
  <2>9. CASE ~(Len(todo) > 1)
    <3>1. /\ pc' = IF cmd.name = "stop" THEN "stop" ELSE "remove"
          /\ todo' = held' /\ acquired' = <<>> /\ held' = Append(acquired, h)
      BY <1>4, <2>9 DEF Goto
    <3>2. pc' \in {"stop", "remove"} /\ (pc' = "remove" => cmd \in LoadCmds)
      BY <1>2, <3>1
    <3>3. ClientType'
      BY <1>2, <2>3, <2>6, <2>7, <3>1, <3>2, IdsOf
      DEF IInv, ClientType, Busy, Measuring, Loading
    <3>4. \A g \in Untouched' : g \in Elems(todo') /\ g.id \in Ids(todo')
      BY <3>1, IdsOf DEF Untouched
    <3>5. LoadInv'
      BY <3>2, <3>4 DEF LoadInv, Loading, Measuring
    <3>6. StopInv'
      BY <3>2, <3>4 DEF StopInv
    <3>7. LoadedExactly' /\ StoppedMeansIdle'
      BY <3>2 DEF LoadedExactly, StoppedMeansIdle
    <3> QED BY <2>2, <2>4, <3>3, <3>5, <3>6, <3>7 DEF IInv
  <2> QED BY <2>8, <2>9
<1> QED BY <1>3, <1>4 DEF acquirePorts

\* loadPort has returned for the first port of the list: the next one, the end
\* of the command, or the search, with that port and its handle in order.
LEMMA LoadedInv ==
    ASSUME IInv, pc \in Loading, Loaded, ServerType', UNCHANGED <<owner, handler, held>>,
           \A g \in Untouched :
               /\ g.id \in Ids(Tail(todo)) \/ streams'[g.id] = StreamsFor[cmd.profile][g.id]
               /\ g \in Elems(Tail(todo)) \/ Valid(g)
    PROVE  IInv'
<1>1. /\ todo \in Seq(Handles) /\ todo # <<>> /\ cmd \in LoadCmds /\ held # <<>>
      /\ held \in Seq(Handles)
  BY DEF IInv, ClientType, Busy, Loading
<1>2. /\ Tail(todo) \in Seq(Handles) /\ (Len(todo) > 1 => Tail(todo) # <<>>)
      /\ ~(Len(todo) > 1) => Elems(Tail(todo)) = {} /\ Ids(Tail(todo)) = {}
  <2>1. ~(Len(todo) > 1) => Tail(todo) = <<>>
    BY <1>1
  <2> QED BY <1>1, <2>1, ElemsTail, IdsOf
<1>3. Len(todo) \in Nat /\ Len(todo) >= 1 BY <1>1
<1>4. \A g \in Handles : Valid(g)' <=> Valid(g)
  BY DEF Valid
<1>5. ASSUME touched' = touched PROVE Untouched' = Untouched /\ OtherMarked'
  BY <1>5 DEF Untouched, IInv, OtherMarked
<1>6. CASE Len(todo) = 1 /\ cmd.name = "ndr"
  <2>1. Goto("find", held) /\ UNCHANGED acquired
    BY <1>6 DEF Loaded
  <2>2. pc' = "find" /\ todo' = held /\ cmd' = cmd /\ touched' = touched
    BY <2>1 DEF Goto
  <2>3. Untouched' = Untouched /\ OtherMarked'
    BY <1>5, <2>2
  <2>4. LoadInv'
    <3>1. \A g \in Untouched' : Exact(g.id)' /\ Valid(g)'
      BY <1>2, <1>4, <1>6, <2>2, <2>3, HandleIds DEF Exact
    <3> QED BY <2>2, <3>1 DEF LoadInv, Loading
  <2>5. StopInv' BY <2>2 DEF StopInv
  <2>6. "find" \in Busy \ {"acquire"} BY DEF Busy, Measuring
  <2> QED BY <1>1, <2>1, <2>3, <2>4, <2>5, <2>6, GotoInv
<1>7. CASE ~(Len(todo) = 1 /\ cmd.name = "ndr") /\ Len(todo) > 1
  <2>1. Goto("remove", Tail(todo)) /\ UNCHANGED acquired
    BY <1>7 DEF Loaded, Advance
  <2>2. pc' = "remove" /\ todo' = Tail(todo) /\ cmd' = cmd /\ touched' = touched
    BY <2>1 DEF Goto
  <2>3. Untouched' = Untouched /\ OtherMarked'
    BY <1>5, <2>2
  <2>4. LoadInv'
    <3>1. \A g \in Untouched' : /\ g.id \in Ids(todo') \/ Exact(g.id)'
                                /\ g \in Elems(todo') \/ Valid(g)'
      BY <1>4, <2>2, <2>3, HandleIds DEF Exact
    <3> QED BY <2>2, <3>1 DEF LoadInv, Measuring
  <2>5. StopInv' BY <2>2 DEF StopInv
  <2>6. "remove" \in Busy \ {"acquire"} BY DEF Busy, Measuring
  <2> QED BY <1>1, <1>2, <1>7, <2>1, <2>3, <2>4, <2>5, <2>6, GotoInv
<1>8. CASE ~(Len(todo) = 1 /\ cmd.name = "ndr") /\ ~(Len(todo) > 1)
  <2>1. Return("loaded")
    BY <1>8 DEF Loaded, Advance
  <2>2. touched' = touched BY <2>1 DEF Return
  <2> QED BY <1>1, <1>2, <1>5, <1>8, <2>1, <2>2, ReturnInv
<1> QED BY <1>6, <1>7, <1>8

\* RemoveAllStreams: an accepted call empties the port and shows that the handle
\* is its current one.
LEMMA RemoveInv == ASSUME IInv, RemoveAllStreams PROVE IInv'
<1> DEFINE h == Head(todo)
<1>1. pc = "remove" /\ UNCHANGED <<owner, handler, active, held>>
  BY DEF RemoveAllStreams
<1>2. /\ todo \in Seq(Handles) /\ todo # <<>> /\ cmd \in LoadCmds /\ held # <<>>
      /\ h \in Handles /\ h.id \in Ports
  BY <1>1, HandleIds DEF IInv, ClientType, Busy, Loading
<1>3. /\ Elems(todo) = {h} \cup Elems(Tail(todo))
      /\ Ids(todo) = {h.id} \cup Ids(Tail(todo))
  BY <1>2, ElemsTail
<1>4. CASE Return("error") /\ UNCHANGED streams
  <2>1. ServerType' /\ OtherMarked'
    BY <1>1, <1>4 DEF IInv, ServerType, OtherMarked, Return
  <2> QED BY <1>1, <1>4, <2>1, ReturnInv
<1>5. CASE /\ Valid(h) /\ ~active[h.id]
           /\ streams' = [streams EXCEPT ![h.id] = {}]
           /\ IF Wanted(h) = {} THEN Loaded ELSE Goto("add", todo) /\ UNCHANGED acquired
  <2>1. /\ streams'[h.id] = {} /\ \A q \in Ports : q # h.id => streams'[q] = streams[q]
        /\ streams' = [q \in Ports |-> streams'[q]]
    BY <1>2, <1>5 DEF IInv, ServerType
  <2>2. ServerType'
    BY <1>1, <2>1 DEF IInv, ServerType
  <2>3. \A g \in Untouched :
           /\ g.id \in Ids(todo) \/ (g.id # h.id /\ streams'[g.id] = StreamsFor[cmd.profile][g.id])
           /\ g \in Elems(todo) \/ Valid(g)
    BY <1>1, <1>3, <2>1, HandleIds DEF IInv, LoadInv, Loading, Exact
  <2>4. CASE Wanted(h) = {}
    <3>1. Loaded BY <1>5, <2>4
    <3>2. StreamsFor[cmd.profile][h.id] = {} BY <2>4 DEF Wanted
    <3>3. \A g \in Untouched :
             /\ g.id \in Ids(Tail(todo)) \/ streams'[g.id] = StreamsFor[cmd.profile][g.id]
             /\ g \in Elems(Tail(todo)) \/ Valid(g)
      BY <1>3, <1>5, <2>1, <2>3, <3>2
    <3> QED BY <1>1, <2>2, <3>1, <3>3, LoadedInv DEF Loading
  <2>5. CASE Wanted(h) # {}
    <3>1. Goto("add", todo) /\ UNCHANGED acquired BY <1>5, <2>5
    <3>2. pc' = "add" /\ todo' = todo /\ cmd' = cmd /\ touched' = touched
      BY <3>1 DEF Goto
    <3>3. Untouched' = Untouched /\ OtherMarked'
      BY <1>1, <3>2 DEF Untouched, IInv, OtherMarked
    <3>4. \A g \in Handles : Valid(g)' <=> Valid(g)
      BY <1>1 DEF Valid
    <3>5. LoadInv'
      <4>1. \A g \in Untouched' : /\ g.id \in Ids(todo') \/ Exact(g.id)'
                                  /\ g \in Elems(todo') \/ Valid(g)'
        BY <2>3, <3>2, <3>3, <3>4, HandleIds DEF Exact
      <4>2. streams'[Head(todo').id] = {} /\ Valid(Head(todo))'
        BY <1>1, <1>5, <2>1, <3>2 DEF Valid
      <4> QED BY <3>2, <4>1, <4>2 DEF LoadInv, Measuring
    <3>6. StopInv' BY <3>2 DEF StopInv
    <3>7. "add" \in Busy \ {"acquire"} BY DEF Busy, Measuring
    <3> QED BY <1>1, <1>2, <2>2, <3>1, <3>3, <3>5, <3>6, <3>7, GotoInv
  <2> QED BY <2>4, <2>5
<1> QED BY <1>4, <1>5 DEF RemoveAllStreams

\* AddStreams: the port had been emptied, so with every call accepted it has the
\* streams of the profile and no other.
LEMMA AddInv == ASSUME IInv, AddStreams PROVE IInv'
<1> DEFINE h == Head(todo)
<1>1. pc = "add" /\ UNCHANGED <<owner, handler, active, held>>
  BY DEF AddStreams
<1>2. /\ todo \in Seq(Handles) /\ todo # <<>> /\ cmd \in LoadCmds /\ held # <<>>
      /\ h \in Handles /\ h.id \in Ports
  BY <1>1, HandleIds DEF IInv, ClientType, Busy, Loading
<1>3. /\ Elems(todo) = {h} \cup Elems(Tail(todo))
      /\ Ids(todo) = {h.id} \cup Ids(Tail(todo))
  BY <1>2, ElemsTail
<1>4. PICK ok \in SUBSET Wanted(h) :
         /\ streams' = [streams EXCEPT ![h.id] = streams[h.id] \cup ok]
         /\ IF ok = Wanted(h) THEN Loaded ELSE Return("error")
  BY DEF AddStreams
<1>5. /\ streams'[h.id] = streams[h.id] \cup ok
      /\ \A q \in Ports : q # h.id => streams'[q] = streams[q]
      /\ streams' = [q \in Ports |-> streams'[q]]
  BY <1>2, <1>4 DEF IInv, ServerType
<1>6. ServerType'
  BY <1>1, <1>5 DEF IInv, ServerType
<1>7. CASE ok = Wanted(h)
  <2>1. Loaded BY <1>4, <1>7
  <2>2. h.id \notin touched => streams'[h.id] = StreamsFor[cmd.profile][h.id] /\ Valid(h)
    BY <1>1, <1>5, <1>7 DEF IInv, LoadInv, Wanted
  <2>3. \A g \in Untouched :
           /\ g.id \in Ids(Tail(todo)) \/ streams'[g.id] = StreamsFor[cmd.profile][g.id]
           /\ g \in Elems(Tail(todo)) \/ Valid(g)
    <3>1. \A g \in Untouched :
             /\ g.id \in Ids(todo) \/ streams[g.id] = StreamsFor[cmd.profile][g.id]
             /\ g \in Elems(todo) \/ Valid(g)
             /\ g.id \in Ports /\ g.id \notin touched
      BY <1>1, HandleIds DEF IInv, LoadInv, Loading, Exact
    <3>2. \A q \in Ports : q # h.id => streams'[q] = streams[q]
      BY <1>5
    <3> SUFFICES ASSUME NEW g \in Untouched
                 PROVE  /\ \/ g.id \in Ids(Tail(todo))
                           \/ streams'[g.id] = StreamsFor[cmd.profile][g.id]
                        /\ g \in Elems(Tail(todo)) \/ Valid(g)
      OBVIOUS
    <3>3. CASE g.id = h.id
      BY <1>3, <2>2, <3>1, <3>3
    <3>4. CASE g.id # h.id
      BY <1>3, <3>1, <3>2, <3>4
    <3> QED BY <3>3, <3>4
  <2> QED BY <1>1, <1>6, <2>1, <2>3, LoadedInv DEF Loading
<1>8. CASE ok # Wanted(h)
  <2>1. Return("error") BY <1>4, <1>8
  <2>2. OtherMarked' BY <1>1, <2>1 DEF IInv, OtherMarked, Return
  <2> QED BY <1>1, <1>6, <2>1, <2>2, ReturnInv
<1> QED BY <1>7, <1>8

\* The start command touches nothing but the traffic of the ports it holds.
LEMMA StartInv == ASSUME IInv, Start PROVE IInv'
<1> DEFINE h == Head(todo)
<1>1. pc = "start" /\ UNCHANGED <<owner, handler, streams, held>>
  BY DEF Start
<1>2. /\ todo \in Seq(Handles) /\ todo # <<>> /\ h.id \in Ports
  BY <1>1, HandleIds DEF IInv, ClientType, Busy
<1>3. ASSUME touched' = touched PROVE OtherMarked'
  BY <1>1, <1>3 DEF IInv, OtherMarked
<1>4. CASE Return("error") /\ UNCHANGED active
  <2>1. ServerType' /\ touched' = touched
    BY <1>1, <1>4 DEF IInv, ServerType, Return
  <2> QED BY <1>1, <1>3, <1>4, <2>1, ReturnInv
<1>5. CASE active' = [active EXCEPT ![h.id] = TRUE] /\ Advance("start", "started")
  <2>0. active \in [Ports -> BOOLEAN] BY DEF IInv, ServerType
  <2>1. active' \in [Ports -> BOOLEAN] BY <1>5, <2>0, Zenon
  <2>2. ServerType' BY <1>1, <2>1 DEF IInv, ServerType
  <2>3. CASE Len(todo) > 1
    <3>1. Goto("start", Tail(todo)) /\ UNCHANGED acquired BY <1>5, <2>3 DEF Advance
    <3>2. pc' = "start" /\ touched' = touched BY <3>1 DEF Goto
    <3>3. LoadInv' /\ StopInv' BY <3>2 DEF LoadInv, StopInv, Loading, Measuring
    <3>4. Tail(todo) \in Seq(Handles) /\ Tail(todo) # <<>> BY <1>2, <2>3, ElemsTail
    <3>5. "start" \in Busy \ {"acquire"} /\ "start" \notin Loading \cup Measuring
      BY DEF Busy, Loading, Measuring
    <3> QED BY <1>1, <1>3, <2>2, <3>1, <3>2, <3>3, <3>4, <3>5, GotoInv
  <2>4. CASE ~(Len(todo) > 1)
    <3>1. Return("started") BY <1>5, <2>4 DEF Advance
    <3>2. touched' = touched BY <3>1 DEF Return
    <3> QED BY <1>1, <1>3, <2>2, <3>1, <3>2, ReturnInv
  <2> QED BY <2>3, <2>4
<1> QED BY <1>4, <1>5 DEF Start

\* The stop command returns "stopped" only after an accepted stop of every port.
LEMMA StopCmdInv == ASSUME IInv, Stop PROVE IInv'
<1> DEFINE h == Head(todo)
<1>1. pc = "stop" /\ UNCHANGED <<owner, handler, streams, held>>
  BY DEF Stop
<1>2. /\ todo \in Seq(Handles) /\ todo # <<>> /\ h.id \in Ports
      /\ Elems(todo) = {h} \cup Elems(Tail(todo))
      /\ ~(Len(todo) > 1) => Elems(todo) = {h}
  BY <1>1, HandleIds, ElemsTail DEF IInv, ClientType, Busy
<1>3. ASSUME touched' = touched PROVE OtherMarked' /\ Untouched' = Untouched
  BY <1>1, <1>3 DEF IInv, OtherMarked, Untouched
<1>4. CASE Return("error") /\ UNCHANGED active
  <2>1. ServerType' /\ touched' = touched
    BY <1>1, <1>4 DEF IInv, ServerType, Return
  <2> QED BY <1>1, <1>3, <1>4, <2>1, ReturnInv
<1>5. CASE active' = [active EXCEPT ![h.id] = FALSE] /\ Advance("stop", "stopped")
  <2>0. active \in [Ports -> BOOLEAN] BY DEF IInv, ServerType
  <2>1. /\ active' \in [Ports -> BOOLEAN] /\ ~active'[h.id]
        /\ \A q \in Ports : q # h.id => active'[q] = active[q]
    BY <1>2, <1>5, <2>0, Zenon
  <2>2. ServerType' BY <1>1, <2>1 DEF IInv, ServerType
  <2>3. \A g \in Untouched : g = h \/ g \in Elems(Tail(todo)) \/ ~active'[g.id]
    BY <1>1, <1>2, <2>1, HandleIds DEF IInv, StopInv
  <2>4. CASE Len(todo) > 1
    <3>1. Goto("stop", Tail(todo)) /\ UNCHANGED acquired BY <1>5, <2>4 DEF Advance
    <3>2. pc' = "stop" /\ todo' = Tail(todo) /\ touched' = touched BY <3>1 DEF Goto
    <3>3. LoadInv' BY <3>2 DEF LoadInv, Loading, Measuring
    <3>4. StopInv'
      <4>1. \A g \in Untouched' : g \in Elems(todo') \/ ~active'[g.id]
        BY <1>3, <2>1, <2>3, <3>2
      <4> QED BY <3>2, <4>1 DEF StopInv
    <3>5. Tail(todo) \in Seq(Handles) /\ Tail(todo) # <<>> BY <1>2, <2>4, ElemsTail
    <3>6. "stop" \in Busy \ {"acquire"} /\ "stop" \notin Loading \cup Measuring
      BY DEF Busy, Loading, Measuring
    <3> QED BY <1>1, <1>3, <2>2, <3>1, <3>2, <3>3, <3>4, <3>5, <3>6, GotoInv
  <2>5. CASE ~(Len(todo) > 1)
    <3>1. Return("stopped") BY <1>5, <2>5 DEF Advance
    <3>2. touched' = touched BY <3>1 DEF Return
    <3>3. \A g \in Untouched : ~active'[g.id]
      BY <1>1, <1>2, <2>1, <2>5, HandleIds DEF IInv, StopInv
    <3> QED BY <1>1, <1>3, <2>2, <3>1, <3>2, <3>3, ReturnInv
  <2> QED BY <2>4, <2>5
<1> QED BY <1>4, <1>5 DEF Stop

-----------------------------------------------------------------------------
(* The search of the ndr command *)

\* Within a search the streams and the handles of the ports nobody took stay.
LEMMA SearchGoto ==
    ASSUME IInv, pc \in Measuring, NEW l \in Measuring \ {"find"},
           NEW rest \in Seq(Handles), rest # <<>>,
           Goto(l, rest), UNCHANGED <<owner, handler, streams, held, acquired>>,
           active' \in [Ports -> BOOLEAN], StopInv'
    PROVE  IInv'
<1>1. pc' = l /\ cmd' = cmd /\ touched' = touched
  BY DEF Goto
<1>2. OtherMarked' /\ ServerType'
  BY <1>1 DEF IInv, OtherMarked, ServerType
<1>3. LoadInv'
  <2>1. \A g \in Untouched' : Exact(g.id)' /\ Valid(g)'
    BY <1>1 DEF IInv, LoadInv, Untouched, Exact, Valid
  <2>2. l \notin Loading /\ l # "add" BY DEF Loading, Measuring
  <2> QED BY <1>1, <2>1, <2>2 DEF LoadInv
<1>4. cmd \in LoadCmds /\ held # <<>> BY DEF IInv, ClientType
<1>5. l \in Busy \ {"acquire"} BY DEF Busy, Measuring
<1> QED BY <1>2, <1>3, <1>4, <1>5, GotoInv

\* The steps between the loops of a search: with the list of ports renewed, the
\* loop they lead to has everything ahead of it.
LEMMA SearchStepInv == ASSUME IInv, Baseline \/ Hold \/ Drain PROVE IInv'
<1>1. /\ pc \in Measuring /\ UNCHANGED <<owner, handler, active, streams, held, acquired>>
      /\ \/ pc = "baseline" /\ (Goto("ramp", held) \/ Goto("failed", held))
         \/ pc = "hold" /\ (Goto("unwind", held) \/ Goto("abort", held))
         \/ pc = "drain" /\ (Goto("finish", held) \/ Goto("abort", held))
  BY DEF Baseline, Hold, Drain, server, Measuring
<1>2. held \in Seq(Handles) /\ held # <<>> /\ active' \in [Ports -> BOOLEAN]
  BY <1>1 DEF IInv, ClientType, ServerType
<1>3. /\ {"ramp", "failed", "unwind", "abort", "finish"} \subseteq Measuring \ {"find"}
  BY DEF Measuring
<1>4. ASSUME NEW l \in {"ramp", "unwind", "abort", "finish"}, Goto(l, held) PROVE IInv'
  <2>1. pc' = l /\ todo' = held BY <1>4 DEF Goto
  <2>2. \A g \in Untouched' : g \in Elems(todo')
    BY <1>1, <2>1 DEF Untouched
  <2>3. StopInv' BY <2>1, <2>2 DEF StopInv
  <2> QED BY <1>1, <1>2, <1>3, <1>4, <2>3, SearchGoto
<1>5. ASSUME pc = "baseline", Goto("failed", held) PROVE IInv'
  <2>1. pc' = "failed" /\ touched' = touched BY <1>5 DEF Goto
  <2>2. StopInv'
    BY <1>1, <1>5, <2>1 DEF IInv, StopInv, Untouched
  <2> QED BY <1>1, <1>2, <1>3, <1>5, <2>2, SearchGoto
<1> QED BY <1>1, <1>4, <1>5

\* The label after a stopAll loop.
AfterStop(l) == CASE l = "settle" -> "baseline" [] l = "unwind" -> "drain"
                  [] l = "finish" -> "verdict"  [] l = "abort"  -> "failed"

\* stopAll: the handle of a port nobody took is current, so its stop is accepted
\* and the port is idle, whatever the calls for the others return.
LEMMA StopAllInv == ASSUME IInv, stopAll PROVE IInv'
<1> DEFINE h == Head(todo)
<1>1. /\ pc \in {"settle", "unwind", "finish", "abort"} /\ pc \in Measuring
      /\ UNCHANGED <<owner, handler, streams, held, acquired>>
      /\ active' = [active EXCEPT ![h.id] = active[h.id] /\ ~Valid(h)]
      /\ IF Len(todo) > 1 THEN Goto(pc, Tail(todo)) ELSE Goto(AfterStop(pc), held)
  BY DEF stopAll, Measuring, AfterStop
<1>2. /\ todo \in Seq(Handles) /\ todo # <<>> /\ h \in Handles /\ h.id \in Ports
      /\ held \in Seq(Handles) /\ held # <<>>
  BY <1>1, HandleIds DEF IInv, ClientType, Busy, Measuring
<1>3. /\ Elems(todo) = {h} \cup Elems(Tail(todo))
      /\ ~(Len(todo) > 1) => Elems(todo) = {h}
      /\ Tail(todo) \in Seq(Handles) /\ (Len(todo) > 1 => Tail(todo) # <<>>)
  BY <1>2, ElemsTail
<1>4. active \in [Ports -> BOOLEAN] BY DEF IInv, ServerType
<1>5. /\ active' \in [Ports -> BOOLEAN]
      /\ Valid(h) => ~active'[h.id]
      /\ \A q \in Ports : active'[q] => active[q]
  BY <1>1, <1>2, <1>4, Zenon
<1>6. \A g \in Untouched : /\ g.id \in Ports /\ Valid(g)
                           /\ g = h \/ g \in Elems(Tail(todo)) \/ ~active[g.id]
  BY <1>1, <1>3, HandleIds DEF IInv, LoadInv, StopInv
<1>7. \A g \in Untouched : g \in Elems(Tail(todo)) \/ ~active'[g.id]
  BY <1>5, <1>6
<1>8. ASSUME touched' = touched PROVE Untouched' = Untouched
  BY <1>1, <1>8 DEF Untouched
<1>9. CASE Len(todo) > 1
  <2>1. Goto(pc, Tail(todo)) BY <1>1, <1>9
  <2>2. pc' = pc /\ todo' = Tail(todo) /\ touched' = touched BY <2>1 DEF Goto
  <2>3. StopInv' BY <1>1, <1>7, <1>8, <2>2 DEF StopInv
  <2>4. pc \in Measuring \ {"find"} BY <1>1
  <2> QED BY <1>1, <1>3, <1>5, <1>9, <2>1, <2>3, <2>4, SearchGoto
<1>10. CASE ~(Len(todo) > 1)
  <2>1. Goto(AfterStop(pc), held) BY <1>1, <1>10
  <2>2. AfterStop(pc) \in {"baseline", "drain", "verdict", "failed"}
    BY <1>1 DEF AfterStop
  <2>3. pc' = AfterStop(pc) /\ touched' = touched BY <2>1 DEF Goto
  <2>4. \A g \in Untouched' : ~active'[g.id]
    BY <1>3, <1>5, <1>6, <1>8, <1>10, <2>3
  <2>5. StopInv' BY <2>2, <2>3, <2>4 DEF StopInv
  <2>6. AfterStop(pc) \in Measuring \ {"find"} BY <2>2 DEF Measuring
  <2> QED BY <1>1, <1>2, <1>5, <2>1, <2>5, <2>6, SearchGoto
<1> QED BY <1>9, <1>10

\* rampTo starts the ports; no loop of stops is under way.
LEMMA RampInv == ASSUME IInv, rampTo PROVE IInv'
<1> DEFINE h == Head(todo)
<1>1. /\ pc = "ramp" /\ pc \in Measuring
      /\ UNCHANGED <<owner, handler, streams, held, acquired>>
      /\ \/ /\ active' = [active EXCEPT ![h.id] = TRUE]
            /\ IF Len(todo) > 1 THEN Goto("ramp", Tail(todo)) ELSE Goto("hold", held)
         \/ Goto("abort", held) /\ UNCHANGED active
  BY DEF rampTo, Measuring
<1>2. /\ todo \in Seq(Handles) /\ todo # <<>> /\ held \in Seq(Handles) /\ held # <<>>
  BY <1>1 DEF IInv, ClientType, Busy, Measuring
<1>3. active \in [Ports -> BOOLEAN] BY DEF IInv, ServerType
<1>4. active' \in [Ports -> BOOLEAN]
  <2>1. CASE active' = [active EXCEPT ![h.id] = TRUE] BY <1>3, <2>1, Zenon
  <2>2. CASE active' = active BY <1>3, <2>2
  <2> QED BY <1>1, <2>1, <2>2
<1>5. {"ramp", "hold", "abort"} \subseteq Measuring \ {"find"} BY DEF Measuring
<1>6. CASE Goto("abort", held)
  <2>1. pc' = "abort" /\ todo' = held BY <1>6 DEF Goto
  <2>2. \A g \in Untouched' : g \in Elems(todo') BY <1>1, <2>1 DEF Untouched
  <2>3. StopInv' BY <2>1, <2>2 DEF StopInv
  <2> QED BY <1>1, <1>2, <1>4, <1>5, <1>6, <2>3, SearchGoto
<1>7. CASE Len(todo) > 1 /\ Goto("ramp", Tail(todo))
  <2>1. StopInv' BY <1>7 DEF Goto, StopInv
  <2>2. Tail(todo) \in Seq(Handles) /\ Tail(todo) # <<>> BY <1>2, <1>7, ElemsTail
  <2> QED BY <1>1, <1>4, <1>5, <1>7, <2>1, <2>2, SearchGoto
<1>8. CASE Goto("hold", held)
  <2>1. StopInv' BY <1>8 DEF Goto, StopInv
  <2> QED BY <1>1, <1>2, <1>4, <1>5, <1>8, <2>1, SearchGoto
<1> QED BY <1>1, <1>6, <1>7, <1>8

\* Find and Verdict begin a measurement with every port of the context to stop;
\* or the search returns, with its ports idle when it has results.
LEMMA MeasureInv == ASSUME IInv, Find \/ Verdict \/ RunFailed PROVE IInv'
<1>1. /\ UNCHANGED <<owner, handler, active, streams, held>>
      /\ \/ /\ pc \in {"find", "verdict"} /\ pc' = "settle" /\ runs' \in 0 .. MaxRuns
            /\ UNCHANGED <<cmd, todo, acquired, status, cmds, procs, touched>>
         \/ Return("error")
         \/ pc = "verdict" /\ Return("measured")
  <2>1. runs \in Nat /\ MaxRuns \in Nat \ {0} BY CliAssumption DEF IInv, ClientType
  <2>2. CASE Find BY <2>1, <2>2 DEF Find, server
  <2>3. CASE Verdict BY <2>1, <2>3 DEF Verdict, server
  <2>4. CASE RunFailed BY <2>4 DEF RunFailed, server
  <2> QED BY <2>2, <2>3, <2>4
<1>2. ASSUME touched' = touched PROVE ServerType' /\ OtherMarked' /\ Untouched' = Untouched
  BY <1>1, <1>2 DEF IInv, ServerType, OtherMarked, Untouched
<1>3. CASE Return("error")
  <2>1. touched' = touched BY <1>3 DEF Return
  <2> QED BY <1>1, <1>2, <1>3, <2>1, ReturnInv
<1>4. CASE pc = "verdict" /\ Return("measured")
  <2>1. touched' = touched BY <1>4 DEF Return
  <2>2. \A g \in Untouched : ~active'[g.id] BY <1>1, <1>4 DEF IInv, StopInv
  <2> QED BY <1>1, <1>2, <1>4, <2>1, <2>2, ReturnInv
<1>5. CASE /\ pc \in {"find", "verdict"} /\ pc' = "settle" /\ runs' \in 0 .. MaxRuns
           /\ UNCHANGED <<cmd, todo, acquired, status, cmds, procs, touched>>
  <2>1. pc \in Measuring /\ pc' \in Measuring /\ pc \in Busy /\ pc # "acquire"
    BY <1>5 DEF Measuring, Busy
  <2>2. ClientType'
    BY <1>1, <1>5, <2>1 DEF IInv, ClientType, Busy
  <2>3. LoadInv'
    <3>1. \A g \in Untouched' : Exact(g.id)' /\ Valid(g)'
      BY <1>1, <1>5, <2>1 DEF IInv, LoadInv, Untouched, Exact, Valid
    <3> QED BY <1>5, <3>1 DEF LoadInv, Loading
  <2>4. StopInv'
    <3>1. \A g \in Untouched' : g \in Elems(todo') \/ ~active'[g.id]
      <4>1. CASE pc = "find"
        BY <1>1, <1>5, <4>1 DEF IInv, ClientType, Untouched
      <4>2. CASE pc = "verdict"
        BY <1>1, <1>5, <4>2 DEF IInv, StopInv, Untouched
      <4> QED BY <1>5, <4>1, <4>2
    <3> QED BY <1>5, <3>1 DEF StopInv
  <2>5. LoadedExactly' /\ StoppedMeansIdle'
    BY <1>5 DEF LoadedExactly, StoppedMeansIdle
  <2> QED BY <1>2, <1>5, <2>2, <2>3, <2>4, <2>5 DEF IInv
<1> QED BY <1>1, <1>3, <1>4, <1>5

-----------------------------------------------------------------------------
(* The end of a process, and the rest of the world *)

\* Outside the commands only the types have to be kept.
LEMMA IdleInv ==
    ASSUME IInv, ServerType', OtherMarked',
           pc' \in {"ready", "release", "exited", "killed"}, pc' = "ready" => status' = "ok",
           held' \in Seq(Handles), acquired' \in Seq(Handles), todo' \in Seq(Handles),
           \A h \in Elems(held') \cup Elems(acquired') : h.handler <= handler'[h.id],
           cmds' = cmds, runs' \in 0 .. MaxRuns, procs' \in 0 .. MaxProcs
    PROVE  IInv'
<1>1. ClientType'
  BY DEF IInv, ClientType, Busy, Measuring, Loading
<1>2. LoadInv' /\ StopInv'
  BY DEF LoadInv, StopInv, Loading, Measuring
<1>3. LoadedExactly' /\ StoppedMeansIdle'
  BY DEF LoadedExactly, StoppedMeansIdle
<1> QED BY <1>1, <1>2, <1>3 DEF IInv

\* Exit, ReleasePorts, a kill and the next process.
LEMMA ProcessInv == ASSUME IInv, Exit \/ ReleasePorts \/ Killed \/ NewProcess PROVE IInv'
<1>1. /\ held \in Seq(Handles) /\ acquired \in Seq(Handles) /\ <<>> \in Seq(Handles)
      /\ \A h \in Elems(held) \cup Elems(acquired) : h.handler <= handler[h.id]
      /\ pc # "acquire" => todo \in Seq(Handles)
      /\ runs \in 0 .. MaxRuns /\ procs \in 0 .. MaxProcs
      /\ Elems(<<>>) = {} /\ 0 \in 0 .. MaxRuns
  BY IdsOf, CliAssumption DEF IInv, ClientType
<1>2. CASE Exit
  <2>1. /\ pc = "ready" /\ pc' = "release" /\ todo' = held
        /\ UNCHANGED <<owner, handler, active, streams, held, acquired, touched, cmds, runs, procs>>
    BY <1>2 DEF Exit, server, count
  <2>2. ServerType' /\ OtherMarked' BY <2>1 DEF IInv, ServerType, OtherMarked
  <2> QED BY <1>1, <2>1, <2>2, IdleInv
<1>3. CASE ReleasePorts
  <2>1. /\ pc = "release" /\ pc' \in {"release", "exited"} /\ held' \in {held, <<>>}
        /\ UNCHANGED <<handler, active, streams, acquired, touched, cmds, runs, procs>>
    BY <1>3 DEF ReleasePorts, count
  <2>2. todo \in Seq(Handles) BY <1>1, <2>1
  <2>3. todo' \in Seq(Handles)
    BY <1>3, <2>2 DEF ReleasePorts
  <2>4. \/ UNCHANGED owner
        \/ owner' = [owner EXCEPT ![Head(todo).id] = "none"]
    BY <1>3 DEF ReleasePorts
  <2>5. ServerType' /\ OtherMarked'
    BY <2>1, <2>4 DEF IInv, ServerType, OtherMarked
  <2>6. \A h \in Elems(held') \cup Elems(acquired') : h.handler <= handler'[h.id]
    BY <1>1, <2>1
  <2> QED BY <1>1, <2>1, <2>3, <2>5, <2>6, IdleInv
<1>4. CASE Killed
  <2>1. /\ pc' = "killed" /\ held' = <<>> /\ todo' = <<>> /\ acquired' = <<>>
        /\ runs' = 0
        /\ UNCHANGED <<owner, handler, active, streams, cmds, procs, touched>>
    BY <1>4 DEF Killed, server
  <2>2. ServerType' /\ OtherMarked' BY <2>1 DEF IInv, ServerType, OtherMarked
  <2> QED BY <1>1, <2>1, <2>2, IdleInv
<1>5. CASE NewProcess
  <2>1. /\ pc \in {"exited", "killed"} /\ procs < MaxProcs /\ procs' = procs + 1
        /\ owner' = [p \in Ports |-> IF owner[p] = "us" THEN "gone" ELSE owner[p]]
        /\ pc' = "ready" /\ status' = "ok"
        /\ UNCHANGED <<handler, active, streams, held, todo, acquired, cmds, runs, touched>>
    BY <1>5 DEF NewProcess
  <2>2. ServerType' /\ OtherMarked' BY <2>1 DEF IInv, ServerType, OtherMarked
  <2>3. procs' \in 0 .. MaxProcs BY <1>1, <2>1, CliAssumption
  <2> QED BY <1>1, <2>1, <2>2, <2>3, IdleInv
<1> QED BY <1>2, <1>3, <1>4, <1>5

\* Traffic that ends by itself, and everything another session does, falls under
\* what WorldInv allows.
LEMMA OthersInv ==
    ASSUME IInv, NEW p \in Ports,
           Finish(p) \/ OtherAcquire(p) \/ OtherRelease(p) \/ OtherTraffic(p)
    PROVE  IInv'
<1>0. /\ owner \in [Ports -> {"none", "us", "gone", "other"}] /\ active \in [Ports -> BOOLEAN]
      /\ streams = [q \in Ports |-> streams[q]]
  BY DEF IInv, ServerType, ClientType
<1>1. CASE Finish(p)
  <2>1. /\ UNCHANGED <<owner, handler, streams, client, touched>>
        /\ active' = [active EXCEPT ![p] = FALSE]
    BY <1>1 DEF Finish
  <2>2. /\ active' \in [Ports -> BOOLEAN] /\ \A q \in Ports : active'[q] => active[q]
    BY <1>0, <2>1, Zenon
  <2>3. ServerType' /\ OtherMarked' BY <2>1, <2>2 DEF IInv, ServerType, OtherMarked
  <2> QED BY <1>0, <2>1, <2>2, <2>3, WorldInv
<1>2. CASE OtherAcquire(p)
  <2>1. /\ UNCHANGED <<handler, active, streams, client>>
        /\ owner' = [owner EXCEPT ![p] = "other"] /\ touched' = touched \cup {p}
    BY <1>2 DEF OtherAcquire
  <2>2. ServerType' /\ OtherMarked' BY <1>0, <2>1 DEF IInv, ServerType, OtherMarked
  <2>3. \A q \in Ports : q \notin touched' => owner'[q] = owner[q] BY <1>0, <2>1
  <2> QED BY <2>1, <2>2, <2>3, WorldInv
<1>3. CASE OtherRelease(p)
  <2>1. /\ UNCHANGED <<handler, active, streams, client, touched>>
        /\ owner[p] = "other" /\ owner' = [owner EXCEPT ![p] = "none"]
    BY <1>3 DEF OtherRelease
  <2>2. ServerType' /\ OtherMarked' BY <1>0, <2>1 DEF IInv, ServerType, OtherMarked
  <2>3. \A q \in Ports : q \notin touched' => owner'[q] = owner[q]
    BY <1>0, <2>1 DEF IInv, OtherMarked
  <2> QED BY <1>0, <2>1, <2>2, <2>3, WorldInv
<1>4. CASE OtherTraffic(p)
  <2>1. /\ UNCHANGED <<owner, handler, client, touched>>
        /\ owner[p] = "other" /\ streams' = [streams EXCEPT ![p] = {"foreign"}]
        /\ active' = [active EXCEPT ![p] = TRUE]
    BY <1>4 DEF OtherTraffic
  <2>2. active' \in [Ports -> BOOLEAN] /\ \A q \in Ports : q # p => active'[q] = active[q]
    BY <1>0, <2>1, Zenon
  <2>3. ServerType' /\ OtherMarked' BY <1>0, <2>1, <2>2 DEF IInv, ServerType, OtherMarked
  <2>4. p \in touched BY <2>1 DEF IInv, OtherMarked
  <2>5. \A q \in Ports : q \notin touched' =>
           owner'[q] = owner[q] /\ streams'[q] = streams[q] /\ (active'[q] => active[q])
    BY <1>0, <2>1, <2>2, <2>4
  <2> QED BY <1>0, <2>1, <2>3, <2>5, WorldInv
<1> QED BY <1>1, <1>2, <1>3, <1>4

-----------------------------------------------------------------------------
(* The results *)

\* Every step keeps the invariant.
THEOREM StepInv == IInv /\ [Next]_vars => IInv'
<1> SUFFICES ASSUME IInv, [Next]_vars PROVE IInv' OBVIOUS
<1>1. CASE Command BY <1>1, CommandInv
<1>2. CASE Rpc
  BY <1>2, AcquireInv, RemoveInv, AddInv, StartInv, StopCmdInv, MeasureInv, StopAllInv,
     SearchStepInv, RampInv, ProcessInv DEF Rpc
<1>3. CASE Exit \/ Killed \/ NewProcess BY <1>3, ProcessInv
<1>4. CASE \E p \in Ports : Finish(p) \/ OtherAcquire(p) \/ OtherRelease(p) \/ OtherTraffic(p)
  BY <1>4, OthersInv
<1>5. CASE UNCHANGED vars
  <2>1. UNCHANGED <<owner, handler, active, streams, client, touched>>
    BY <1>5 DEF vars, server, count, client
  <2>2. ServerType' /\ OtherMarked'
    BY <2>1 DEF IInv, ServerType, OtherMarked, ClientType
  <2> QED BY <2>1, <2>2, WorldInv
<1> QED BY <1>1, <1>2, <1>3, <1>4, <1>5 DEF Next

\* The invariant holds throughout.
THEOREM Invariance == Spec => []IInv
BY InitInv, StepInv, PTL DEF Spec

\* The types of the server's and the client's state; a command at work has a port
\* to work on and no handle is newer than the server's.
THEOREM TypeCorrect == Spec => []TypeOK
<1>1. IInv => TypeOK
  BY CliAssumption DEF IInv, ServerType, ClientType, TypeOK
<1> QED BY <1>1, Invariance, PTL

\* "loaded" is printed only with exactly the profile's streams on every port of
\* the context nobody else took, whatever an earlier command or a process that
\* was killed in the middle of an upload had left there.
THEOREM LoadedIsExact == Spec => []LoadedExactly
<1>1. IInv => LoadedExactly BY DEF IInv
<1> QED BY <1>1, Invariance, PTL

\* After "stopped", and after the results of a search, no port of the context
\* nobody else took transmits, although stopAll ignores every error.
THEOREM StoppedIsIdle == Spec => []StoppedMeansIdle
<1>1. IInv => StoppedMeansIdle BY DEF IInv
<1> QED BY <1>1, Invariance, PTL

\* A search measures its own traffic: what transmits during it has the streams
\* of its profile.
THEOREM MeasuresOwn == Spec => []MeasuresOwnTraffic
<1>1. IInv => MeasuresOwnTraffic
  BY DEF IInv, LoadInv, Exact, Wanted, MeasuresOwnTraffic
<1> QED BY <1>1, Invariance, PTL

\* However a measurement ends, by its last stopAll, the deferred one or an error
\* before its first start, every port nobody else took is idle: a search that
\* fails leaves no traffic behind.
MeasurementEndsIdle == pc \in {"verdict", "failed"} => \A h \in Untouched : ~active[h.id]

\* MeasurementEndsIdle holds in every reachable state.
THEOREM NoTrafficLeft == Spec => []MeasurementEndsIdle
<1>1. IInv => MeasurementEndsIdle BY DEF IInv, StopInv, MeasurementEndsIdle
<1> QED BY <1>1, Invariance, PTL

-----------------------------------------------------------------------------
(* Ports left owned *)

\* The port of a current handle among those of a sequence.
Covered(p, s) == \E h \in Elems(s) : h.id = p /\ Valid(h)

\* Between acquisitions and the exit.
Settled == {"ready"} \cup (Busy \ {"acquire"})

\* A port the server thinks is ours has its current handle where the client will
\* find it to release it, or is accounted for as one whose handle was not kept;
\* and what the running command has been granted so far it can still use.
OwnedInv ==
    /\ pc # "acquire" => acquired = <<>>
    /\ pc = "acquire" =>
          \A p \in Ports : owner[p] = "us" /\ p \in Ids(acquired) => Covered(p, acquired)
    /\ pc \in {"acquire"} \cup Settled =>
          \A p \in Ports : owner[p] = "us" => p \in unrecorded \/ Covered(p, held)
    /\ pc = "release" =>
          \A p \in Ports : owner[p] = "us" => p \in unrecorded \/ Covered(p, todo)
    /\ NoOrphanPorts

\* A step that leaves the owners, the handles and the context alone.
LEMMA SettledOwned ==
    ASSUME OwnedInv, UNCHANGED <<owner, handler, held, unrecorded>>, acquired' \in {acquired, <<>>},
           pc \in Settled, pc' \in Settled
    PROVE  OwnedInv'
<1>1. pc' \notin {"acquire", "release", "exited"} /\ pc # "acquire"
  BY DEF Settled, Busy, Measuring
<1>2. \A p : Covered(p, held) => Covered(p, held)'
  BY DEF Covered, Valid
<1>3. acquired' = <<>> BY <1>1 DEF OwnedInv
<1> QED BY <1>1, <1>2, <1>3 DEF OwnedInv, NoOrphanPorts

\* No call of a command but the acquisition changes an owner, a handle or the
\* context.
LEMMA CallsKeepHeld ==
    ASSUME \/ RemoveAllStreams \/ AddStreams \/ Start \/ Stop \/ Find \/ stopAll \/ Baseline
           \/ rampTo \/ Hold \/ Drain \/ Verdict \/ RunFailed
    PROVE  /\ UNCHANGED <<owner, handler, held, unrecorded>> /\ acquired' \in {acquired, <<>>}
           /\ pc \in Settled /\ pc' \in Settled
<1> DEFINE Kept == acquired' \in {acquired, <<>>}
<1>1. ASSUME NEW s, Return(s) PROVE Kept /\ pc' \in Settled
  BY <1>1 DEF Return, Settled
<1>2. ASSUME NEW l \in Settled, NEW rest, Goto(l, rest) PROVE pc' \in Settled
  BY <1>2 DEF Goto
<1>3. {"remove", "add", "start", "stop"} \cup Measuring \subseteq Settled
  BY DEF Settled, Busy, Measuring
<1>4. ASSUME NEW l \in Settled, NEW d, Advance(l, d) PROVE Kept /\ pc' \in Settled
  BY <1>1, <1>2, <1>4 DEF Advance
<1>5. ASSUME Loaded PROVE Kept /\ pc' \in Settled
  <2>1. "find" \in Settled /\ "remove" \in Settled BY <1>3 DEF Measuring
  <2> QED BY <1>2, <1>4, <1>5, <2>1 DEF Loaded
<1>6. CASE RemoveAllStreams \/ AddStreams
  <2>1. pc \in Settled /\ "add" \in Settled /\ UNCHANGED <<owner, handler, held, unrecorded>>
    BY <1>3, <1>6 DEF RemoveAllStreams, AddStreams
  <2>2. Return("error") \/ Loaded \/ (Goto("add", todo) /\ UNCHANGED acquired)
    BY <1>6 DEF RemoveAllStreams, AddStreams
  <2> QED BY <1>1, <1>2, <1>5, <2>1, <2>2
<1>7. CASE Start \/ Stop
  <2>1. pc \in Settled /\ {"start", "stop"} \subseteq Settled /\ UNCHANGED <<owner, handler, held, unrecorded>>
    BY <1>3, <1>7 DEF Start, Stop
  <2>2. Return("error") \/ Advance("start", "started") \/ Advance("stop", "stopped")
    BY <1>7 DEF Start, Stop
  <2> QED BY <1>1, <1>4, <2>1, <2>2
<1>8. CASE Find \/ Verdict \/ RunFailed
  <2>1. pc \in Settled /\ "settle" \in Settled /\ UNCHANGED <<owner, handler, held, unrecorded>>
    BY <1>3, <1>8 DEF Find, Verdict, RunFailed, server, Measuring
  <2>2. Return("error") \/ Return("measured") \/ (pc' = "settle" /\ Kept)
    BY <1>8 DEF Find, Verdict, RunFailed
  <2> QED BY <1>1, <2>1, <2>2
<1>9. CASE stopAll
  <2>1. /\ pc \in {"settle", "unwind", "finish", "abort"}
        /\ UNCHANGED <<owner, handler, held, unrecorded, acquired>>
        /\ Goto(pc, Tail(todo)) \/ Goto(AfterStop(pc), held)
    BY <1>9 DEF stopAll, AfterStop
  <2>2. AfterStop(pc) \in Measuring /\ pc \in Measuring
    BY <2>1 DEF AfterStop, Measuring
  <2> QED BY <1>2, <1>3, <2>1, <2>2
<1>10. CASE Baseline \/ rampTo \/ Hold \/ Drain
  <2>1. pc \in Measuring /\ UNCHANGED <<owner, handler, held, unrecorded, acquired>>
    BY <1>10 DEF Baseline, rampTo, Hold, Drain, server, Measuring
  <2>2. \E l \in {"ramp", "failed", "abort", "hold", "unwind", "finish"}, rest \in {held, Tail(todo)} :
           Goto(l, rest)
    BY <1>10 DEF Baseline, rampTo, Hold, Drain
  <2>3. {"ramp", "failed", "abort", "hold", "unwind", "finish"} \subseteq Measuring
    BY DEF Measuring
  <2> QED BY <1>2, <1>3, <2>1, <2>2, <2>3
<1> QED BY <1>6, <1>7, <1>8, <1>9, <1>10

\* A command begins with nothing granted yet.
LEMMA BeginOwned ==
    ASSUME OwnedInv, Command PROVE OwnedInv'
<1>1. PICK c, l, rest : Begin(c, l, rest) /\ l \in {"start", "stop", "acquire"}
  BY DEF Command, StreamsCmd, NDRCmd, StartCmd, StopCmd
<1>2. /\ pc = "ready" /\ pc' = l
      /\ UNCHANGED <<owner, handler, held, unrecorded, acquired>>
  BY <1>1 DEF Begin, server
<1>3. pc \in Settled BY <1>2 DEF Settled
<1>4. CASE l \in {"start", "stop"}
  <2>1. pc' \in Settled BY <1>2, <1>4 DEF Settled, Busy
  <2> QED BY <1>2, <1>3, <2>1, SettledOwned
<1>5. CASE l = "acquire"
  <2>1. pc' = "acquire" /\ acquired' = <<>> BY <1>2, <1>5 DEF OwnedInv
  <2>2. \A p : Covered(p, held) => Covered(p, held)' BY <1>2 DEF Covered, Valid
  <2>3. Ids(acquired)' = {} BY <2>1, IdsOf
  <2> QED BY <1>2, <1>3, <2>1, <2>2, <2>3 DEF OwnedInv, NoOrphanPorts
<1> QED BY <1>1, <1>4, <1>5

\* The ports of a sequence to which a handle is appended.
LEMMA IdsAppend ==
    ASSUME NEW s \in Seq(Handles), NEW h \in Handles
    PROVE  Ids(Append(s, h)) = Ids(s) \cup {h.id}
<1>1. /\ Len(s) \in Nat /\ Len(Append(s, h)) = Len(s) + 1
      /\ Append(s, h)[Len(s) + 1] = h
      /\ \A j \in 1 .. Len(s) : Append(s, h)[j] = s[j]
  OBVIOUS
<1>2. 1 .. Len(s) + 1 = (1 .. Len(s)) \cup {Len(s) + 1} BY <1>1
<1>3. ASSUME NEW x \in Ids(Append(s, h)) PROVE x \in Ids(s) \cup {h.id}
  <2>1. PICK j \in 1 .. Len(s) + 1 : x = Append(s, h)[j].id BY <1>1, <1>3 DEF Ids
  <2> QED BY <1>1, <1>2, <2>1 DEF Ids
<1>4. ASSUME NEW x \in Ids(s) PROVE x \in Ids(Append(s, h))
  <2>1. PICK j \in 1 .. Len(s) : x = s[j].id BY <1>4 DEF Ids
  <2>2. j \in 1 .. Len(Append(s, h)) /\ x = Append(s, h)[j].id BY <1>1, <1>2, <2>1
  <2> QED BY <2>2 DEF Ids
<1>5. h.id \in Ids(Append(s, h))
  <2>1. Len(s) + 1 \in 1 .. Len(Append(s, h)) BY <1>1
  <2> QED BY <1>1, <2>1 DEF Ids
<1> QED BY <1>3, <1>4, <1>5

\* An acquisition: the port moves to what was granted, under its new handle; the
\* last one replaces the context, and the ports that the new context lacks are
\* those whose handle is not kept.
LEMMA AcquireOwned ==
    ASSUME IInv, OwnedInv, acquirePorts PROVE OwnedInv'
<1> DEFINE p == Head(todo)
           h == Handle(p, handler'[p])
<1>1. pc = "acquire" BY DEF acquirePorts
<1>2. /\ todo \in Seq(Ports) /\ todo # <<>> /\ acquired \in Seq(Handles)
      /\ owner \in [Ports -> {"none", "us", "gone", "other"}] /\ handler \in [Ports -> Nat]
  BY <1>1 DEF IInv, ClientType, ServerType, Busy
<1>3. p \in Ports
  BY <1>2, ElemsTail
<1>4. CASE ~Grants(p, cmd.force)
  <2>1. /\ pc' = "ready" /\ acquired' = <<>> /\ UNCHANGED <<owner, handler, held, unrecorded>>
    BY <1>4 DEF acquirePorts, Return
  <2>2. \A q : Covered(q, held) => Covered(q, held)' BY <2>1 DEF Covered, Valid
  <2> QED BY <1>1, <2>1, <2>2 DEF OwnedInv, NoOrphanPorts
<1>5. CASE Grants(p, cmd.force)
  <2>1. /\ owner' = [owner EXCEPT ![p] = "us"]
        /\ handler' = [handler EXCEPT ![p] = handler[p] + 1]
        /\ IF Len(todo) > 1
           THEN /\ acquired' = Append(acquired, h)
                /\ unrecorded' = unrecorded \cup {p}
                /\ Goto("acquire", Tail(todo)) /\ UNCHANGED held
           ELSE /\ held' = Append(acquired, h)
                /\ unrecorded' = (unrecorded \cup Ids(held)) \ Ids(held')
                /\ acquired' = <<>>
                /\ Goto(IF cmd.name = "stop" THEN "stop" ELSE "remove", held')
    BY <1>5 DEF acquirePorts
  <2>2. /\ owner'[p] = "us" /\ handler'[p] \in Nat
        /\ \A q \in Ports : q # p => owner'[q] = owner[q] /\ handler'[q] = handler[q]
    BY <1>2, <1>3, <2>1
  <2>3. h \in Handles /\ h.id = p /\ h.handler = handler'[p]
    BY <1>3, <2>2 DEF Handle, Handles
  <2>4. /\ Elems(Append(acquired, h)) = Elems(acquired) \cup {h}
        /\ Ids(Append(acquired, h)) = Ids(acquired) \cup {p}
    BY <1>2, <2>3, ElemsAppend, IdsAppend
  <2>5. \A q \in Ports : owner'[q] = "us" /\ q \in Ids(Append(acquired, h)) =>
           \E g \in Elems(Append(acquired, h)) : g.id = q /\ Valid(g)'
    <3> SUFFICES ASSUME NEW q \in Ports, owner'[q] = "us", q \in Ids(Append(acquired, h))
                 PROVE  \E g \in Elems(Append(acquired, h)) : g.id = q /\ Valid(g)'
      OBVIOUS
    <3>1. CASE q = p BY <2>2, <2>3, <2>4, <3>1 DEF Valid
    <3>2. CASE q # p
      <4>1. PICK g \in Elems(acquired) : g.id = q /\ Valid(g)
        BY <1>1, <2>2, <2>4, <3>2 DEF OwnedInv, Covered
      <4> QED BY <2>2, <2>4, <3>2, <4>1 DEF Valid
    <3> QED BY <3>1, <3>2
  <2>6. CASE Len(todo) > 1
    <3>1. /\ pc' = "acquire" /\ acquired' = Append(acquired, h)
          /\ unrecorded' = unrecorded \cup {p} /\ held' = held
      BY <2>1, <2>6 DEF Goto
    <3>2. \A q \in Ports : owner'[q] = "us" /\ q \in Ids(acquired)' => Covered(q, acquired)'
      BY <2>5, <3>1 DEF Covered
    <3>3. ASSUME NEW q \in Ports, owner'[q] = "us" PROVE q \in unrecorded' \/ Covered(q, held)'
      <4>1. CASE q = p BY <3>1, <4>1
      <4>2. CASE q # p
        <5>1. q \in unrecorded \/ Covered(q, held) BY <1>1, <2>2, <3>3, <4>2 DEF OwnedInv
        <5>2. Covered(q, held) => Covered(q, held)'
          BY <2>2, <3>1, <4>2 DEF Covered, Valid
        <5> QED BY <3>1, <5>1, <5>2
      <4> QED BY <4>1, <4>2
    <3> QED BY <3>1, <3>2, <3>3 DEF OwnedInv, NoOrphanPorts
  <2>7. CASE ~(Len(todo) > 1)
    <3>1. /\ pc' \in {"stop", "remove"} /\ held' = Append(acquired, h) /\ acquired' = <<>>
          /\ unrecorded' = (unrecorded \cup Ids(held)) \ Ids(held')
      BY <2>1, <2>7 DEF Goto
    <3>2. ASSUME NEW q \in Ports, owner'[q] = "us" PROVE q \in unrecorded' \/ Covered(q, held)'
      <4>1. CASE q \in Ids(held') BY <2>5, <3>1, <3>2, <4>1 DEF Covered
      <4>2. CASE q \notin Ids(held')
        <5>1. q # p BY <2>4, <3>1, <4>2
        <5>2. q \in unrecorded \/ Covered(q, held) BY <1>1, <2>2, <3>2, <5>1 DEF OwnedInv
        <5>3. Covered(q, held) => q \in Ids(held) BY IdsOf DEF Covered
        <5> QED BY <3>1, <4>2, <5>2, <5>3
      <4> QED BY <4>1, <4>2
    <3> QED BY <3>1, <3>2 DEF OwnedInv, NoOrphanPorts
  <2> QED BY <2>6, <2>7
<1> QED BY <1>4, <1>5

\* A release: the port of the first handle is freed if the handle is current, and
\* the others are still ahead.
LEMMA ReleaseOwned ==
    ASSUME IInv, OwnedInv, ReleasePorts PROVE OwnedInv'
<1>1. /\ pc = "release" /\ handler' = handler /\ unrecorded' = unrecorded
      /\ acquired' = acquired /\ acquired = <<>>
  BY DEF ReleasePorts, OwnedInv
<1>2. /\ todo \in Seq(Handles) /\ owner \in [Ports -> {"none", "us", "gone", "other"}]
  BY <1>1 DEF IInv, ClientType, ServerType
<1>3. \A p \in Ports : owner[p] = "us" => p \in unrecorded \/ Covered(p, todo)
  BY <1>1 DEF OwnedInv
<1>4. CASE todo # <<>>
  <2> DEFINE h == Head(todo)
  <2>1. /\ owner' = IF Valid(h) THEN [owner EXCEPT ![h.id] = "none"] ELSE owner
        /\ todo' = Tail(todo) /\ pc' = "release"
    BY <1>1, <1>4 DEF ReleasePorts
  <2>2. h \in Handles /\ Elems(todo) = {h} \cup Elems(Tail(todo))
    BY <1>2, <1>4, ElemsTail
  <2>3. h.id \in Ports BY <2>2 DEF Handles
  <2>4. \A p \in Ports : owner'[p] = "us" => owner[p] = "us" /\ ~(p = h.id /\ Valid(h))
    BY <1>2, <2>1, <2>3
  <2>5. ASSUME NEW p \in Ports, owner'[p] = "us", p \notin unrecorded PROVE Covered(p, todo)'
    <3>1. PICK g \in Elems(todo) : g.id = p /\ Valid(g)
      BY <1>3, <2>4, <2>5 DEF Covered
    <3>2. g # h BY <2>4, <2>5, <3>1
    <3>3. g \in Elems(todo') BY <2>1, <2>2, <3>2
    <3>4. Valid(g)' BY <1>1, <2>5, <3>1 DEF Valid
    <3> QED BY <3>1, <3>3, <3>4 DEF Covered
  <2> QED BY <1>1, <2>1, <2>5 DEF OwnedInv, NoOrphanPorts, Settled, Busy, Measuring
<1>5. CASE todo = <<>>
  <2>1. pc' = "exited" /\ owner' = owner BY <1>5 DEF ReleasePorts
  <2>2. \A p \in Ports : owner[p] = "us" => p \in unrecorded BY <1>3, <1>5, IdsOf DEF Covered
  <2> QED BY <1>1, <2>1, <2>2 DEF OwnedInv, NoOrphanPorts, Settled, Busy, Measuring
<1> QED BY <1>4, <1>5

\* Another session takes or frees a port: no port becomes ours, and the handles
\* of the others stay current.
LEMMA OthersOwned ==
    ASSUME IInv, OwnedInv, NEW p \in Ports, OtherAcquire(p) \/ OtherRelease(p) PROVE OwnedInv'
<1>1. /\ UNCHANGED <<handler, held, unrecorded, pc, todo, acquired>>
      /\ owner' = [owner EXCEPT ![p] = "other"] \/ owner' = [owner EXCEPT ![p] = "none"]
  BY DEF OtherAcquire, OtherRelease, client
<1>2. owner \in [Ports -> {"none", "us", "gone", "other"}] BY DEF IInv, ServerType
<1>3. \A q \in Ports : owner'[q] = "us" => owner[q] = "us" /\ owner'[q] = owner[q]
  BY <1>1, <1>2
<1>4. ASSUME NEW q \in Ports, owner'[q] = "us"
      PROVE  /\ Covered(q, held) => Covered(q, held)'
             /\ Covered(q, acquired) => Covered(q, acquired)'
             /\ Covered(q, todo) => Covered(q, todo)'
  BY <1>1, <1>3, <1>4 DEF Covered, Valid
<1>5. Ids(acquired)' = Ids(acquired) BY <1>1
<1> QED BY <1>1, <1>3, <1>4, <1>5 DEF OwnedInv, NoOrphanPorts

\* Every step keeps a port that is ours where the client will release it, or
\* accounts for it.
THEOREM OwnedStep == IInv /\ OwnedInv /\ [Next]_vars => OwnedInv'
<1> SUFFICES ASSUME IInv, OwnedInv, [Next]_vars PROVE OwnedInv' OBVIOUS
<1>1. CASE Command BY <1>1, BeginOwned
<1>2. CASE acquirePorts BY <1>2, AcquireOwned
<1>3. CASE ReleasePorts BY <1>3, ReleaseOwned
<1>4. CASE Rpc /\ ~acquirePorts /\ ~ReleasePorts
  BY <1>4, CallsKeepHeld, SettledOwned DEF Rpc
<1>5. CASE Exit
  <2>1. /\ pc = "ready" /\ pc' = "release" /\ todo' = held
        /\ UNCHANGED <<owner, handler, unrecorded, acquired>>
    BY <1>5 DEF Exit, server
  <2>2. \A p : Covered(p, held) => Covered(p, todo)' BY <2>1 DEF Covered, Valid
  <2> QED BY <2>1, <2>2 DEF OwnedInv, NoOrphanPorts, Settled, Busy, Measuring
<1>6. CASE Killed
  <2>1. pc' = "killed" /\ acquired' = <<>> BY <1>6 DEF Killed
  <2> QED BY <2>1 DEF OwnedInv, NoOrphanPorts, Settled, Busy, Measuring
<1>7. CASE NewProcess
  <2>1. /\ pc \in {"exited", "killed"} /\ pc' = "ready" /\ acquired' = acquired
        /\ owner' = [p \in Ports |-> IF owner[p] = "us" THEN "gone" ELSE owner[p]]
    BY <1>7 DEF NewProcess
  <2>2. \A p \in Ports : owner'[p] # "us"
    BY <2>1
  <2> QED BY <2>1, <2>2 DEF OwnedInv, NoOrphanPorts
<1>8. CASE \E p \in Ports : OtherAcquire(p) \/ OtherRelease(p) BY <1>8, OthersOwned
<1>9. CASE \/ \E p \in Ports : Finish(p) \/ OtherTraffic(p)
           \/ UNCHANGED vars
  <2>1. UNCHANGED <<owner, handler, held, unrecorded, pc, todo, acquired>>
    BY <1>9 DEF Finish, OtherTraffic, vars, server, client
  <2>2. \A p : /\ Covered(p, held) => Covered(p, held)'
               /\ Covered(p, acquired) => Covered(p, acquired)'
               /\ Covered(p, todo) => Covered(p, todo)'
    BY <2>1 DEF Covered, Valid
  <2>3. Ids(acquired)' = Ids(acquired) BY <2>1
  <2> QED BY <2>1, <2>2, <2>3 DEF OwnedInv, NoOrphanPorts
<1> QED BY <1>1, <1>2, <1>3, <1>4, <1>5, <1>6, <1>7, <1>8, <1>9 DEF Next, Rpc

\* At the exit ReleasePorts still has a current handle for every port of the
\* context that is ours: whatever lists of ports the commands named, whoever took
\* ports from them and wherever they were refused, the ports left owned are those
\* whose handle acquirePorts did not keep.
THEOREM NothingOrphaned == Spec => []NoOrphanPorts
<1>1. Init => OwnedInv
  BY DEF Init, OwnedInv, NoOrphanPorts
<1>2. OwnedInv => NoOrphanPorts
  BY DEF OwnedInv
<1> QED BY <1>1, <1>2, OwnedStep, InitInv, StepInv, PTL DEF Spec
=============================================================================
