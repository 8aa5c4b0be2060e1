-------------------------- MODULE ConnectionProofs ---------------------------
(***************************************************************************)
(* TLAPS proofs about the shared RPC connection, for any set of polling    *)
(* goroutines and any number of calls: the mutex keeps the socket in lock  *)
(* step, and Connection.Call implements RpcService.                        *)
(***************************************************************************)
EXTENDS Connection, TLAPS

Inside(t) == tpc[t] \in {"send", "recv", "unlock"}

Idle == wireReq = <<>> /\ wireRep = <<>>

\* Request i is the only thing on the wire, on its way out or on its way back.
Sole(i) ==
    \/ wireReq = <<i>> /\ wireRep = <<>>
    \/ wireReq = <<>> /\ wireRep = <<i>>

\* The mutex is held by whoever is between Lock and Unlock, and by nobody else.
MutexHeld == \A t \in Callers : Inside(t) <=> mu = t

\* Ids are drawn once: a caller's id is older than the next one and is not the
\* error mark.
IdsDrawn == \A t \in Callers : Inside(t) => reqId[t] \in 1 .. nextId - 1

\* What the wire carries.  A caller in recv finds its own request or the reply
\* to it and nothing else; without such a caller an open socket is empty, and a
\* broken one may keep one leftover that is not the request about to be sent.
WireInv ==
    /\ Idle \/ \E i \in 1 .. nextId - 1 : Sole(i)
    /\ \A t \in Callers : tpc[t] = "recv" => Sole(reqId[t])
    /\ \A t \in Callers : tpc[t] = "send" => ~Sole(reqId[t])
    /\ ~Broken /\ (\A t \in Callers : tpc[t] # "recv") => Idle

OwnReply == \A t \in Callers : tpc[t] = "unlock" => got[t] \in {ErrReply, reqId[t]}

\* The inductive invariant.  LockStep says nothing of the mutex, of the ids or
\* of a caller that has sent and not read: none of its two halves is preserved
\* by Send or Recv without knowing that only the sender's own request is there.
IInv ==
    /\ TypeOK /\ nextId >= 1
    /\ sockOpen \in BOOLEAN /\ subSockOpen \in BOOLEAN
    /\ published \in 0 .. MaxMsgs /\ pending <= published
    /\ MutexHeld /\ IdsDrawn /\ WireInv /\ OwnReply

-----------------------------------------------------------------------------
(* The wire *)

\* Sending on an empty wire, answering the only request and reading the only
\* reply are the three ways the wire changes.
LEMMA WireOps ==
    ASSUME NEW i
    PROVE  /\ Append(<<>>, i) = <<i>>
           /\ Head(<<i>>) = i /\ Tail(<<i>>) = <<>>
           /\ Len(<<i>>) = 1 /\ <<i>> # <<>> /\ <<i>>[1] = i
           /\ \A j : <<i>> = <<j>> => i = j
OBVIOUS

\* Two requests cannot both be the only one on the wire.
LEMMA SoleUnique ==
    ASSUME NEW i, NEW j, Sole(i)
    PROVE  ~Idle /\ (Sole(j) => i = j)
BY WireOps DEF Sole, Idle

\* "free" is not a goroutine.
LEMMA FreeIsNobody == "free" \notin Callers /\ "main" \in Callers /\ "sub" \in Callers
BY ConnectionAssumption DEF Callers

\* The initial state of a client satisfies the invariant.
THEOREM InitInv == Init => IInv
<1> SUFFICES ASSUME Init PROVE IInv OBVIOUS
<1>1. \A t \in Callers : tpc[t] = "idle" /\ mu # t
  BY FreeIsNobody DEF Init
<1>b. command \in BOOLEAN /\ procCtx \in BOOLEAN /\ subCtx \in BOOLEAN
      /\ sockOpen \in BOOLEAN /\ subSockOpen \in BOOLEAN
  BY Zenon DEF Init
<1>2. TypeOK
  BY <1>b, ConnectionAssumption DEF Init, TypeOK, ErrReply
<1>3. MutexHeld /\ IdsDrawn /\ OwnReply
  BY <1>1 DEF MutexHeld, IdsDrawn, OwnReply, Inside
<1>4. WireInv
  BY <1>1 DEF Init, WireInv, Idle
<1> QED
  BY <1>b, <1>2, <1>3, <1>4, ConnectionAssumption DEF Init, IInv

-----------------------------------------------------------------------------
(* The actions *)

\* A step that leaves the calls and the REQ socket alone preserves the clauses on them.
LEMMA RpcUnchanged ==
    ASSUME IInv, UNCHANGED rpc, sockOpen' = sockOpen \/ sockOpen' = FALSE
    PROVE  /\ (MutexHeld /\ IdsDrawn /\ WireInv /\ OwnReply)'
           /\ sockOpen' \in BOOLEAN
           /\ (tpc \in [Callers -> {"idle", "lock", "send", "recv", "unlock"}])'
<1>1. MutexHeld' /\ IdsDrawn' /\ OwnReply'
  BY DEF IInv, MutexHeld, IdsDrawn, OwnReply, Inside, rpc
<1>2. WireInv'
  BY DEF IInv, WireInv, Idle, Sole, Broken, rpc
<1> QED BY <1>1, <1>2 DEF IInv, TypeOK, rpc

\* A goroutine that enters Call waits for the mutex, outside of it.
LEMMA EnterInv ==
    ASSUME IInv, NEW t \in Callers, Enter(t), sockOpen' = sockOpen,
           UNCHANGED <<mu, reqId, got, nextId, wireReq, wireRep>>
    PROVE  /\ (MutexHeld /\ IdsDrawn /\ WireInv /\ OwnReply)'
           /\ (tpc \in [Callers -> {"idle", "lock", "send", "recv", "unlock"}])'
<1>1. /\ tpc' \in [Callers -> {"idle", "lock", "send", "recv", "unlock"}]
      /\ \A u \in Callers : u # t => tpc'[u] = tpc[u]
      /\ tpc[t] = "idle" /\ tpc'[t] = "lock"
  BY DEF IInv, TypeOK, Enter
<1>2. MutexHeld' /\ IdsDrawn' /\ OwnReply'
  BY <1>1 DEF IInv, MutexHeld, IdsDrawn, OwnReply, Inside
<1>3. WireInv'
  BY <1>1 DEF IInv, WireInv, Idle, Sole, Broken
<1> QED BY <1>1, <1>2, <1>3

\* A goroutine that leaves Call frees the mutex; what it leaves behind is an
\* empty socket or a broken one, which stays broken.
LEMMA UnlockInv ==
    ASSUME IInv, NEW t \in Callers, Unlock(t), sockOpen' = sockOpen \/ sockOpen' = FALSE
    PROVE  /\ (MutexHeld /\ IdsDrawn /\ WireInv /\ OwnReply)'
           /\ sockOpen' \in BOOLEAN /\ mu' \in Callers \cup {"free"}
           /\ (tpc \in [Callers -> {"idle", "lock", "send", "recv", "unlock"}])'
<1>1. /\ tpc' \in [Callers -> {"idle", "lock", "send", "recv", "unlock"}]
      /\ \A u \in Callers : u # t => tpc'[u] = tpc[u]
      /\ tpc[t] = "unlock" /\ tpc'[t] = "idle" /\ mu' = "free"
      /\ UNCHANGED <<reqId, got, nextId, wireReq, wireRep>>
  BY DEF IInv, TypeOK, Unlock
<1>2. mu = t
  BY <1>1 DEF IInv, MutexHeld, Inside
<1>3. MutexHeld' /\ IdsDrawn' /\ OwnReply'
  BY <1>1, <1>2, FreeIsNobody DEF IInv, MutexHeld, IdsDrawn, OwnReply, Inside
<1>4. WireInv'
  BY <1>1 DEF IInv, WireInv, Idle, Sole, Broken
<1> QED BY <1>1, <1>3, <1>4 DEF IInv

\* Lock draws an id that nothing on the wire carries.
LEMMA LockInv ==
    ASSUME IInv, NEW t \in Callers, Lock(t), sockOpen' = sockOpen
    PROVE  /\ (MutexHeld /\ IdsDrawn /\ WireInv /\ OwnReply)'
           /\ mu' \in Callers \cup {"free"} /\ nextId' \in Nat /\ nextId' >= 1
           /\ reqId' \in [Callers -> Nat] /\ got' \in [Callers -> Nat]
           /\ (tpc \in [Callers -> {"idle", "lock", "send", "recv", "unlock"}])'
<1>1. /\ tpc' \in [Callers -> {"idle", "lock", "send", "recv", "unlock"}]
      /\ \A u \in Callers : u # t => tpc'[u] = tpc[u] /\ reqId'[u] = reqId[u]
      /\ tpc[t] = "lock" /\ tpc'[t] = "send" /\ mu = "free" /\ mu' = t
      /\ reqId'[t] = nextId /\ nextId' = nextId + 1 /\ nextId \in Nat /\ nextId >= 1
      /\ reqId' \in [Callers -> Nat]
      /\ UNCHANGED <<got, wireReq, wireRep>>
  BY DEF IInv, TypeOK, Lock
<1>2. \A u \in Callers : ~Inside(u)
  BY <1>1, FreeIsNobody DEF IInv, MutexHeld
<1>3. MutexHeld' /\ IdsDrawn' /\ OwnReply'
  BY <1>1, <1>2 DEF IInv, MutexHeld, IdsDrawn, OwnReply, Inside
<1>4. WireInv'
  <2>1. ~Sole(nextId)
    <3>1. CASE Idle BY <3>1, SoleUnique
    <3>2. CASE \E i \in 1 .. nextId - 1 : Sole(i) BY <3>2, <1>1, SoleUnique
    <3> QED BY <3>1, <3>2 DEF IInv, WireInv
  <2>2. \A j : Sole(j)' <=> Sole(j)
    BY <1>1 DEF Sole
  <2>3. Idle' <=> Idle BY <1>1 DEF Idle
  <2>4. (Idle \/ \E i \in 1 .. nextId - 1 : Sole(i))'
    BY <1>1, <2>2, <2>3 DEF IInv, WireInv
  <2>5. \A u \in Callers : tpc'[u] # "recv"
    BY <1>1, <1>2 DEF Inside
  <2>6. \A u \in Callers : tpc'[u] = "send" => ~Sole(reqId'[u])
    BY <1>1, <1>2, <2>1 DEF Inside
  <2>7. (~Broken /\ (\A u \in Callers : tpc[u] # "recv") => Idle)'
    BY <1>2, <2>3 DEF IInv, WireInv, Inside, Broken
  <2>8. \A u \in Callers : (tpc[u] = "send" => ~Sole(reqId[u]))'
    BY <2>2, <2>6 DEF Sole
  <2> QED BY <2>4, <2>5, <2>7, <2>8 DEF WireInv
<1> QED BY <1>1, <1>3, <1>4 DEF IInv, TypeOK

\* Send puts the caller's request on an empty wire, or fails on a broken socket.
LEMMA SendInv ==
    ASSUME IInv, NEW t \in Callers, Send(t), sockOpen' = sockOpen
    PROVE  /\ (MutexHeld /\ IdsDrawn /\ WireInv /\ OwnReply)'
           /\ got' \in [Callers -> Nat]
           /\ (tpc \in [Callers -> {"idle", "lock", "send", "recv", "unlock"}])'
           /\ IF Broken THEN tpc'[t] = "unlock" /\ got'[t] = ErrReply
                             /\ wireReq' = wireReq
              ELSE tpc'[t] = "recv" /\ got' = got /\ Idle
                   /\ wireReq' = <<reqId[t]>>
<1>0. /\ tpc \in [Callers -> {"idle", "lock", "send", "recv", "unlock"}]
      /\ got \in [Callers -> Nat]
  BY DEF IInv, TypeOK
<1>1. /\ tpc[t] = "send" /\ mu = t /\ Inside(t) /\ UNCHANGED <<mu, reqId, nextId, wireRep>>
      /\ \A u \in Callers : u # t => ~Inside(u)
  BY DEF IInv, MutexHeld, Inside, Send
<1>2. CASE Broken
  <2>1. /\ got' = [got EXCEPT ![t] = ErrReply] /\ tpc' = [tpc EXCEPT ![t] = "unlock"]
        /\ wireReq' = wireReq
    BY <1>2 DEF Send
  <2>2. /\ tpc' \in [Callers -> {"idle", "lock", "send", "recv", "unlock"}]
        /\ got' \in [Callers -> Nat]
        /\ \A u \in Callers : u # t => tpc'[u] = tpc[u]
        /\ tpc'[t] = "unlock" /\ got'[t] = ErrReply
    BY <1>0, <2>1 DEF ErrReply
  <2>3. MutexHeld' /\ IdsDrawn' /\ OwnReply'
    BY <1>1, <2>1, <2>2 DEF IInv, MutexHeld, IdsDrawn, OwnReply, Inside
  <2>4. WireInv'
    BY <1>1, <1>2, <2>1, <2>2 DEF IInv, WireInv, Idle, Sole, Broken, Inside
  <2> QED BY <1>2, <2>1, <2>2, <2>3, <2>4
<1>3. CASE ~Broken
  <2>1. /\ wireReq' = Append(wireReq, reqId[t]) /\ tpc' = [tpc EXCEPT ![t] = "recv"]
        /\ got' = got
    BY <1>3 DEF Send
  <2>2. /\ tpc' \in [Callers -> {"idle", "lock", "send", "recv", "unlock"}]
        /\ \A u \in Callers : u # t => tpc'[u] = tpc[u]
        /\ tpc'[t] = "recv"
    BY <1>0, <2>1
  <2>3. Idle
    BY <1>1, <1>3 DEF IInv, WireInv, Inside
  <2>4. wireReq' = <<reqId[t]>> /\ wireRep' = <<>>
    BY <1>1, <2>1, <2>3, WireOps DEF Idle
  <2>5. MutexHeld' /\ IdsDrawn' /\ OwnReply'
    BY <1>1, <2>1, <2>2 DEF IInv, MutexHeld, IdsDrawn, OwnReply, Inside
  <2>6. WireInv'
    <3>1. Sole(reqId[t])'
      BY <1>1, <2>4 DEF Sole
    <3>2. reqId[t] \in 1 .. nextId' - 1 /\ reqId' = reqId
      BY <1>1 DEF IInv, IdsDrawn
    <3>3. \A u \in Callers : u # t => tpc'[u] # "recv" /\ tpc'[u] # "send"
      BY <1>1, <2>2 DEF Inside
    <3>4. (\E i \in 1 .. nextId - 1 : Sole(i))'
      BY <1>1, <2>4, <3>2 DEF Sole
    <3> QED BY <2>2, <3>1, <3>2, <3>3, <3>4 DEF WireInv, Sole
  <2> QED BY <1>3, <1>0, <2>1, <2>2, <2>3, <2>4, <2>5, <2>6
<1> QED BY <1>2, <1>3

\* Recv reads the reply to the caller's own request, or the socket's end.
LEMMA RecvInv ==
    ASSUME IInv, NEW t \in Callers, Recv(t), sockOpen' = sockOpen
    PROVE  /\ (MutexHeld /\ IdsDrawn /\ WireInv /\ OwnReply)'
           /\ got' \in [Callers -> Nat]
           /\ (tpc \in [Callers -> {"idle", "lock", "send", "recv", "unlock"}])'
           /\ tpc'[t] = "unlock"
           /\ \/ Broken /\ got'[t] = ErrReply /\ wireRep' = wireRep
              \/ ~Broken /\ got'[t] = reqId[t] /\ wireRep = <<reqId[t]>>
<1>0. /\ tpc \in [Callers -> {"idle", "lock", "send", "recv", "unlock"}]
      /\ got \in [Callers -> Nat] /\ reqId[t] \in Nat
  BY DEF IInv, TypeOK
<1>1. /\ tpc[t] = "recv" /\ mu = t /\ Inside(t) /\ UNCHANGED <<mu, reqId, nextId, wireReq>>
      /\ \A u \in Callers : u # t => ~Inside(u)
      /\ tpc' = [tpc EXCEPT ![t] = "unlock"]
  BY DEF IInv, MutexHeld, Inside, Recv
<1>2. /\ tpc' \in [Callers -> {"idle", "lock", "send", "recv", "unlock"}]
      /\ \A u \in Callers : u # t => tpc'[u] = tpc[u]
      /\ tpc'[t] = "unlock"
  BY <1>0, <1>1
<1>3. Sole(reqId[t])
  BY <1>1 DEF IInv, WireInv
<1>4. CASE Broken
  <2>1. got' = [got EXCEPT ![t] = ErrReply] /\ wireRep' = wireRep
    BY <1>4 DEF Recv
  <2>2. got' \in [Callers -> Nat] /\ got'[t] = ErrReply
    BY <1>0, <2>1 DEF ErrReply
  <2>3. MutexHeld' /\ IdsDrawn' /\ OwnReply'
    BY <1>1, <1>2, <2>2 DEF IInv, MutexHeld, IdsDrawn, OwnReply, Inside
  <2>4. WireInv'
    BY <1>1, <1>2, <1>4, <2>1 DEF IInv, WireInv, Idle, Sole, Broken, Inside
  <2> QED BY <1>2, <1>4, <2>1, <2>2, <2>3, <2>4
<1>5. CASE ~Broken
  <2>1. /\ wireRep # <<>> /\ wireRep' = Tail(wireRep)
        /\ got' = [got EXCEPT ![t] = Head(wireRep)]
    BY <1>5 DEF Recv
  <2>2. wireRep = <<reqId[t]>> /\ wireReq = <<>>
    BY <1>3, <2>1 DEF Sole
  <2>3. wireRep' = <<>> /\ wireReq' = <<>> /\ got' = [got EXCEPT ![t] = reqId[t]]
    BY <1>1, <2>1, <2>2, WireOps
  <2>4. got' \in [Callers -> Nat] /\ got'[t] = reqId[t]
    BY <1>0, <2>3
  <2>5. MutexHeld' /\ IdsDrawn' /\ OwnReply'
    BY <1>1, <1>2, <2>4 DEF IInv, MutexHeld, IdsDrawn, OwnReply, Inside
  <2>6. Idle'
    BY <2>3 DEF Idle
  <2>7. WireInv'
    BY <1>1, <1>2, <2>6 DEF WireInv, Inside
  <2> QED BY <1>2, <1>5, <2>2, <2>4, <2>5, <2>7
<1> QED BY <1>4, <1>5

\* The server turns the only request into the only reply.
LEMMA ServerReplyInv ==
    ASSUME IInv, ServerReply
    PROVE  /\ (MutexHeld /\ IdsDrawn /\ WireInv /\ OwnReply)'
           /\ \E i \in 1 .. nextId - 1 :
                 wireReq = <<i>> /\ wireRep = <<>> /\ wireReq' = <<>> /\ wireRep' = <<i>>
<1>1. /\ wireReq # <<>> /\ UNCHANGED <<mu, tpc, reqId, got, nextId, sockOpen>>
      /\ wireRep' = Append(wireRep, Head(wireReq)) /\ wireReq' = Tail(wireReq)
  BY DEF ServerReply
<1>2. PICK i \in 1 .. nextId - 1 : Sole(i)
  BY <1>1 DEF IInv, WireInv, Idle
<1>3. wireReq = <<i>> /\ wireRep = <<>>
  BY <1>1, <1>2 DEF Sole
<1>4. wireReq' = <<>> /\ wireRep' = <<i>>
  BY <1>1, <1>3, WireOps
<1>5. MutexHeld' /\ IdsDrawn' /\ OwnReply'
  BY <1>1 DEF IInv, MutexHeld, IdsDrawn, OwnReply, Inside
<1>6. \A j : (Sole(j)' <=> i = j) /\ (Sole(j) <=> i = j)
  BY <1>3, <1>4, WireOps DEF Sole
<1>7. ~Idle /\ ~Idle'
  BY <1>3, <1>4, WireOps DEF Idle
<1>8. WireInv'
  <2>1. (\E j \in 1 .. nextId - 1 : Sole(j))'
    BY <1>1, <1>6
  <2>2. \A t \in Callers : (tpc[t] = "recv" => Sole(reqId[t]))'
    BY <1>1, <1>6 DEF IInv, WireInv
  <2>3. \A t \in Callers : (tpc[t] = "send" => ~Sole(reqId[t]))'
    BY <1>1, <1>6 DEF IInv, WireInv
  <2>4. (~Broken /\ (\A t \in Callers : tpc[t] # "recv") => Idle)'
    BY <1>1, <1>7 DEF IInv, WireInv, Broken
  <2> QED BY <2>1, <2>2, <2>3, <2>4 DEF WireInv
<1> QED BY <1>3, <1>4, <1>5, <1>8

\* Every step of the client, the server and the user preserves the invariant.
THEOREM StepInv == IInv /\ [Next]_vars => IInv'
<1> SUFFICES ASSUME IInv, [Next]_vars PROVE IInv' OBVIOUS
<1> USE FreeIsNobody DEF IInv
<1>1. CASE MainCall
  BY <1>1, EnterInv DEF MainCall, TypeOK, ctxs
<1>2. CASE MainReturn
  <2>1. sockOpen' = sockOpen \/ sockOpen' = FALSE
    BY <1>2 DEF MainReturn
  <2>2. subSockOpen' \in BOOLEAN
    BY <1>2, Zenon DEF MainReturn
  <2> QED BY <1>2, <2>1, <2>2, UnlockInv DEF MainReturn, Unlock, TypeOK, ctxs
<1>3. CASE Dispatch
  <2>1. command' \in BOOLEAN
    BY <1>3, Zenon DEF Dispatch
  <2> QED BY <1>3, <2>1, RpcUnchanged DEF Dispatch, TypeOK, ctxs, rpc
<1>4. CASE Interrupt
  <2>1. procCtx' \in BOOLEAN
    BY <1>4, Zenon DEF Interrupt
  <2> QED BY <1>4, <2>1, RpcUnchanged DEF Interrupt, TypeOK, rpc
<1>5. CASE CloseSub
  <2>1. subCtx' \in BOOLEAN /\ subSockOpen' \in BOOLEAN
    BY <1>5, Zenon DEF CloseSub
  <2> QED BY <1>5, <2>1, RpcUnchanged DEF CloseSub, TypeOK, rpc
<1>6. CASE CloseConn
  BY <1>6, RpcUnchanged DEF CloseConn, TypeOK, ctxs, rpc
<1>7. CASE SubCheck
  BY <1>7, RpcUnchanged DEF SubCheck, TypeOK, ctxs, rpc
<1>8. CASE SubRecv
  <2>0. /\ UNCHANGED <<phase, command, ctxs, mu, reqId, got, nextId, wireReq, wireRep,
                       sockOpen, subSockOpen, published>>
        /\ pending' \in 0 .. MaxMsgs /\ pending' <= published
    BY <1>8, ConnectionAssumption DEF SubRecv, TypeOK
  <2>1. CASE spc' = "check" /\ UNCHANGED tpc
    BY <2>0, <2>1, RpcUnchanged DEF TypeOK, ctxs, rpc
  <2>2. CASE spc' = "pull" /\ Enter("sub")
    BY <2>0, <2>2, EnterInv DEF TypeOK, ctxs
  <2> QED BY <1>8, <2>1, <2>2 DEF SubRecv
<1>9. CASE SubRecvError
  BY <1>9, RpcUnchanged DEF SubRecvError, TypeOK, ctxs, rpc
<1>10. CASE SubPulled
  BY <1>10, UnlockInv DEF SubPulled, Unlock, TypeOK, ctxs
<1>11. CASE ServerReply
  BY <1>11, ServerReplyInv DEF ServerReply, TypeOK, ctxs
<1>12. CASE ServerPublish
  BY <1>12, RpcUnchanged, ConnectionAssumption DEF ServerPublish, TypeOK, ctxs, rpc
<1>13. ASSUME NEW t \in Callers, Rpc(t) PROVE IInv'
  <2>0. UNCHANGED <<phase, command, ctxs, sockOpen, subSockOpen, spc, published, pending>>
    BY <1>13 DEF Rpc
  <2>1. CASE Lock(t)
    BY <2>0, <2>1, LockInv DEF Lock, TypeOK, ctxs
  <2>2. CASE Send(t)
    <3>1. UNCHANGED <<mu, reqId, nextId>>
      BY <2>2 DEF Send
    <3> QED BY <2>0, <2>2, <3>1, SendInv DEF TypeOK, ctxs
  <2>3. CASE Recv(t)
    <3>1. UNCHANGED <<mu, reqId, nextId>>
      BY <2>3 DEF Recv
    <3> QED BY <2>0, <2>3, <3>1, RecvInv DEF TypeOK, ctxs
  <2>4. CASE Unlock(t)
    BY <2>0, <2>4, UnlockInv DEF Unlock, TypeOK, ctxs
  <2> QED BY <1>13, <2>1, <2>2, <2>3, <2>4 DEF Rpc
<1>14. ASSUME NEW t \in Callers, Poll(t) PROVE IInv'
  BY <1>14, EnterInv DEF Poll, TypeOK, ctxs
<1>15. CASE UNCHANGED vars
  BY <1>15, RpcUnchanged DEF vars, TypeOK, ctxs, rpc
<1> QED
  BY <1>1, <1>2, <1>3, <1>4, <1>5, <1>6, <1>7, <1>8, <1>9, <1>10, <1>11, <1>12, <1>13,
     <1>14, <1>15 DEF Next, Subscriber

\* The inductive invariant holds of every behaviour of the client.
THEOREM Invariance == Spec => []IInv
BY InitInv, StepInv, PTL DEF Spec

\* Type correctness of the client's state, with the receive queue within bounds.
THEOREM TypeCorrect == Spec => []TypeOK
BY Invariance, PTL DEF IInv

\* Connection.Call's comment, for every number of goroutines and calls: on a
\* working socket at most one request is under way, and a caller never leaves
\* roundTrip with another caller's reply.
THEOREM LockStepHolds == Spec => []LockStep
<1>1. ASSUME IInv PROVE LockStep
  <2>1. Len(wireReq) + Len(wireRep) <= 1
    <3>1. Len(<<>>) = 0 OBVIOUS
    <3>2. CASE Idle BY <3>1, <3>2 DEF Idle
    <3>3. ASSUME NEW i, Sole(i) PROVE Len(wireReq) + Len(wireRep) <= 1
      <4>1. Len(<<i>>) = 1 BY WireOps
      <4>2. CASE wireReq = <<i>> /\ wireRep = <<>>
        BY <3>1, <4>1, <4>2
      <4>3. CASE wireReq = <<>> /\ wireRep = <<i>>
        BY <3>1, <4>1, <4>3
      <4> QED BY <3>3, <4>2, <4>3 DEF Sole
    <3> QED BY <1>1, <3>2, <3>3 DEF IInv, WireInv
  <2> QED BY <1>1, <2>1 DEF IInv, OwnReply, LockStep
<1> QED BY <1>1, Invariance, PTL

-----------------------------------------------------------------------------
(* Connection.Call implements RpcService *)

ViewTable(t) ==
    /\ tpc[t] = "idle" => CallView[t] = "idle"
    /\ tpc[t] \in {"lock", "send"} => CallView[t] = "pending"
    /\ tpc[t] = "recv" => CallView[t] = IF Answered(t) THEN "served" ELSE "pending"
    /\ tpc[t] = "unlock" => CallView[t] = IF got[t] = ErrReply THEN "failed" ELSE "served"

\* The view of one caller, before and after a step, by the place it is at.
LEMMA ViewCases == \A t \in Callers : ViewTable(t) /\ ViewTable(t)'
<1> SUFFICES ASSUME NEW t \in Callers PROVE ViewTable(t) /\ ViewTable(t)' OBVIOUS
<1>1. CallView[t] = View(t) /\ CallView'[t] = View(t)'
  BY DEF CallView
<1>2. ViewTable(t) BY <1>1 DEF View, ViewTable
<1>3. ViewTable(t)' BY <1>1 DEF View, ViewTable
<1> QED BY <1>2, <1>3

\* A caller in recv is answered exactly when its reply is on the wire.
LEMMA AnsweredCases ==
    ASSUME NEW t \in Callers
    PROVE  /\ wireRep = <<>> => ~Answered(t)
           /\ wireRep = <<reqId[t]>> => Answered(t)
           /\ wireRep' = <<>> => ~Answered(t)'
           /\ wireRep' = <<reqId'[t]>> => Answered(t)'
<1>1. Len(<<reqId[t]>>) = 1 /\ <<reqId[t]>>[1] = reqId[t]
      /\ Len(<<reqId'[t]>>) = 1 /\ <<reqId'[t]>>[1] = reqId'[t] /\ Len(<<>>) = 0
  BY WireOps
<1> QED BY <1>1 DEF Answered

\* A view changes only with what it is computed from.
LEMMA ViewUnchanged ==
    ASSUME NEW t \in Callers, tpc'[t] = tpc[t], got'[t] = got[t],
           tpc[t] = "recv" => reqId'[t] = reqId[t] /\ wireRep' = wireRep
    PROVE  CallView'[t] = CallView[t]
<1>1. tpc[t] = "recv" => (Answered(t)' <=> Answered(t))
  BY DEF Answered
<1>2. View(t)' = View(t)
  <2>1. CASE tpc[t] = "recv" BY <2>1, <1>1 DEF View
  <2>2. CASE tpc[t] # "recv" BY <2>2, <1>1 DEF View
  <2> QED BY <2>1, <2>2
<1> QED BY <1>2 DEF CallView

\* What changes the view of one caller alone is a step of RpcService at it.
LEMMA ViewStep ==
    ASSUME NEW t \in Callers, \A u \in Callers : u # t => CallView'[u] = CallView[u]
    PROVE  CallView' = [CallView EXCEPT ![t] = CallView'[t]]
BY DEF CallView

\* Entering Call is an Invoke.
LEMMA EnterRefines ==
    ASSUME IInv, NEW t \in Callers, Enter(t), UNCHANGED <<reqId, got, wireRep>>
    PROVE  Abstract!Invoke(t)
<1>1. /\ tpc[t] = "idle" /\ tpc'[t] = "lock"
      /\ \A u \in Callers : u # t => tpc'[u] = tpc[u]
  BY DEF IInv, TypeOK, Enter
<1>2. \A u \in Callers : u # t => CallView'[u] = CallView[u]
  BY <1>1, ViewUnchanged
<1>3. CallView[t] = "idle" /\ CallView'[t] = "pending"
  BY <1>1, ViewCases DEF ViewTable
<1> QED BY <1>2, <1>3, ViewStep DEF Abstract!Invoke

\* Leaving it is a Return.
LEMMA UnlockRefines ==
    ASSUME IInv, NEW t \in Callers, Unlock(t)
    PROVE  Abstract!Return(t)
<1>1. /\ tpc[t] = "unlock" /\ tpc'[t] = "idle"
      /\ UNCHANGED <<reqId, got, wireRep>>
      /\ \A u \in Callers : u # t => tpc'[u] = tpc[u]
  BY DEF IInv, TypeOK, Unlock
<1>2. \A u \in Callers : u # t => CallView'[u] = CallView[u]
  BY <1>1, ViewUnchanged
<1>3. CallView[t] \in {"served", "failed"} /\ CallView'[t] = "idle"
  BY <1>1, ViewCases DEF ViewTable
<1> QED BY <1>2, <1>3, ViewStep DEF Abstract!Return

\* Taking the mutex is invisible.
LEMMA LockRefines ==
    ASSUME IInv, NEW t \in Callers, Lock(t)
    PROVE  CallView' = CallView
<1>1. /\ tpc[t] = "lock" /\ tpc'[t] = "send"
      /\ UNCHANGED <<got, wireRep>>
      /\ \A u \in Callers : u # t => tpc'[u] = tpc[u] /\ reqId'[u] = reqId[u]
  BY DEF IInv, TypeOK, Lock
<1>2. \A u \in Callers : u # t => CallView'[u] = CallView[u]
  BY <1>1, ViewUnchanged
<1>3. CallView[t] = "pending" /\ CallView'[t] = "pending"
  BY <1>1, ViewCases DEF ViewTable
<1> QED BY <1>2, <1>3 DEF CallView

\* Sending is invisible, or the call fails.
LEMMA SendRefines ==
    ASSUME IInv, NEW t \in Callers, Send(t), sockOpen' = sockOpen
    PROVE  Abstract!Fail(t) \/ CallView' = CallView
<1>1. /\ tpc[t] = "send" /\ UNCHANGED <<reqId, wireRep>>
      /\ \A u \in Callers : u # t => tpc'[u] = tpc[u] /\ got'[u] = got[u]
  BY DEF IInv, TypeOK, Send
<1>2. \A u \in Callers : u # t => CallView'[u] = CallView[u]
  BY <1>1, ViewUnchanged
<1>3. CallView[t] = "pending"
  BY <1>1, ViewCases DEF ViewTable
<1>4. CASE Broken
  <2>1. CallView'[t] = "failed"
    BY <1>4, SendInv, ViewCases DEF ViewTable
  <2> QED BY <1>2, <1>3, <2>1, ViewStep DEF Abstract!Fail
<1>5. CASE ~Broken
  <2>1. tpc'[t] = "recv" /\ wireRep' = <<>>
    BY <1>1, <1>5, SendInv DEF Idle
  <2>2. CallView'[t] = "pending"
    BY <2>1, AnsweredCases, ViewCases DEF ViewTable
  <2> QED BY <1>2, <1>3, <2>2 DEF CallView
<1> QED BY <1>4, <1>5

\* Reading one's own reply is invisible, since it was served when it was put on
\* the wire; the socket's end fails the call, served or not.
LEMMA RecvRefines ==
    ASSUME IInv, NEW t \in Callers, Recv(t), sockOpen' = sockOpen
    PROVE  Abstract!Fail(t) \/ CallView' = CallView
<1>1. /\ tpc[t] = "recv" /\ reqId' = reqId /\ tpc'[t] = "unlock"
      /\ \A u \in Callers : u # t => tpc'[u] = tpc[u] /\ got'[u] = got[u]
  BY DEF IInv, TypeOK, Recv
<1>2. \A u \in Callers : u # t => tpc[u] # "recv"
  BY <1>1 DEF IInv, MutexHeld, Inside
<1>3. \A u \in Callers : u # t => CallView'[u] = CallView[u]
  BY <1>1, <1>2, ViewUnchanged
<1>4. CASE Broken
  <2>1. CallView'[t] = "failed"
    BY <1>4, RecvInv, ViewCases DEF ViewTable
  <2>2. CallView[t] \in {"pending", "served"}
    BY <1>1, ViewCases DEF ViewTable
  <2> QED BY <1>3, <2>1, <2>2, ViewStep DEF Abstract!Fail
<1>5. CASE ~Broken
  <2>1. got'[t] = reqId[t] /\ wireRep = <<reqId[t]>>
    BY <1>5, RecvInv
  <2>2. got'[t] # ErrReply
    BY <1>1, <2>1 DEF IInv, IdsDrawn, Inside, ErrReply
  <2>3. CallView'[t] = "served"
    BY <1>1, <2>2, ViewCases DEF ViewTable
  <2>4. CallView[t] = "served"
    BY <1>1, <2>1, AnsweredCases, ViewCases DEF ViewTable
  <2> QED BY <1>3, <2>3, <2>4 DEF CallView
<1> QED BY <1>4, <1>5

\* Answering a request serves the caller that waits for it.  A request whose
\* caller has given up on a broken socket is answered unseen.
LEMMA ServerReplyRefines ==
    ASSUME IInv, ServerReply
    PROVE  (\E t \in Callers : Abstract!Serve(t)) \/ CallView' = CallView
<1>1. UNCHANGED <<tpc, reqId, got>>
  BY DEF ServerReply
<1>2. PICK i \in 1 .. nextId - 1 :
         wireReq = <<i>> /\ wireRep = <<>> /\ wireReq' = <<>> /\ wireRep' = <<i>>
  BY ServerReplyInv
<1>3. CASE \E t \in Callers : tpc[t] = "recv"
  <2>1. PICK t \in Callers : tpc[t] = "recv"
    BY <1>3
  <2>2. \A u \in Callers : u # t => tpc[u] # "recv"
    BY <2>1 DEF IInv, MutexHeld, Inside
  <2>3. \A u \in Callers : u # t => CallView'[u] = CallView[u]
    BY <1>1, <2>2, ViewUnchanged
  <2>4. i = reqId[t]
    BY <1>2, <2>1, WireOps DEF IInv, WireInv, Sole
  <2>5. CallView[t] = "pending"
    BY <1>2, <2>1, AnsweredCases, ViewCases DEF ViewTable
  <2>6. CallView'[t] = "served"
    BY <1>1, <1>2, <2>1, <2>4, AnsweredCases, ViewCases DEF ViewTable
  <2> QED BY <2>3, <2>5, <2>6, ViewStep DEF Abstract!Serve
<1>4. CASE \A t \in Callers : tpc[t] # "recv"
  <2>1. \A u \in Callers : CallView'[u] = CallView[u]
    BY <1>1, <1>4, ViewUnchanged
  <2> QED BY <2>1 DEF CallView
<1> QED BY <1>3, <1>4

\* Every step of the client is a step of RpcService or leaves its view alone.
THEOREM StepRefines == IInv /\ [Next]_vars => [Abstract!Next]_CallView
<1> SUFFICES ASSUME IInv, [Next]_vars PROVE Abstract!Next \/ CallView' = CallView
  OBVIOUS
<1> USE FreeIsNobody
<1>0. ASSUME UNCHANGED <<tpc, reqId, got, wireRep>> PROVE CallView' = CallView
  <2>1. \A u \in Callers : CallView'[u] = CallView[u]
    BY <1>0, ViewUnchanged
  <2> QED BY <2>1 DEF CallView
<1>1. CASE MainCall
  BY <1>1, EnterRefines DEF MainCall, Abstract!Next
<1>2. CASE MainReturn \/ SubPulled
  BY <1>2, UnlockRefines DEF MainReturn, SubPulled, Abstract!Next
<1>3. CASE Dispatch \/ Interrupt \/ CloseSub \/ CloseConn
  BY <1>3, <1>0 DEF Dispatch, Interrupt, CloseSub, CloseConn, rpc
<1>4. CASE SubCheck \/ SubRecvError \/ ServerPublish
  BY <1>4, <1>0 DEF SubCheck, SubRecvError, ServerPublish, rpc
<1>5. CASE SubRecv
  BY <1>5, <1>0, EnterRefines DEF SubRecv, Abstract!Next
<1>6. CASE ServerReply
  BY <1>6, ServerReplyRefines DEF Abstract!Next
<1>7. ASSUME NEW t \in Callers, Rpc(t) PROVE Abstract!Next \/ CallView' = CallView
  <2>1. sockOpen' = sockOpen
    BY <1>7 DEF Rpc
  <2> QED
    BY <1>7, <2>1, LockRefines, SendRefines, RecvRefines, UnlockRefines
    DEF Rpc, Abstract!Next
<1>8. ASSUME NEW t \in Callers, Poll(t) PROVE Abstract!Next
  BY <1>8, EnterRefines DEF Poll, Abstract!Next
<1>9. CASE UNCHANGED vars
  BY <1>9, <1>0 DEF vars, rpc
<1> QED
  BY <1>1, <1>2, <1>3, <1>4, <1>5, <1>6, <1>7, <1>8, <1>9 DEF Next, Subscriber

\* Connection.Call implements RpcService for any number of goroutines: a call is
\* executed at most once and returns the result of that execution or an error,
\* whatever the other goroutines, the user and Close do.
THEOREM CallImplementsRpcService == Spec => ImplementsRpcService
<1>1. Init => Abstract!Init
  <2> SUFFICES ASSUME Init PROVE Abstract!Init OBVIOUS
  <2>1. \A t \in Callers : tpc[t] = "idle"
    BY DEF Init
  <2>2. \A t \in Callers : CallView[t] = "idle"
    BY <2>1, ViewCases DEF ViewTable
  <2> QED BY <2>2 DEF Abstract!Init, CallView
<1> QED
  BY <1>1, Invariance, StepRefines, PTL DEF Spec, ImplementsRpcService, Abstract!Spec
=============================================================================
