----------------------------- MODULE Connection ------------------------------
(***************************************************************************)
(* The life of a client: the shared REQ connection (pkg/rpc/connection.go) *)
(* with its mutex, the subscriber goroutine of pkg/rpc/subscriber.go, and  *)
(* Connect and Close of pkg/session/client.go, under the contexts that     *)
(* cmd/trexc/main.go and pkg/cli/shell.go give them.                       *)
(*                                                                         *)
(* Requests and replies are request ids.  The server answers in order; the *)
(* client never compares a reply's id with the request's, so which reply a *)
(* caller reads is decided by the mutex alone.                             *)
(***************************************************************************)
EXTENDS Integers, Sequences, FiniteSets

CONSTANTS
    Pollers,     \* goroutines beside main and sub that call (TUI status)
    MaxCalls,    \* bound: requests built
    MaxMsgs,     \* bound: messages published by the server
    Interrupts   \* when Ctrl-C may be typed: during "connect", a "command"

ASSUME ConnectionAssumption ==
    /\ {"main", "sub", "free"} \cap Pollers = {}
    /\ MaxCalls \in Nat /\ MaxMsgs \in Nat /\ Interrupts \subseteq {"connect", "command"}

Callers == {"main", "sub"} \cup Pollers

VARIABLES
    phase,           \* main: handshake, up, waitSub, closed, failed
    command,         \* main is running a command of the shell
    procCtx,         \* signal.NotifyContext's context is cancelled
    subCtx,          \* Client.subCtx is cancelled by Close
    mu,              \* Connection.mu: its holder or "free"
    sockOpen, subSockOpen,
    tpc,             \* where each goroutine is in Call
    reqId, got,      \* its request id and the reply it read
    nextId,
    wireReq, wireRep,
    spc,             \* Subscriber.Run
    published,       \* messages the server has published
    pending          \* those the subscriber has not received

rpc  == <<mu, tpc, reqId, got, nextId, wireReq, wireRep>>
ctxs == <<procCtx, subCtx>>
vars == <<phase, command, ctxs, rpc, sockOpen, subSockOpen, spc, published, pending>>

ErrReply == 0

Init ==
    /\ phase = "handshake" /\ command = FALSE
    /\ procCtx = FALSE /\ subCtx = FALSE
    /\ mu = "free" /\ sockOpen = TRUE /\ subSockOpen = FALSE
    /\ tpc = [t \in Callers |-> "idle"]
    /\ reqId = [t \in Callers |-> 0] /\ got = [t \in Callers |-> ErrReply]
    /\ nextId = 1 /\ wireReq = <<>> /\ wireRep = <<>>
    /\ spc = "none" /\ published = 0 /\ pending = 0

-----------------------------------------------------------------------------
(* Connection.Call *)

\* The context of the SUB socket is the one Run checks as well.
Broken    == ~sockOpen
SubBroken == ~subSockOpen \/ procCtx \/ subCtx

Enter(t) == tpc[t] = "idle" /\ tpc' = [tpc EXCEPT ![t] = "lock"]

\* c.mu.Lock and BuildRequest, which draws a fresh id.
Lock(t) ==
    /\ tpc[t] = "lock" /\ mu = "free"
    /\ mu' = t
    /\ reqId' = [reqId EXCEPT ![t] = nextId] /\ nextId' = nextId + 1
    /\ tpc' = [tpc EXCEPT ![t] = "send"]
    /\ UNCHANGED <<got, wireReq, wireRep>>

SendUnlocks(t) ==
    /\ tpc[t] = "send"
    /\ IF Broken
       THEN got' = [got EXCEPT ![t] = ErrReply] /\ tpc' = [tpc EXCEPT ![t] = "unlock"]
            /\ UNCHANGED <<mu, wireReq>>
       ELSE wireReq' = Append(wireReq, reqId[t]) /\ tpc' = [tpc EXCEPT ![t] = "recv"]
            /\ mu' = "free" /\ UNCHANGED got
    /\ UNCHANGED <<reqId, nextId, wireRep>>

\* roundTrip, first half.
Send(t) ==
    /\ tpc[t] = "send"
    /\ IF Broken
       THEN got' = [got EXCEPT ![t] = ErrReply] /\ tpc' = [tpc EXCEPT ![t] = "unlock"]
            /\ UNCHANGED wireReq
       ELSE wireReq' = Append(wireReq, reqId[t]) /\ tpc' = [tpc EXCEPT ![t] = "recv"]
            /\ UNCHANGED got
    /\ UNCHANGED <<mu, reqId, nextId, wireRep>>

RecvResends(t) ==
    /\ tpc[t] = "recv"
    /\ \/ /\ ~Broken /\ wireRep # <<>>
          /\ got' = [got EXCEPT ![t] = Head(wireRep)] /\ wireRep' = Tail(wireRep)
          /\ tpc' = [tpc EXCEPT ![t] = "unlock"]
       \/ /\ Broken
          /\ tpc' = [tpc EXCEPT ![t] = "send"] /\ UNCHANGED <<got, wireRep>>
    /\ UNCHANGED <<mu, reqId, nextId, wireReq>>

\* roundTrip, second half: the oldest reply on the socket, or the socket's end.
Recv(t) ==
    /\ tpc[t] = "recv"
    /\ \/ /\ ~Broken /\ wireRep # <<>>
          /\ got' = [got EXCEPT ![t] = Head(wireRep)] /\ wireRep' = Tail(wireRep)
       \/ /\ Broken
          /\ got' = [got EXCEPT ![t] = ErrReply] /\ UNCHANGED wireRep
    /\ tpc' = [tpc EXCEPT ![t] = "unlock"]
    /\ UNCHANGED <<mu, reqId, nextId, wireReq>>

Unlock(t) ==
    /\ tpc[t] = "unlock"
    /\ mu' = "free"
    /\ tpc' = [tpc EXCEPT ![t] = "idle"]
    /\ UNCHANGED <<reqId, got, nextId, wireReq, wireRep>>

Rpc(t) ==
    /\ Lock(t) \/ Send(t) \/ Recv(t) \/ (t # "main" /\ t # "sub" /\ Unlock(t))
    /\ UNCHANGED <<phase, command, ctxs, sockOpen, subSockOpen, spc, published, pending>>

\* The server executes the oldest request and answers it.
ServerReply ==
    /\ wireReq # <<>>
    /\ wireRep' = Append(wireRep, Head(wireReq)) /\ wireReq' = Tail(wireReq)
    /\ UNCHANGED <<phase, command, ctxs, mu, tpc, reqId, got, nextId, sockOpen,
                   subSockOpen, spc, published, pending>>

-----------------------------------------------------------------------------
(* main: Connect, the commands of a shell, Close *)

\* A call of main: the handshake, or an RPC of the running command.
MainCall ==
    /\ phase = "handshake" \/ (phase = "up" /\ command)
    /\ nextId <= MaxCalls
    /\ Enter("main")
    /\ UNCHANGED <<phase, command, ctxs, mu, reqId, got, nextId, wireReq, wireRep,
                   sockOpen, subSockOpen, spc, published, pending>>

\* Connect goes on once api_sync_v2 is answered: the subscriber is started.  An
\* error, of the handshake or of NewSubscriber, closes the connection.
MainReturn ==
    /\ Unlock("main")
    /\ \/ /\ phase = "handshake" /\ got["main"] # ErrReply
          /\ phase' = "up" /\ spc' = "check" /\ subSockOpen' = TRUE
          /\ UNCHANGED sockOpen
       \/ /\ phase = "handshake"
          /\ phase' = "failed" /\ sockOpen' = FALSE
          /\ UNCHANGED <<spc, subSockOpen>>
       \/ /\ phase = "up"
          /\ UNCHANGED <<phase, spc, subSockOpen, sockOpen>>
    /\ UNCHANGED <<command, ctxs, published, pending>>

\* Shell.dispatch starts a command, which ends between two of its calls.
Dispatch ==
    /\ phase = "up" /\ tpc["main"] = "idle"
    /\ command' = ~command
    /\ UNCHANGED <<phase, ctxs, rpc, sockOpen, subSockOpen, spc, published, pending>>

\* SIGINT while the handshake or a command runs.  At the prompt the terminal is
\* raw.  It cancels the command's context and also the process-wide one, with
\* which the sockets were dialled; whether the ZMQ library then breaks the REQ
\* socket is left open.
Interrupt ==
    /\ ~procCtx
    /\ \/ "connect" \in Interrupts /\ phase = "handshake"
       \/ "command" \in Interrupts /\ command
    /\ procCtx' = TRUE
    /\ sockOpen' \in {sockOpen, FALSE}
    /\ UNCHANGED <<phase, command, subCtx, rpc, subSockOpen, spc, published, pending>>

CloseWithoutCancel ==
    /\ phase = "up" /\ ~command
    /\ phase' = "waitSub"
    /\ UNCHANGED <<command, ctxs, rpc, sockOpen, subSockOpen, spc, published, pending>>

\* Close: subCancel and sub.Close ...
CloseSub ==
    /\ phase = "up" /\ ~command
    /\ phase' = "waitSub"
    /\ subCtx' = TRUE /\ subSockOpen' = FALSE
    /\ UNCHANGED <<command, procCtx, rpc, sockOpen, spc, published, pending>>

\* ... then <-subDone and conn.Close.
CloseConn ==
    /\ phase = "waitSub" /\ spc = "exited"
    /\ phase' = "closed" /\ sockOpen' = FALSE
    /\ UNCHANGED <<command, ctxs, rpc, subSockOpen, spc, published, pending>>

-----------------------------------------------------------------------------
(* Pollers and the subscriber *)

Poll(t) ==
    /\ t \in Pollers /\ phase \notin {"handshake", "failed"} /\ nextId <= MaxCalls
    /\ Enter(t)
    /\ UNCHANGED <<phase, command, ctxs, mu, reqId, got, nextId, wireReq, wireRep,
                   sockOpen, subSockOpen, spc, published, pending>>

\* The top of the loop of Run.
SubCheck ==
    /\ spc = "check"
    /\ spc' = IF subCtx \/ procCtx THEN "exited" ELSE "recv"
    /\ UNCHANGED <<phase, command, ctxs, rpc, sockOpen, subSockOpen, published, pending>>

\* A stats message is dispatched; an empty trigger starts a pull.
SubRecv ==
    /\ spc = "recv" /\ pending > 0 /\ ~SubBroken
    /\ pending' = pending - 1
    /\ \/ spc' = "check" /\ UNCHANGED tpc
       \/ spc' = "pull" /\ Enter("sub")
    /\ UNCHANGED <<phase, command, ctxs, mu, reqId, got, nextId, wireReq, wireRep,
                   sockOpen, subSockOpen, published>>

\* Recv fails: closed by Close or cancelled.  Run returns for good.
SubRecvError ==
    /\ spc = "recv" /\ SubBroken
    /\ spc' = "exited"
    /\ UNCHANGED <<phase, command, ctxs, rpc, sockOpen, subSockOpen, published, pending>>

\* get_async_events returned; its error is only reported.
SubPulled ==
    /\ spc = "pull" /\ Unlock("sub")
    /\ spc' = "check"
    /\ UNCHANGED <<phase, command, ctxs, sockOpen, subSockOpen, published, pending>>

ServerPublish ==
    /\ subSockOpen /\ published < MaxMsgs
    /\ published' = published + 1 /\ pending' = pending + 1
    /\ UNCHANGED <<phase, command, ctxs, rpc, sockOpen, subSockOpen, spc>>

Subscriber == SubCheck \/ SubRecv \/ SubRecvError \/ SubPulled

Next ==
    \/ MainCall \/ MainReturn \/ Dispatch \/ Interrupt \/ CloseSub \/ CloseConn
    \/ Subscriber \/ ServerReply \/ ServerPublish
    \/ \E t \in Callers : Rpc(t) \/ Poll(t)

Spec == Init /\ [][Next]_vars

\* The server answers, goroutines run and the mutex is granted in turn.
FairSpec ==
    /\ Spec
    /\ WF_vars(ServerReply) /\ WF_vars(Subscriber)
    /\ WF_vars(CloseConn) /\ WF_vars(MainReturn)
    /\ \A t \in Callers : SF_vars(Rpc(t))

-----------------------------------------------------------------------------
(* Properties *)

\* Types of the client's state; the mutex is held by whoever is inside Call.
TypeOK ==
    /\ phase \in {"handshake", "up", "waitSub", "closed", "failed"}
    /\ command \in BOOLEAN /\ procCtx \in BOOLEAN /\ subCtx \in BOOLEAN
    /\ mu \in Callers \cup {"free"}
    /\ tpc \in [Callers -> {"idle", "lock", "send", "recv", "unlock"}]
    /\ reqId \in [Callers -> Nat] /\ got \in [Callers -> Nat] /\ nextId \in Nat
    /\ spc \in {"none", "check", "recv", "pull", "exited"}
    /\ pending \in 0 .. MaxMsgs

\* "holding it across send/recv preserves the lock-step invariant with no
\* races": while the socket works at most one request is under way and whoever
\* reads a reply reads the one to its own request, though ids are not compared.
LockStep ==
    /\ ~Broken => Len(wireReq) + Len(wireRep) <= 1
    /\ \A t \in Callers : tpc[t] = "unlock" => got[t] \in {ErrReply, reqId[t]}

\* The view of RpcService: a call is served once the reply to its request is on
\* the wire or read.
Answered(t) == \E n \in 1 .. Len(wireRep) : wireRep[n] = reqId[t]

View(t) ==
    CASE tpc[t] = "idle" -> "idle"
      [] tpc[t] = "lock" \/ tpc[t] = "send" -> "pending"
      [] tpc[t] = "recv" -> IF Answered(t) THEN "served" ELSE "pending"
      [] tpc[t] = "unlock" -> IF got[t] = ErrReply THEN "failed" ELSE "served"

CallView == [t \in Callers |-> View(t)]

Abstract == INSTANCE RpcService WITH call <- CallView

\* Every goroutine's view of the shared connection is that of a private one:
\* the mutex and the socket implement RpcService.
ImplementsRpcService == Abstract!Spec

\* Close returns: the subscriber leaves a pending receive or pull, whatever
\* calls are queued on the mutex, so long as the server answers.
CloseReturns == (phase = "waitSub") ~> (phase = "closed")

\* "an interrupt stops the running command [...] without tearing down the
\* shell": as long as the shell is up the subscriber feeds it.
SubscriberOutlivesCommand == phase = "up" => spc # "exited"

=============================================================================
