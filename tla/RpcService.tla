----------------------------- MODULE RpcService ------------------------------
(***************************************************************************)
(* What Connection.Call promises its callers: a call is executed by the    *)
(* server at most once, and returns the result of that very execution or   *)
(* an error, independently of the calls other goroutines make.             *)
(***************************************************************************)
CONSTANT Callers
VARIABLE call    \* per goroutine: idle, pending, served or failed

Init == call = [t \in Callers |-> "idle"]

Invoke(t) == call[t] = "idle"    /\ call' = [call EXCEPT ![t] = "pending"]
Serve(t)  == call[t] = "pending" /\ call' = [call EXCEPT ![t] = "served"]
Fail(t)   == call[t] \in {"pending", "served"} /\ call' = [call EXCEPT ![t] = "failed"]
Return(t) == call[t] \in {"served", "failed"} /\ call' = [call EXCEPT ![t] = "idle"]

Next == \E t \in Callers : Invoke(t) \/ Serve(t) \/ Fail(t) \/ Return(t)

Spec == Init /\ [][Next]_call
=============================================================================
