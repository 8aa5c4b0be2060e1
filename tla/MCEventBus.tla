----------------------------- MODULE MCEventBus ------------------------------
(* EventBus with two waiters, one for each port or both for the first one:   *)
(* then the second port's events are noise in their buffers.                 *)
EXTENDS EventBus

MCPorts       == {1, 2}
MCWaiters     == {"a", "b"}
MCAssignments == {[a |-> 1, b |-> 2], [a |-> 1, b |-> 1]}
=============================================================================
