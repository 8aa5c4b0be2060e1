----------------------------- MODULE MCCliPorts ------------------------------
(* CliPorts on two ports and two profiles; one profile has no stream for the *)
(* second port's direction.                                                  *)
EXTENDS CliPorts

MCPorts      == {1, 2}
MCStreamsFor == [two |-> [p \in MCPorts |-> {"s1", "s2"}],
                 one |-> [p \in MCPorts |-> IF p = 1 THEN {"s3"} ELSE {}]]
BothPorts    == {<<1, 2>>}
=============================================================================
