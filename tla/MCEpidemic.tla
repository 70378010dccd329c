----------------------------- MODULE MCEpidemic -----------------------------
(***************************************************************************)
(* An instance of Epidemic for TLC: bundles for node d from node n1, from  *)
(* an application here, and a status report of this node.                  *)
(***************************************************************************)
EXTENDS Epidemic, TLC

CONSTANTS d, n1, n2, nobody, relayed

MCDest == [b \in Bundles |-> d]
MCPrev == [b \in Bundles |-> IF b = relayed THEN n1 ELSE nobody]

\* One bundle at a time.
Alone == {{b} : b \in Bundles}
=============================================================================
