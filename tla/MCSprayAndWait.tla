--------------------------- MODULE MCSprayAndWait ---------------------------
(***************************************************************************)
(* Instances of SprayAndWait for TLC: nodes n1, n2 and the destination d.  *)
(***************************************************************************)
EXTENDS SprayAndWait, TLC

CONSTANTS d, n1, n2

MCDest == [b \in Bundles |-> d]

\* One bundle at a time.
Alone == {{b} : b \in Bundles}
==============================================================================
