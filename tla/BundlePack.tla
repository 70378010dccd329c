----------------------------- MODULE BundlePack -----------------------------
(***************************************************************************)
(* The retention constraints of core/bundlepack.rs: what the node still    *)
(* has to do with a bundle.  A BundlePack is a private copy of the         *)
(* bundle's metadata; of its fields only the constraint set is state, the  *)
(* others are attributes of the bundle (see Processing!Bundle).            *)
(***************************************************************************)

Constraint == {"DispatchPending", "ForwardPending", "ReassemblyPending",
               "Contraindicated", "LocalEndpoint", "Deleted"}

\* MISTAKE: nothing is kept.
ClearAll(c) == {}

\* BundlePack::clear_constraints: everything goes but LocalEndpoint.
ClearConstraints(c) == c \cap {"LocalEndpoint"}

\* BundlePack::has_constraints.
HasConstraints(c) == c # {}
=============================================================================
