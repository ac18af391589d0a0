---------------------------- MODULE MCProjection ----------------------------
(***************************************************************************)
(* Small instances of Projection: one tenant, one or two aggregate types   *)
(* and the goroutines of one or two processes.                             *)
(***************************************************************************)
EXTENDS Projection, TLC

\* No aggregate type is special; used only where no liveness is checked.
TypeSymmetry == Permutations(AggTypes)
=============================================================================
