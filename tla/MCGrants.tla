------------------------------ MODULE MCGrants ------------------------------
(***************************************************************************)
(* Instances of Grants.  Requests are interchangeable.                     *)
(***************************************************************************)
EXTENDS Grants, TLC

OneRole == <<"a">>
OnlyAll == {<<"a">>}
MCGrantIDs == 1 .. 3
Symmetry == Permutations(Clients)
=============================================================================
