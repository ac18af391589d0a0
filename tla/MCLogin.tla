------------------------------ MODULE MCLogin ------------------------------
(***************************************************************************)
(* Instances of Login.  User agents are interchangeable, and so are        *)
(* requests.                                                               *)
(***************************************************************************)
EXTENDS Login, TLC

Symmetry == Permutations(Agents) \cup Permutations(Requests)
=============================================================================
