----------------------------- MODULE MCSchedule -----------------------------
(***************************************************************************)
(* Two processes and one instance; a lease is renewed after one unit of    *)
(* time and ends after two, a turn takes up to one unit as a rule, and the *)
(* window is just longer than the pause and two turns.                     *)
(***************************************************************************)
EXTENDS Schedule
=============================================================================
