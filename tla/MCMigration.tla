---------------------------- MODULE MCMigration ----------------------------
(***************************************************************************)
(* Small instances of Migration: one migration that runs once and one that *)
(* is repeatable, run by processes of two versions.                        *)
(***************************************************************************)
EXTENDS Migration

StepList == <<"03_default_instance", "config_change">>

OldAndNew(p) == IF p = "new" THEN "v2" ELSE "v1"
Versions == [p \in Processes |-> OldAndNew(p)]
=============================================================================
