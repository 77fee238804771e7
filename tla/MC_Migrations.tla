---------------------------- MODULE MC_Migrations ----------------------------
(* One upload charge and one quote, migrated, rolled back and migrated again *)
(* with the infrastructure fees inserted at most twice.                       *)
EXTENDS Migrations

CONSTANTS u1, q1

MC_Uploads == {u1}
MC_Quotes == {q1}
=============================================================================
