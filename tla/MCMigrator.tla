------------------------------- MODULE MCMigrator -------------------------------
(***************************************************************************)
(* Instances of Migrator for TLC: one database too old to upgrade, one at  *)
(* the oldest supported schema, and two releases two migrations apart.     *)
(***************************************************************************)
EXTENDS Migrator
================================================================================
