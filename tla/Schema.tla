------------------------------- MODULE Schema -------------------------------
(***************************************************************************)
(* What the start of the server promises about the database, seen from     *)
(* outside: migrations appear one by one, in order, each with its version; *)
(* and one admin at most, after the last of them (internal/db/sql_store.go,*)
(* "Each slice entry is applied exactly once in order").                   *)
(***************************************************************************)
EXTENDS Naturals

CONSTANTS
  LastMigration,
  AdminConfigured

VARIABLES
  applied,   \* migrations whose tables are there
  recorded,  \* versions in schema_version
  admins     \* how many accounts the bootstrap made

SchemaInit == applied = {} /\ recorded = {} /\ admins = 0

Migration ==
  \E n \in 1..LastMigration :
    /\ applied = 1..(n - 1) /\ recorded = 1..(n - 1)
    /\ applied' = 1..n /\ recorded' = 1..n
    /\ UNCHANGED admins

Bootstrap ==
  /\ AdminConfigured /\ applied = 1..LastMigration
  /\ admins = 0 /\ admins' = 1
  /\ UNCHANGED <<applied, recorded>>

SchemaSpec == SchemaInit /\ [][Migration \/ Bootstrap]_<<applied, recorded, admins>>
=============================================================================
