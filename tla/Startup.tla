------------------------------ MODULE Startup ------------------------------
(***************************************************************************)
(* The start of the server (cmd/server/main.go) over a database that       *)
(* several instances share: the migrations of internal/db/sql_store.go,    *)
(* then the bootstrap of the admin.  An instance that meets an error exits *)
(* (log.Fatalf) and is started again by its supervisor.                    *)
(***************************************************************************)
EXTENDS Naturals, FiniteSets, FiniteSetsExt

CONSTANTS
  Instances,
  LastMigration,     \* len(migrations[kind]), 3 in the code
  AdminConfigured,   \* SHIELD_ADMIN_EMAIL and SHIELD_ADMIN_PASSWORD are set
  MaxCrashes         \* bound of the crashes
ASSUME StartupAssumption ==
  /\ LastMigration \in Nat \ {0} /\ MaxCrashes \in Nat
  /\ AdminConfigured \in BOOLEAN

VARIABLES
  step,      \* where the start of each instance is
  current,   \* the index of its migration loop
  versions,  \* table schema_version: versions recorded
  tables,    \* migrations whose tables exist
  users,     \* table users: who created the admin
  crashes

startVars == <<step, current, versions, tables, users, crashes>>

Starting == {"schema", "migrate", "ddl", "recorded", "count", "create"}

StartInit ==
  /\ step = [i \in Instances |-> "down"]
  /\ current = [i \in Instances |-> 0]
  /\ versions = {}
  /\ tables = {}
  /\ users = {}
  /\ crashes = 0

-----------------------------------------------------------------------------
StepTo(i, from, to) == step[i] = from /\ step' = [step EXCEPT ![i] = to]

Launch(i) ==
  /\ StepTo(i, "down", "schema")
  /\ UNCHANGED <<current, versions, tables, users, crashes>>

(* Mutant: the loop ends one migration early.                              *)
LoopHead_Early(n) == IF n + 1 >= LastMigration THEN "count" ELSE "migrate"

LoopHead(n) == IF n = LastMigration THEN "count" ELSE "migrate"

(* COALESCE(MAX(version), 0), read once.                                   *)
ReadVersion(i) ==
  LET n == Max({0} \cup versions)
  IN  /\ StepTo(i, "schema", LoopHead(n))
      /\ current' = [current EXCEPT ![i] = n]
      /\ UNCHANGED <<versions, tables, users, crashes>>

(* Another instance has run the same statements in an open transaction.    *)
Contended(i) ==
  \E j \in Instances \ {i} :
    step[j] \in {"ddl", "recorded"} /\ current[j] = current[i]

(* Mutant: the version is inserted outside the transaction.                *)
ExecDDL_RecordsFirst(i) ==
  /\ ~Contended(i)
  /\ StepTo(i, "migrate", "ddl")
  /\ versions' = versions \cup {current[i] + 1}
  /\ UNCHANGED <<current, tables, users, crashes>>

(* CREATE TABLE IF NOT EXISTS in a transaction of its own.                 *)
ExecDDL(i) ==
  /\ ~Contended(i)
  /\ StepTo(i, "migrate", "ddl")
  /\ UNCHANGED <<current, versions, tables, users, crashes>>

(* It waits for that transaction and then fails on the duplicate, or on a  *)
(* busy database.                                                          *)
MigrationFails(i) ==
  /\ Contended(i)
  /\ StepTo(i, "migrate", "down")
  /\ UNCHANGED <<current, versions, tables, users, crashes>>

InsertVersion(i) ==
  /\ StepTo(i, "ddl", "recorded")
  /\ UNCHANGED <<current, versions, tables, users, crashes>>

(* The tables and the version become visible together; the version may be  *)
(* there twice.                                                            *)
Commit(i) ==
  /\ StepTo(i, "recorded", LoopHead(current[i] + 1))
  /\ versions' = versions \cup {current[i] + 1}
  /\ tables' = tables \cup {current[i] + 1}
  /\ current' = [current EXCEPT ![i] = @ + 1]
  /\ UNCHANGED <<users, crashes>>

(* Mutant: one user too few is seen.                                       *)
CountUsers_Above(i) ==
  /\ StepTo(i, "count", IF Cardinality(users) > 1 \/ ~AdminConfigured THEN "serving"
                        ELSE "create")
  /\ UNCHANGED <<current, versions, tables, users, crashes>>

CountUsers(i) ==
  /\ StepTo(i, "count", IF Cardinality(users) > 0 \/ ~AdminConfigured THEN "serving"
                        ELSE "create")
  /\ UNCHANGED <<current, versions, tables, users, crashes>>

(* email is UNIQUE.                                                        *)
CreateAdmin(i) ==
  /\ StepTo(i, "create", IF users = {} THEN "serving" ELSE "down")
  /\ users' = IF users = {} THEN {i} ELSE users
  /\ UNCHANGED <<current, versions, tables, crashes>>

(* The process dies, or a statement fails and ends it.  An open transaction *)
(* is rolled back.                                                         *)
Crash(i) ==
  /\ step[i] # "down" /\ crashes < MaxCrashes
  /\ step' = [step EXCEPT ![i] = "down"]
  /\ crashes' = crashes + 1
  /\ UNCHANGED <<current, versions, tables, users>>

Progress(i) ==
  \/ Launch(i) \/ ReadVersion(i) \/ ExecDDL(i) \/ MigrationFails(i)
  \/ InsertVersion(i) \/ Commit(i) \/ CountUsers(i) \/ CreateAdmin(i)

-----------------------------------------------------------------------------
(* An instance that serves finds every table there and, when an admin was  *)
(* configured, an account to log in with, although others migrate and die  *)
(* at the same time and each instance trusts the version it read at its    *)
(* own start (Migrate and the bootstrap in main).                          *)
ServesWhenReady ==
  \A i \in Instances : step[i] = "serving" =>
    /\ tables = 1..LastMigration
    /\ AdminConfigured => users # {}

(* Seen from the database, the instances together do what one would: each   *)
(* migration appears once, in order, in one piece with its version, and at *)
(* most one admin is made, when all tables are there - in whatever order   *)
(* the instances step and wherever they die (Migrate and the bootstrap).   *)
Database == INSTANCE Schema WITH
  applied <- tables, recorded <- versions, admins <- Cardinality(users)
ImplementsSchema == Database!SchemaSpec

(* Instances that start together fail each other's migration and each      *)
(* other's admin, but never for good: restarted by its supervisor, every   *)
(* one comes to serve (main).                                              *)
EveryInstanceServes == \A i \in Instances : <>[](step[i] = "serving")
=============================================================================
