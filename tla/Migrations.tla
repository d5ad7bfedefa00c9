------------------------------- MODULE Migrations -------------------------------
(***************************************************************************)
(* The migration runner (internal/platform/db/migrate.go): Up and Down,    *)
(* by several processes at once, with failures, lost answers and deaths.   *)
(*                                                                         *)
(* A migration creates tables and fails when they exist or when a table    *)
(* they refer to is missing; its down file drops them, existing or not,    *)
(* and fails when another table refers to them.  Each runs in one          *)
(* transaction with its line in schema_migrations; PostgreSQL's locks on   *)
(* the tables make these transactions wait for each other.                 *)
(***************************************************************************)
EXTENDS Naturals

CONSTANTS
  Versions,   \* migrations, numbered in the order of their names
  Needs,      \* pairs: the first refers to tables of the second
  Runners,    \* runs of the binary with --migrate-up or --migrate-down
  Idle        \* a run not started, or ended

Run == [op : {"up"}, applied : SUBSET Versions] \cup [op : {"down"}, version : Versions]

ASSUME MigrationsAssumption ==
  /\ Versions \subseteq Nat
  /\ \A p \in Needs : p[1] \in Versions /\ p[2] \in Versions /\ p[2] < p[1]
  /\ Idle \notin Run

VARIABLES
  schema,     \* migrations whose tables exist
  recorded,   \* schema_migrations
  runner,     \* locals of a run
  undone      \* history: a Down ran

migrationsVars == <<schema, recorded, runner, undone>>

\* Up reads what is applied once.
UpRead(r) ==
  /\ runner[r] = Idle
  /\ runner' = [runner EXCEPT ![r] = [op |-> "up", applied |-> recorded]]
  /\ UNCHANGED <<schema, recorded, undone>>

Pending(r) == Versions \ runner[r].applied

IsNext(r, v) == v \in Pending(r) /\ \A w \in Pending(r) : v <= w

\* A slip: the record is left to a transaction of its own.
RecordedLater(v) == recorded

Recorded(v) == recorded \cup {v}

\* One migration and its record.  The answer to the COMMIT may be lost.
UpApply(r) ==
  /\ runner[r] # Idle /\ runner[r].op = "up"
  /\ \E v \in Versions :
       /\ IsNext(r, v)
       /\ v \notin schema /\ v \notin recorded
       /\ \A p \in Needs : p[1] = v => p[2] \in schema
       /\ schema' = schema \cup {v}
       /\ recorded' = Recorded(v)
       /\ \/ runner' = [runner EXCEPT ![r].applied = @ \cup {v}]
          \/ runner' = [runner EXCEPT ![r] = Idle]
  /\ UNCHANGED undone

\* Nothing is pending, a migration fails, or the process dies.
Stop(r) ==
  /\ runner[r] # Idle
  /\ runner' = [runner EXCEPT ![r] = Idle]
  /\ UNCHANGED <<schema, recorded, undone>>

DownRead(r) ==
  /\ runner[r] = Idle
  /\ \E v \in recorded :
       /\ \A w \in recorded : w <= v
       /\ runner' = [runner EXCEPT ![r] = [op |-> "down", version |-> v]]
  /\ UNCHANGED <<schema, recorded, undone>>

\* DROP TABLE IF EXISTS without CASCADE, and DELETE of the record.
DownApply(r) ==
  /\ runner[r] # Idle /\ runner[r].op = "down"
  /\ LET v == runner[r].version IN
       /\ \A p \in Needs : p[2] = v /\ v \in schema => p[1] \notin schema
       /\ schema' = schema \ {v}
       /\ recorded' = recorded \ {v}
  /\ undone' = TRUE
  /\ runner' = [runner EXCEPT ![r] = Idle]

MigrationsInit ==
  /\ schema = {} /\ recorded = {}
  /\ runner = [r \in Runners |-> Idle]
  /\ undone = FALSE

MigrationsNext ==
  \E r \in Runners : UpRead(r) \/ UpApply(r) \/ Stop(r) \/ DownRead(r) \/ DownApply(r)

MigrationsSpec == MigrationsInit /\ [][MigrationsNext]_migrationsVars

-------------------------------------------------------------------------------
\* Schema, record and the locals of runs have their types.
MigrationsTypeOK ==
  /\ schema \subseteq Versions /\ recorded \subseteq Versions
  /\ runner \in [Runners -> Run \cup {Idle}]
  /\ undone \in BOOLEAN

\* schema_migrations says what the schema holds, each table finds those it
\* refers to, and unless someone went down the migrations applied are the first
\* ones: whatever runs overlap, fail or die, the next Up can go on from where
\* they stopped (migrate.go, Up and Down).
SchemaIsRecorded ==
  /\ schema = recorded
  /\ \A p \in Needs : p[1] \in schema => p[2] \in schema
  /\ ~undone => \A v \in schema, w \in Versions : w < v => w \in schema
================================================================================
