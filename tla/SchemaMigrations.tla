--------------------------- MODULE SchemaMigrations ---------------------------
(***************************************************************************)
(* The schema of one database and the processes that start on it.  Each    *)
(* process reads the version the database says it is at, refuses one newer *)
(* than its binary knows, applies the missing migrations one transaction   *)
(* each, and only then serves.  Processes of different binaries may start  *)
(* together, any of them may die at any step, and on SQLite an operator    *)
(* may restore one of the backups that destructive migrations leave.       *)
(***************************************************************************)
EXTENDS Naturals, FiniteSets

CONSTANTS
    Processes,     \* the server processes
    Known,         \* [Processes -> Nat]: the last migration of the binary each one runs
    Destructive,   \* the versions whose migration rebuilds a table
    MaxStarts      \* bound: process starts in a behaviour

Versions == UNION {1..Known[p] : p \in Processes}

ASSUME MigrationAssumption ==
    /\ Known \in [Processes -> Nat \ {0}]
    /\ Destructive \subseteq Nat
    /\ MaxStarts \in Nat

VARIABLES
    engine,   \* "sqlite" or "pg"
    db,       \* version: what the database says it is at; schema: the migrations it has had
    backups,  \* the pre-migrate files, by version: the database each one holds
    proc,     \* the state of each process
    starts    \* processes started so far

migrationVars == <<engine, db, backups, proc, starts>>

Empty == [version |-> 0, schema |-> {}]
Stopped == [pc |-> "stopped", next |-> 0]

MigrationInit ==
    /\ engine \in {"sqlite", "pg"}
    /\ db = Empty
    /\ backups = [v \in {} |-> Empty]
    /\ proc = [p \in Processes |-> Stopped]
    /\ starts = 0

-----------------------------------------------------------------------------
\* _build_db: the process opens the database and calls migrate
StartProcess(p) ==
    /\ proc[p].pc \in {"stopped", "failed"} /\ starts < MaxStarts
    /\ starts' = starts + 1
    /\ proc' = [proc EXCEPT ![p] = [Stopped EXCEPT !.pc = "read"]]
    /\ UNCHANGED <<engine, db, backups>>

\* PRAGMA user_version / MAX(version): a newer schema is refused
ReadVersion(p) ==
    /\ proc[p].pc = "read"
    /\ proc' = [proc EXCEPT ![p] =
            IF db.version > Known[p] THEN [@ EXCEPT !.pc = "failed"]
            ELSE [pc |-> "migrate", next |-> db.version + 1]]
    /\ UNCHANGED <<engine, db, backups, starts>>

\* _auto_backup: an online copy of the committed database; an existing file is overwritten
BackUp(p) ==
    LET v == proc[p].next IN
    /\ proc[p].pc = "migrate" /\ v <= Known[p]
    /\ engine = "sqlite" /\ v \in Destructive
    /\ backups' = [u \in DOMAIN backups \cup {v} |-> IF u = v THEN db ELSE backups[u]]
    /\ proc' = [proc EXCEPT ![p].pc = "backedUp"]
    /\ UNCHANGED <<engine, db, starts>>

ReadyToApply(p) ==
    /\ proc[p].next <= Known[p]
    /\ IF engine = "sqlite" /\ proc[p].next \in Destructive
       THEN proc[p].pc = "backedUp" ELSE proc[p].pc = "migrate"

\* Mutant: a migration that fails is skipped.
FailSkips(p) ==
    /\ ReadyToApply(p)
    /\ proc' = [proc EXCEPT ![p].pc = "migrate", ![p].next = @ + 1]
    /\ UNCHANGED <<engine, db, backups, starts>>

\* a statement fails, or a lock is not had in time: the transaction rolls back,
\* migrate raises and the process ends
FailMigration(p) ==
    /\ ReadyToApply(p)
    /\ proc' = [proc EXCEPT ![p].pc = "failed"]
    /\ UNCHANGED <<engine, db, backups, starts>>

\* SQLite: the scripts are repeatable and `PRAGMA user_version = v` is unconditional
ApplySqlite(p) ==
    LET v == proc[p].next IN
    /\ ReadyToApply(p) /\ engine = "sqlite"
    /\ db' = [version |-> v, schema |-> db.schema \cup {v}]
    /\ proc' = [proc EXCEPT ![p].pc = "migrate", ![p].next = @ + 1]
    /\ UNCHANGED <<engine, backups, starts>>

\* PostgreSQL: the INSERT into schema_version conflicts when another process has
\* recorded the version (FailMigration then); the version is the greatest one there
ApplyPg(p) ==
    LET v == proc[p].next IN
    /\ ReadyToApply(p) /\ engine = "pg" /\ v \notin db.schema
    /\ db' = [version |-> IF v > db.version THEN v ELSE db.version, schema |-> db.schema \cup {v}]
    /\ proc' = [proc EXCEPT ![p].pc = "migrate", ![p].next = @ + 1]
    /\ UNCHANGED <<engine, backups, starts>>

\* migrate returns, build_production_app goes on
Serve(p) ==
    /\ proc[p].pc = "migrate" /\ proc[p].next > Known[p]
    /\ proc' = [proc EXCEPT ![p].pc = "serving"]
    /\ UNCHANGED <<engine, db, backups, starts>>

\* the process is stopped or dies, its open transaction with it
StopProcess(p) ==
    /\ proc[p].pc \notin {"stopped", "failed"}
    /\ proc' = [proc EXCEPT ![p] = Stopped]
    /\ UNCHANGED <<engine, db, backups, starts>>

\* restore: the whole database is replaced; "requires no active writers"
Restore(v) ==
    /\ engine = "sqlite" /\ v \in DOMAIN backups
    /\ \A p \in Processes : proc[p].pc \in {"stopped", "failed"}
    /\ db' = backups[v]
    /\ UNCHANGED <<engine, backups, proc, starts>>

MigrationNext ==
    \/ \E p \in Processes :
        \/ StartProcess(p) \/ ReadVersion(p) \/ BackUp(p)
        \/ ApplySqlite(p) \/ ApplyPg(p) \/ FailMigration(p)
        \/ Serve(p) \/ StopProcess(p)
    \/ \E v \in Versions : Restore(v)

MigrationSpec == MigrationInit /\ [][MigrationNext]_migrationVars

\* readiness: serving, and the schema exactly at the version the binary expects
ReadyOn(p) == proc[p].pc = "serving" /\ db.version = Known[p]

-----------------------------------------------------------------------------
Databases == [version : Versions \cup {0}, schema : SUBSET Versions]

MigrationTypeOK ==
    /\ engine \in {"sqlite", "pg"}
    /\ db \in Databases
    /\ DOMAIN backups \subseteq Destructive
    /\ \A v \in DOMAIN backups : backups[v] \in Databases
    /\ proc \in [Processes ->
        [pc : {"stopped", "read", "migrate", "backedUp", "serving", "failed"}, next : Nat]]
    /\ starts \in 0..MaxStarts

\* A process that serves runs on every migration its binary knows, and the database
\* never claims a version with a gap below it: with processes of two binaries
\* migrating at once, deaths between migrations, and restores.  On PostgreSQL the
\* version is that of the last migration applied: it never goes back, also when an
\* older binary read it before a newer one migrated.
ServingHasSchema ==
    /\ 1..db.version \subseteq db.schema
    /\ engine = "pg" => db.schema = 1..db.version
    /\ \A p \in Processes : proc[p].pc = "serving" => 1..Known[p] \subseteq db.schema

\* "a database written by a NEWER binary must not be silently skipped or
\* downgraded" (connection.py:172): no process of an older binary that reads the
\* version after a newer migration was applied is let through.
NewerSchemaRefused ==
    [][\A p \in Processes : proc[p].pc = "read" /\ proc'[p].pc = "migrate" =>
            db.schema \subseteq 1..Known[p]]_migrationVars

\* "a bad upgrade can always be rolled back from disk" (connection.py:164): the
\* pre-migrate file of a version holds a database without that migration.
BackupPredatesMigration ==
    \A v \in DOMAIN backups : v \notin backups[v].schema
=============================================================================
