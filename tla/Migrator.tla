-------------------------------- MODULE Migrator --------------------------------
(***************************************************************************)
(* Store.Migrate (store/migrator.go) and the backup it takes before it     *)
(* changes an existing SQLite database (store/db/sqlite/backup.go).        *)
(*                                                                         *)
(* One server process at a time works on one database.  Every statement    *)
(* that reaches the database or the backup directory is a step, because    *)
(* the process may die, or the step may fail, between any two of them: the *)
(* next process, perhaps of another version, starts from what is on disk.  *)
(*                                                                         *)
(* A schema version is a number; 0 stands for the empty version and for a  *)
(* database without tables.  Migration v takes the schema from v - 1 to v  *)
(* and a binary is known by the newest migration embedded in it.           *)
(***************************************************************************)
EXTENDS Integers

CONSTANTS Targets,     \* GetCurrentSchemaVersion of the binaries in use
          Existing,    \* schemas of the databases older binaries left
          Minimum,     \* the oldest schema that can be upgraded (0.22.0)
          Rerunnable,  \* migrations that succeed on a schema that has them
          MaxStarts    \* bound on the number of process starts

ASSUME MigratorAssumption ==
    /\ Minimum \in Nat \ {0}
    /\ Targets \subseteq Nat /\ \A t \in Targets : t >= Minimum
    /\ Existing \subseteq Nat \ {0}
    /\ MaxStarts \in Nat \ {0}

VARIABLES profile,   \* s.profile: the driver and the demo flag
          schema,    \* the tables on disk
          recorded,  \* SchemaVersion of the instance basic setting on disk
          seeded,    \* the demo rows are on disk
          backups,   \* the backup directory: process start -> file
          proc,      \* the running process
          starts     \* number of process starts so far

vars == <<profile, schema, recorded, seeded, backups, proc, starts>>

(***************************************************************************)
(* A backup file is named after the versions it was taken between.  An     *)
(* empty file is intact: SQLite reads it as a database without tables.     *)
(* "verified" records that validateSQLiteBackup accepted it.               *)
(***************************************************************************)
Backup == [source: Nat, target: Nat, holds: Nat, intact: BOOLEAN, verified: BOOLEAN]
NoBackup == [source |-> 0, target |-> 0, holds |-> 0, intact |-> FALSE, verified |-> FALSE]

Steps == {"down", "initialize", "latest", "label", "minimum", "compare", "reserve",
          "copy", "verify", "execute", "record", "seed", "up"}

(***************************************************************************)
(* "tables" is the schema as the migration transaction sees it and "next"  *)
(* the migration file it is at.                                            *)
(***************************************************************************)
Process == [pc: Steps, target: Targets \cup {0}, tables: Nat, next: Nat]
NoProcess == [pc |-> "down", target |-> 0, tables |-> 0, next |-> 0]

TypeOK ==
    /\ profile \in [driver: {"sqlite", "mysql", "postgres"}, demo: BOOLEAN]
    /\ schema \in Nat
    /\ recorded \in {0} \cup Existing \cup Targets
    /\ seeded \in BOOLEAN
    /\ backups \in [1 .. MaxStarts -> Backup]
    /\ proc \in Process
    /\ starts \in 0 .. MaxStarts

Goto(step) == proc' = [proc EXCEPT !.pc = step]

(***************************************************************************)
(* Migrate returns an error: the process logs it and exits.                *)
(***************************************************************************)
Exit == proc' = NoProcess

disk == <<schema, recorded, seeded, backups>>

--------------------------------------------------------------------------------
Start(t) ==
    /\ proc.pc = "down"
    /\ starts < MaxStarts
    /\ starts' = starts + 1
    /\ proc' = [NoProcess EXCEPT !.pc = "initialize", !.target = t]
    /\ UNCHANGED <<profile, disk>>

(***************************************************************************)
(* preMigrate.  A database without a memo table gets LATEST.sql in one     *)
(* transaction, and its version in a statement of its own after it.        *)
(***************************************************************************)
CheckInitialized ==
    /\ proc.pc = "initialize"
    /\ Goto(IF schema = 0 THEN "latest" ELSE "minimum")
    /\ UNCHANGED <<profile, disk, starts>>

ApplyLatest ==
    /\ proc.pc = "latest"
    /\ schema' = proc.target
    /\ Goto("label")
    /\ UNCHANGED <<profile, recorded, seeded, backups, starts>>

LabelFresh ==
    /\ proc.pc = "label"
    /\ recorded' = proc.target
    /\ Goto("minimum")
    /\ UNCHANGED <<profile, schema, seeded, backups, starts>>

(***************************************************************************)
(* checkMinimumUpgradeVersion: an initialized database whose version is    *)
(* empty or below the minimum is refused.                                  *)
(***************************************************************************)
CheckMinimum ==
    /\ proc.pc = "minimum"
    /\ IF recorded >= Minimum THEN Goto("compare") ELSE Exit
    /\ UNCHANGED <<profile, disk, starts>>

\* Mutant: no downgrade check.
CompareAllowsDowngrade ==
    /\ proc.pc = "compare"
    /\ recorded >= proc.target
    /\ Goto("seed")
    /\ UNCHANGED <<profile, disk, starts>>

\* Mutant: an equal version counts as a pending migration.
CompareNotStrict ==
    /\ proc.pc = "compare"
    /\ recorded <= proc.target
    /\ proc' = [proc EXCEPT !.pc = "reserve", !.tables = schema, !.next = recorded + 1]
    /\ UNCHANGED <<profile, disk, starts>>

(***************************************************************************)
(* The version comparison in Migrate: refuse a downgrade, skip an equal    *)
(* version, back up and apply otherwise.                                   *)
(***************************************************************************)
CompareVersions ==
    /\ proc.pc = "compare"
    /\ \/ /\ recorded > proc.target
          /\ Exit
       \/ /\ recorded = proc.target
          /\ Goto("seed")
       \/ /\ recorded < proc.target
          /\ proc' = [proc EXCEPT !.pc = IF profile.driver = "sqlite" THEN "reserve" ELSE "execute",
                                  !.tables = schema, !.next = recorded + 1]
    /\ UNCHANGED <<profile, disk, starts>>

--------------------------------------------------------------------------------
(***************************************************************************)
(* CreateMigrationBackup: reserve a new file, copy every page with the     *)
(* online backup, run the integrity check.  On an error the deferred       *)
(* function removes the file.                                              *)
(***************************************************************************)
ReserveBackup ==
    /\ proc.pc = "reserve"
    /\ backups' = [backups EXCEPT ![starts] =
                      [source |-> recorded, target |-> proc.target,
                       holds |-> 0, intact |-> TRUE, verified |-> FALSE]]
    /\ Goto("copy")
    /\ UNCHANGED <<profile, schema, recorded, seeded, starts>>

CopyDatabase ==
    /\ proc.pc = "copy"
    /\ \E intact \in BOOLEAN :
          backups' = [backups EXCEPT ![starts].holds = schema, ![starts].intact = intact]
    /\ Goto("verify")
    /\ UNCHANGED <<profile, schema, recorded, seeded, starts>>

ValidateBackup ==
    /\ proc.pc = "verify"
    /\ \/ /\ backups[starts].intact
          /\ backups' = [backups EXCEPT ![starts].verified = TRUE]
          /\ Goto("execute")
       \/ /\ ~backups[starts].intact
          /\ backups' = [backups EXCEPT ![starts] = NoBackup]
          /\ Exit
    /\ UNCHANGED <<profile, schema, recorded, seeded, starts>>

\* Mutant: a failed backup does not stop the migration.
BackupFailureIgnored ==
    /\ proc.pc \in {"copy", "verify"}
    /\ backups' = [backups EXCEPT ![starts] = NoBackup]
    /\ Goto("execute")
    /\ UNCHANGED <<profile, schema, recorded, seeded, starts>>

\* Mutant: the file is removed when a later migration step fails.
BackupRemovedLater ==
    /\ proc.pc \in {"copy", "verify", "execute"}
    /\ backups' = [backups EXCEPT ![starts] = NoBackup]
    /\ Exit
    /\ UNCHANGED <<profile, schema, recorded, seeded, starts>>

BackupFails ==
    /\ proc.pc \in {"copy", "verify"}
    /\ backups' = [backups EXCEPT ![starts] = NoBackup]
    /\ Exit
    /\ UNCHANGED <<profile, schema, recorded, seeded, starts>>

--------------------------------------------------------------------------------
(***************************************************************************)
(* shouldApplyMigration selects the files between the recorded version and *)
(* the target; a file runs on the schema before it, and on one that has it *)
(* already only if its statements can be repeated.                         *)
(***************************************************************************)
Runs(v, tables) == v = tables + 1 \/ (v <= tables /\ v \in Rerunnable)

\* Mutant: every file is committed by itself.
ExecuteOutsideTransaction ==
    /\ proc.pc = "execute"
    /\ proc.next <= proc.target
    /\ Runs(proc.next, proc.tables)
    /\ proc' = [proc EXCEPT !.next = @ + 1,
                            !.tables = IF @ < proc.next THEN proc.next ELSE @]
    /\ schema' = proc'.tables
    /\ UNCHANGED <<profile, recorded, seeded, backups, starts>>

(***************************************************************************)
(* One iteration of the loop in applyMigrations.  MySQL commits a schema   *)
(* change at once, whatever transaction it is in; the other drivers keep   *)
(* it in the transaction.  A file that fails ends the process.             *)
(***************************************************************************)
ExecuteMigration ==
    /\ proc.pc = "execute"
    /\ proc.next <= proc.target
    /\ \/ /\ Runs(proc.next, proc.tables)
          /\ proc' = [proc EXCEPT !.next = @ + 1,
                                  !.tables = IF @ < proc.next THEN proc.next ELSE @]
          /\ schema' = IF profile.driver = "mysql" THEN proc'.tables ELSE schema
       \/ /\ ~Runs(proc.next, proc.tables)
          /\ Exit
          /\ UNCHANGED schema
    /\ UNCHANGED <<profile, recorded, seeded, backups, starts>>

\* Mutant: Commit is forgotten, the deferred Rollback undoes the migrations.
CommitForgotten ==
    /\ proc.pc = "execute"
    /\ proc.next > proc.target
    /\ Goto("record")
    /\ UNCHANGED <<profile, schema, recorded, seeded, backups, starts>>

CommitMigrations ==
    /\ proc.pc = "execute"
    /\ proc.next > proc.target
    /\ schema' = proc.tables
    /\ Goto("record")
    /\ UNCHANGED <<profile, recorded, seeded, backups, starts>>

(***************************************************************************)
(* updateCurrentSchemaVersion, outside the migration transaction.          *)
(***************************************************************************)
RecordVersion ==
    /\ proc.pc = "record"
    /\ recorded' = proc.target
    /\ Goto("seed")
    /\ UNCHANGED <<profile, schema, seeded, backups, starts>>

(***************************************************************************)
(* seed: in demo mode on SQLite the seed files are plain INSERTs with      *)
(* fixed keys, so they fail on a database that has been seeded.            *)
(***************************************************************************)
Seed ==
    /\ proc.pc = "seed"
    /\ \/ /\ ~profile.demo \/ profile.driver # "sqlite"
          /\ Goto("up")
          /\ UNCHANGED seeded
       \/ /\ profile.demo /\ profile.driver = "sqlite" /\ ~seeded
          /\ Goto("up")
          /\ seeded' = TRUE
       \/ /\ profile.demo /\ profile.driver = "sqlite" /\ seeded
          /\ Exit
          /\ UNCHANGED seeded
    /\ UNCHANGED <<profile, schema, recorded, backups, starts>>

(***************************************************************************)
(* The process dies, a statement fails, or the server is shut down: an     *)
(* open transaction is rolled back and everything else stays on disk.      *)
(***************************************************************************)
Stop ==
    /\ proc.pc # "down"
    /\ Exit
    /\ UNCHANGED <<profile, disk, starts>>

--------------------------------------------------------------------------------
(***************************************************************************)
(* A fresh database, one that records its schema, or one from before       *)
(* versions were recorded in the instance setting.                         *)
(***************************************************************************)
Init ==
    /\ profile \in [driver: {"sqlite", "mysql", "postgres"}, demo: BOOLEAN]
    /\ \/ schema = 0 /\ recorded = 0
       \/ schema \in Existing /\ recorded = IF schema >= Minimum THEN schema ELSE 0
    /\ seeded = FALSE
    /\ backups = [k \in 1 .. MaxStarts |-> NoBackup]
    /\ proc = NoProcess
    /\ starts = 0

Next ==
    \/ \E t \in Targets : Start(t)
    \/ CheckInitialized
    \/ ApplyLatest
    \/ LabelFresh
    \/ CheckMinimum
    \/ CompareVersions
    \/ ReserveBackup
    \/ CopyDatabase
    \/ ValidateBackup
    \/ BackupFails
    \/ ExecuteMigration
    \/ CommitMigrations
    \/ RecordVersion
    \/ Seed
    \/ Stop

Spec == Init /\ [][Next]_vars

--------------------------------------------------------------------------------
(***************************************************************************)
(* The recorded version never claims a migration that is not on disk, at   *)
(* whatever step an earlier process died: a later process never skips one. *)
(***************************************************************************)
RecordedNotAhead == recorded <= schema

(***************************************************************************)
(* The server answers requests only on a database that has every table its *)
(* binary expects, and whose recorded version is its own.                  *)
(***************************************************************************)
ServesCompleteSchema ==
    proc.pc = "up" => recorded = proc.target /\ schema >= proc.target

(***************************************************************************)
(* Where schema changes are transactional, no failure leaves a database    *)
(* between two releases: its schema is one that some binary ships.         *)
(***************************************************************************)
NoPartialUpgrade ==
    profile.driver # "mysql" => schema \in {0} \cup Existing \cup Targets

(***************************************************************************)
(* The tables of an existing SQLite database change only after this very   *)
(* process took a backup that passed the integrity check and that holds    *)
(* the tables as they were.                                                *)
(***************************************************************************)
MigratesAfterBackup ==
    [][profile.driver = "sqlite" /\ schema # 0 /\ schema' # schema =>
          backups[starts].verified /\ backups[starts].holds = schema]_vars

(***************************************************************************)
(* A verified backup is never removed or changed again, whatever fails     *)
(* after it.                                                               *)
(***************************************************************************)
VerifiedBackupKept ==
    [][\A k \in 1 .. MaxStarts : backups[k].verified => backups'[k] = backups[k]]_vars

(***************************************************************************)
(* A verified backup is of an upgradable database with an upgrade pending, *)
(* and holds at least the tables of the version it is named after.         *)
(***************************************************************************)
BackupOfPendingUpgrade ==
    \A k \in 1 .. MaxStarts : backups[k].verified =>
        /\ Minimum <= backups[k].source
        /\ backups[k].source < backups[k].target
        /\ backups[k].source <= backups[k].holds

(***************************************************************************)
(* An empty version on an initialized database means an installation from  *)
(* before versions were recorded, when checkMinimumUpgradeVersion sees it. *)
(***************************************************************************)
EmptyVersionMeansLegacy ==
    proc.pc = "minimum" /\ recorded = 0 /\ schema # 0 => schema < Minimum

================================================================================
