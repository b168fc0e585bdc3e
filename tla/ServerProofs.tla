---------------------------- MODULE ServerProofs ----------------------------
(***************************************************************************)
(* Proofs about Migrator, for every set of releases, every set of existing *)
(* databases and any number of restarts, and about SSEHub and LiveRefresh, *)
(* for any number of connections, senders, effects and events and for      *)
(* every capacity of a channel.                                            *)
(***************************************************************************)
EXTENDS Migrator, LiveRefresh, SequenceTheorems, TLAPS

(***************************************************************************)
(* What a running process knows at each of its steps.  A process has one   *)
(* backup slot of its own, free until it reserves the file.                *)
(***************************************************************************)
BeforeBackup == {"initialize", "latest", "label", "minimum", "compare", "reserve"}
Upgrading == {"reserve", "copy", "verify", "execute"}

SlotInv ==
    /\ proc.pc # "down" => starts \in 1 .. MaxStarts /\ proc.target \in Targets
    /\ \A k \in 1 .. MaxStarts : k > starts => ~backups[k].verified
    /\ proc.pc \in BeforeBackup \cup {"copy", "verify"} => ~backups[starts].verified

PrepareInv ==
    /\ proc.pc = "latest" => schema = 0
    /\ proc.pc = "label" => schema = proc.target
    /\ proc.pc = "compare" => recorded >= Minimum

(***************************************************************************)
(* The transaction's tables are the schema on disk or end in the migration *)
(* just executed, whichever is newer.                                      *)
(***************************************************************************)
UpgradeInv ==
    proc.pc \in Upgrading =>
        /\ Minimum <= recorded /\ recorded < proc.next /\ proc.next <= proc.target + 1
        /\ recorded < proc.target
        /\ schema <= proc.tables /\ proc.next <= proc.tables + 1
        /\ proc.tables = schema \/ proc.tables + 1 = proc.next

BackupInv ==
    /\ proc.pc \in {"copy", "verify"} =>
          backups[starts].source = recorded /\ backups[starts].target = proc.target
    /\ proc.pc = "verify" => backups[starts].holds = schema
    /\ proc.pc = "execute" /\ profile.driver = "sqlite" =>
          backups[starts].verified /\ backups[starts].holds = schema

DoneInv ==
    /\ proc.pc = "record" => schema >= proc.target /\ recorded < proc.target
    /\ proc.pc \in {"seed", "up"} => recorded = proc.target /\ schema >= proc.target

IInv ==
    /\ TypeOK
    /\ RecordedNotAhead
    /\ SlotInv
    /\ PrepareInv
    /\ UpgradeInv
    /\ BackupInv
    /\ DoneInv
    /\ NoPartialUpgrade
    /\ BackupOfPendingUpgrade

--------------------------------------------------------------------------------
(***************************************************************************)
(* The state of a process that is not running has the right type.          *)
(***************************************************************************)
LEMMA NoProcessType == NoProcess \in Process
  BY DEF NoProcess, Process, Steps

\* Every version that can be recorded or targeted is a natural number.
LEMMA VersionsAreNat == {0} \cup Existing \cup Targets \subseteq Nat
  BY MigratorAssumption

\* The empty slot of the backup directory is a file record like any other.
LEMMA NoBackupType == NoBackup \in Backup
  BY DEF NoBackup, Backup

(***************************************************************************)
(* A fresh, a current and a legacy database satisfy the invariant.         *)
(***************************************************************************)
LEMMA InitInv == Init => IInv
  <1> SUFFICES ASSUME Init PROVE IInv
    OBVIOUS
  <1>1. schema \in Nat /\ recorded \in Nat /\ recorded <= schema
    <2>1. CASE schema = 0 /\ recorded = 0
      BY <2>1
    <2>2. CASE schema \in Existing /\ recorded = IF schema >= Minimum THEN schema ELSE 0
      BY <2>2, MigratorAssumption
    <2> QED
      BY <2>1, <2>2 DEF Init
  <1>2. TypeOK
    <2>1. backups \in [1 .. MaxStarts -> Backup]
      BY NoBackupType DEF Init
    <2>2. proc \in Process /\ starts \in 0 .. MaxStarts
      BY NoProcessType, MigratorAssumption DEF Init
    <2>3. seeded \in BOOLEAN /\ profile \in [driver: {"sqlite", "mysql", "postgres"}, demo: BOOLEAN]
      BY DEF Init
    <2>4. recorded \in {0} \cup Existing \cup Targets
      BY DEF Init
    <2> QED
      BY <1>1, <2>1, <2>2, <2>3, <2>4 DEF TypeOK
  <1>3. proc.pc = "down" /\ \A k \in 1 .. MaxStarts : backups[k].verified = FALSE
    BY DEF Init, NoProcess, NoBackup
  <1>4. NoPartialUpgrade
    BY DEF Init, NoPartialUpgrade
  <1> QED
    BY <1>1, <1>2, <1>3, <1>4 DEF IInv, RecordedNotAhead, SlotInv, PrepareInv, UpgradeInv,
       BackupInv, DoneInv, BackupOfPendingUpgrade, BeforeBackup, Upgrading

(***************************************************************************)
(* A step that ends the process and leaves tables, version and the backups *)
(* that were verified alone keeps the invariant.                           *)
(***************************************************************************)
LEMMA ExitInv ==
    ASSUME IInv, Exit, UNCHANGED <<profile, disk, starts>>
    PROVE  IInv'
  <1>1. proc'.pc = "down" /\ proc' \in Process
    BY NoProcessType DEF Exit, NoProcess
  <1> QED
    BY <1>1 DEF disk, IInv, TypeOK, RecordedNotAhead, SlotInv, PrepareInv, UpgradeInv,
       BackupInv, DoneInv, NoPartialUpgrade, BackupOfPendingUpgrade, BeforeBackup, Upgrading

(***************************************************************************)
(* The same for an exit after the process removed its own backup file.     *)
(***************************************************************************)
LEMMA RemoveInv ==
    ASSUME IInv, Exit, UNCHANGED <<profile, schema, recorded, seeded, starts>>,
           starts \in 1 .. MaxStarts, backups' = [backups EXCEPT ![starts] = NoBackup]
    PROVE  IInv'
  <1>1. proc'.pc = "down" /\ proc' \in Process
    BY NoProcessType DEF Exit, NoProcess
  <1>2. /\ backups' \in [1 .. MaxStarts -> Backup]
        /\ \A k \in 1 .. MaxStarts : backups'[k].verified => backups'[k] = backups[k]
    BY NoBackupType DEF IInv, TypeOK, NoBackup
  <1>3. TypeOK' /\ SlotInv'
    BY <1>1, <1>2 DEF IInv, TypeOK, SlotInv, BeforeBackup
  <1>4. BackupOfPendingUpgrade'
    BY <1>2 DEF IInv, BackupOfPendingUpgrade
  <1> QED
    BY <1>1, <1>3, <1>4 DEF IInv, RecordedNotAhead, PrepareInv, UpgradeInv,
       BackupInv, DoneInv, NoPartialUpgrade, BeforeBackup, Upgrading

(***************************************************************************)
(* Every step of Next keeps the invariant: one step per action.            *)
(***************************************************************************)
LEMMA NextInv == IInv /\ [Next]_vars => IInv'
  <1> SUFFICES ASSUME IInv, [Next]_vars PROVE IInv'
    OBVIOUS
  <1> USE MigratorAssumption DEF IInv, TypeOK, RecordedNotAhead, SlotInv, PrepareInv, UpgradeInv,
          BackupInv, DoneInv, NoPartialUpgrade, BackupOfPendingUpgrade, BeforeBackup, Upgrading
  <1> recorded \in Nat /\ proc.target \in Nat
    <2>1. recorded \in {0} \cup Existing \cup Targets /\ proc \in Process
      OBVIOUS
    <2>2. proc.target \in Targets \cup {0}
      BY ONLY <2>1 DEF Process
    <2> QED
      BY ONLY <2>1, <2>2, VersionsAreNat
  <1>1. ASSUME NEW t \in Targets, Start(t) PROVE IInv'
    <2>1. t \in Nat
      BY MigratorAssumption
    <2>2. proc' \in Process /\ proc'.pc = "initialize" /\ proc'.target = t
      BY <1>1, <2>1 DEF Start, NoProcess, Process, Steps
    <2>3. starts' = starts + 1 /\ starts' \in 1 .. MaxStarts
      BY <1>1 DEF Start
    <2>4. UNCHANGED <<profile, schema, recorded, seeded, backups>>
      BY <1>1 DEF Start, disk
    <2>5. TypeOK' /\ SlotInv'
      BY <2>2, <2>3, <2>4
    <2> QED
      BY <2>2, <2>4, <2>5
  <1>2. CASE CheckInitialized
    BY <1>2 DEF CheckInitialized, Process, Steps, Goto, disk
  <1>3. CASE ApplyLatest
    BY <1>3 DEF ApplyLatest, Process, Steps, Goto, disk
  <1>4. CASE LabelFresh
    BY <1>4 DEF LabelFresh, Process, Steps, Goto, disk
  <1>5. CASE CheckMinimum
    <2>1. CASE recorded >= Minimum
      BY <1>5, <2>1 DEF CheckMinimum, Process, Steps, Goto, disk
    <2>2. CASE ~(recorded >= Minimum)
      BY <1>5, <2>2, ExitInv DEF CheckMinimum
    <2> QED
      BY <2>1, <2>2
  <1>6. CASE CompareVersions
    <2>1. UNCHANGED <<profile, schema, recorded, seeded, backups, starts>> /\ proc.pc = "compare"
      BY <1>6 DEF CompareVersions, disk
    <2>2. CASE recorded > proc.target
      BY <1>6, <2>1, <2>2, ExitInv DEF CompareVersions, disk, Process
    <2>3. CASE recorded = proc.target
      <3>1. proc' \in Process /\ proc'.pc = "seed" /\ proc'.target = proc.target
        BY <1>6, <2>1, <2>3 DEF CompareVersions, Goto, Process, Steps
      <3> QED
        BY <2>1, <2>3, <3>1
    <2>4. CASE recorded < proc.target
      <3> DEFINE step == IF profile.driver = "sqlite" THEN "reserve" ELSE "execute"
      <3>1. proc' = [proc EXCEPT !.pc = step, !.tables = schema, !.next = recorded + 1]
        BY <1>6, <2>1, <2>4 DEF CompareVersions, Process
      <3>2. step \in Steps
        BY DEF Steps
      <3> HIDE DEF step
      <3>3. /\ proc' \in Process /\ proc'.target = proc.target
            /\ proc'.tables = schema /\ proc'.next = recorded + 1 /\ proc'.pc = step
        <4>1. recorded + 1 \in Nat /\ schema \in Nat /\ proc \in Process
          OBVIOUS
        <4> QED
          BY ONLY <3>1, <3>2, <4>1 DEF Process
      <3> USE DEF step
      <3>4. TypeOK' /\ SlotInv'
        BY <2>1, <3>3
      <3>5. UpgradeInv'
        BY <2>1, <2>4, <3>3 DEF Process
      <3>6. BackupInv'
        BY <2>1, <3>3
      <3> QED
        BY <2>1, <3>3, <3>4, <3>5, <3>6
    <2> QED
      BY <2>2, <2>3, <2>4 DEF Process
  <1>7. CASE ReserveBackup
    <2>1. /\ proc' \in Process /\ proc'.pc = "copy" /\ proc'.target = proc.target
          /\ proc'.tables = proc.tables /\ proc'.next = proc.next
      BY <1>7 DEF ReserveBackup, Goto, Process, Steps
    <2>2. /\ backups' \in [1 .. MaxStarts -> Backup]
          /\ backups'[starts].source = recorded /\ backups'[starts].target = proc.target
          /\ ~backups'[starts].verified
          /\ \A k \in 1 .. MaxStarts : k # starts => backups'[k] = backups[k]
      BY <1>7 DEF ReserveBackup, Backup, Process
    <2>3. UNCHANGED <<profile, schema, recorded, seeded, starts>> /\ proc.pc = "reserve"
      BY <1>7 DEF ReserveBackup
    <2>4. TypeOK' /\ SlotInv'
      BY <2>1, <2>2, <2>3
    <2>5. BackupOfPendingUpgrade'
      BY <2>2, <2>3
    <2> QED
      BY <2>1, <2>2, <2>3, <2>4, <2>5
  <1>8. CASE CopyDatabase
    <2>1. /\ proc' \in Process /\ proc'.pc = "verify" /\ proc'.target = proc.target
          /\ proc'.tables = proc.tables /\ proc'.next = proc.next
      BY <1>8 DEF CopyDatabase, Goto, Process, Steps
    <2>2. PICK intact \in BOOLEAN :
            backups' = [backups EXCEPT ![starts].holds = schema, ![starts].intact = intact]
      BY <1>8 DEF CopyDatabase
    <2>3. UNCHANGED <<profile, schema, recorded, seeded, starts>> /\ proc.pc = "copy"
      BY <1>8 DEF CopyDatabase
    <2>4. [backups[starts] EXCEPT !.holds = schema, !.intact = intact] \in Backup
      BY <2>3, ZenonT(30) DEF Backup
    <2>5. /\ backups' \in [1 .. MaxStarts -> Backup]
          /\ backups'[starts].source = recorded /\ backups'[starts].target = proc.target
          /\ ~backups'[starts].verified /\ backups'[starts].holds = schema
          /\ \A k \in 1 .. MaxStarts : k # starts => backups'[k] = backups[k]
      BY <2>2, <2>3, <2>4 DEF Backup
    <2>6. TypeOK' /\ SlotInv'
      BY <2>1, <2>3, <2>5
    <2>7. BackupOfPendingUpgrade'
      BY <2>3, <2>5
    <2> QED
      BY <2>1, <2>3, <2>5, <2>6, <2>7
  <1>9. CASE ValidateBackup
    <2>1. UNCHANGED <<profile, schema, recorded, seeded, starts>> /\ proc.pc = "verify"
      BY <1>9 DEF ValidateBackup
    <2>2. CASE backups[starts].intact
      <3>1. /\ proc' \in Process /\ proc'.pc = "execute" /\ proc'.target = proc.target
            /\ proc'.tables = proc.tables /\ proc'.next = proc.next
        BY <1>9, <2>2 DEF ValidateBackup, Goto, Process, Steps
      <3>2. [backups[starts] EXCEPT !.verified = TRUE] \in Backup
        BY <2>1, ZenonT(30) DEF Backup
      <3>3. /\ backups' \in [1 .. MaxStarts -> Backup]
            /\ backups'[starts].source = recorded /\ backups'[starts].target = proc.target
            /\ backups'[starts].verified /\ backups'[starts].holds = schema
            /\ \A k \in 1 .. MaxStarts : k # starts => backups'[k] = backups[k]
        <4>1. backups' = [backups EXCEPT ![starts] = [backups[starts] EXCEPT !.verified = TRUE]]
          BY <1>9, <2>2 DEF ValidateBackup
        <4> QED
          BY <2>1, <3>2, <4>1 DEF Backup
      <3>4. TypeOK' /\ SlotInv'
        BY <2>1, <3>1, <3>3
      <3>5. BackupOfPendingUpgrade'
        BY <2>1, <3>3
      <3> QED
        BY <2>1, <3>1, <3>3, <3>4, <3>5
    <2>3. CASE ~backups[starts].intact
      BY <1>9, <2>1, <2>3, RemoveInv DEF ValidateBackup
    <2> QED
      BY <2>2, <2>3
  <1>10. CASE BackupFails
    BY <1>10, RemoveInv DEF BackupFails
  <1>11. CASE ExecuteMigration
    <2>1. /\ UNCHANGED <<profile, recorded, seeded, backups, starts>>
          /\ proc.pc = "execute" /\ proc.next <= proc.target
      BY <1>11 DEF ExecuteMigration
    <2>2. CASE Runs(proc.next, proc.tables)
      <3> DEFINE tables == IF proc.tables < proc.next THEN proc.next ELSE proc.tables
      <3>1. /\ proc' = [proc EXCEPT !.next = proc.next + 1, !.tables = tables]
            /\ schema' = IF profile.driver = "mysql" THEN proc'.tables ELSE schema
        BY <1>11, <2>2 DEF ExecuteMigration
      <3>2. tables \in Nat
        BY DEF Process
      <3> HIDE DEF tables
      <3>3. /\ proc' \in Process /\ proc'.pc = "execute" /\ proc'.target = proc.target
            /\ proc'.next = proc.next + 1 /\ proc'.tables = tables
            /\ schema' = IF profile.driver = "mysql" THEN tables ELSE schema
        <4>1. proc.next + 1 \in Nat /\ proc \in Process
          BY DEF Process
        <4> QED
          BY ONLY <2>1, <3>1, <3>2, <4>1 DEF Process
      <3> USE DEF tables
      <3>4. TypeOK' /\ SlotInv'
        BY <2>1, <3>3 DEF Process
      <3>5. RecordedNotAhead' /\ UpgradeInv'
        BY <2>1, <3>3 DEF Process
      <3>6. BackupInv' /\ NoPartialUpgrade'
        BY <2>1, <3>3
      <3> QED
        BY <2>1, <3>3, <3>4, <3>5, <3>6
    <2>3. CASE ~Runs(proc.next, proc.tables)
      BY <1>11, <2>1, <2>3, ExitInv DEF ExecuteMigration, disk
    <2> QED
      BY <2>2, <2>3
  <1>12. CASE CommitMigrations
    <2>1. /\ UNCHANGED <<profile, recorded, seeded, backups, starts>>
          /\ proc.pc = "execute" /\ proc.next > proc.target /\ schema' = proc.tables
      BY <1>12 DEF CommitMigrations
    <2>2. proc' \in Process /\ proc'.pc = "record" /\ proc'.target = proc.target
      BY <1>12 DEF CommitMigrations, Goto, Process, Steps
    <2>3. proc.tables = schema \/ proc.tables = proc.target
      BY <2>1 DEF Process
    <2>4. schema' >= proc.target /\ recorded <= schema'
      BY <2>1 DEF Process
    <2>5. TypeOK' /\ SlotInv'
      BY <2>1, <2>2 DEF Process
    <2> QED
      BY <2>1, <2>2, <2>3, <2>4, <2>5
  <1>13. CASE RecordVersion
    BY <1>13 DEF RecordVersion, Process, Steps, Goto, disk
  <1>14. CASE Seed
    <2>1. UNCHANGED <<profile, schema, recorded, backups, starts>> /\ proc.pc = "seed"
      BY <1>14 DEF Seed
    <2>2. seeded' \in BOOLEAN
      BY <1>14 DEF Seed
    <2>3. CASE Goto("up")
      <3>1. proc' \in Process /\ proc'.pc = "up" /\ proc'.target = proc.target
        BY <2>3 DEF Goto, Process, Steps
      <3> QED
        BY <2>1, <2>2, <3>1
    <2>4. CASE Exit /\ UNCHANGED seeded
      BY <2>1, <2>4, ExitInv DEF disk
    <2> QED
      BY <1>14, <2>3, <2>4 DEF Seed
  <1>15. CASE Stop
    BY <1>15, ExitInv DEF Stop
  <1>16. CASE UNCHANGED vars
    BY <1>16 DEF vars
  <1> QED
    BY <1>1, <1>2, <1>3, <1>4, <1>5, <1>6, <1>7, <1>8, <1>9, <1>10, <1>11, <1>12, <1>13, <1>14,
       <1>15, <1>16 DEF Next

(***************************************************************************)
(* The inductive invariant holds in every reachable state.                 *)
(***************************************************************************)
THEOREM Invariance == Spec => []IInv
  BY InitInv, NextInv, PTL DEF Spec

(***************************************************************************)
(* Type correctness, and with it that updateCurrentSchemaVersion only ever *)
(* records a version that some release or existing database has.           *)
(***************************************************************************)
THEOREM MigratorTypeCorrect == Spec => []TypeOK
  <1>1. IInv => TypeOK
    BY DEF IInv
  <1> QED
    BY <1>1, Invariance, PTL

(***************************************************************************)
(* The recorded schema version never claims a migration that is not in the *)
(* tables (applyMigrations commits before updateCurrentSchemaVersion, and  *)
(* preMigrate labels after LATEST.sql), for any restarts and releases.     *)
(***************************************************************************)
THEOREM RecordedNeverAhead == Spec => []RecordedNotAhead
  <1>1. IInv => RecordedNotAhead
    BY DEF IInv
  <1> QED
    BY <1>1, Invariance, PTL

(***************************************************************************)
(* Migrate lets the server start only on a database that has all of its    *)
(* migrations and records its version.                                     *)
(***************************************************************************)
THEOREM ServesComplete == Spec => []ServesCompleteSchema
  <1>1. IInv => ServesCompleteSchema
    BY DEF IInv, DoneInv, ServesCompleteSchema
  <1> QED
    BY <1>1, Invariance, PTL

(***************************************************************************)
(* With a transactional driver a database is never left between releases.  *)
(***************************************************************************)
THEOREM UpgradesAreWhole == Spec => []NoPartialUpgrade
  <1>1. IInv => NoPartialUpgrade
    BY DEF IInv
  <1> QED
    BY <1>1, Invariance, PTL

(***************************************************************************)
(* Every verified backup was taken of an upgradable database with an       *)
(* upgrade pending and is no older than its name says.                     *)
(***************************************************************************)
THEOREM BackupsArePending == Spec => []BackupOfPendingUpgrade
  <1>1. IInv => BackupOfPendingUpgrade
    BY DEF IInv
  <1> QED
    BY <1>1, Invariance, PTL

(***************************************************************************)
(* The tables of an existing SQLite database change only after the running *)
(* process has a verified backup of them: createPreMigrationBackup returns *)
(* before applyMigrations begins its transaction.                          *)
(***************************************************************************)
THEOREM BackupComesFirst == Spec => MigratesAfterBackup
  <1>1. ASSUME IInv, [Next]_vars, profile.driver = "sqlite", schema # 0, schema' # schema
        PROVE  backups[starts].verified /\ backups[starts].holds = schema
    <2>1. proc.pc # "latest"
      BY <1>1 DEF IInv, PrepareInv
    <2>2. CASE CommitMigrations
      BY <1>1, <2>2 DEF CommitMigrations, IInv, BackupInv
    <2>3. CASE ExecuteMigration
      BY <1>1, <2>3 DEF ExecuteMigration, IInv, BackupInv
    <2> QED
      BY <1>1, <2>1, <2>2, <2>3 DEF Next, vars, disk, Start, CheckInitialized, ApplyLatest,
         LabelFresh, CheckMinimum, CompareVersions, ReserveBackup, CopyDatabase, ValidateBackup,
         BackupFails, RecordVersion, Seed, Stop
  <1>2. IInv /\ [Next]_vars =>
          [profile.driver = "sqlite" /\ schema # 0 /\ schema' # schema =>
              backups[starts].verified /\ backups[starts].holds = schema]_vars
    BY <1>1
  <1> QED
    BY <1>2, Invariance, PTL DEF Spec, MigratesAfterBackup

(***************************************************************************)
(* A backup that passed validateSQLiteBackup stays as it is, whatever      *)
(* fails afterwards and however often the server is restarted.             *)
(***************************************************************************)
THEOREM VerifiedBackupsStay == Spec => VerifiedBackupKept
  <1> DEFINE Kept == \A k \in 1 .. MaxStarts : backups[k].verified => backups'[k] = backups[k]
  <1>1. ASSUME IInv, [Next]_vars PROVE Kept
    <2>1. CASE ReserveBackup \/ CopyDatabase \/ ValidateBackup \/ BackupFails
      <3>1. ~backups[starts].verified
        BY <1>1, <2>1 DEF IInv, SlotInv, BeforeBackup, ReserveBackup, CopyDatabase,
           ValidateBackup, BackupFails
      <3>2. \A k \in 1 .. MaxStarts : k # starts => backups'[k] = backups[k]
        BY <1>1, <2>1 DEF IInv, TypeOK, ReserveBackup, CopyDatabase, ValidateBackup, BackupFails
      <3> QED
        BY <3>1, <3>2
    <2>2. CASE UNCHANGED backups
      BY <2>2
    <2> QED
      BY <1>1, <2>1, <2>2 DEF Next, vars, disk, Start, CheckInitialized, ApplyLatest, LabelFresh,
         CheckMinimum, CompareVersions, ExecuteMigration, CommitMigrations, RecordVersion, Seed, Stop
  <1>2. IInv /\ [Next]_vars => [Kept]_vars
    BY <1>1
  <1> QED
    BY <1>2, Invariance, PTL DEF Spec, VerifiedBackupKept

(***************************************************************************)
(* The hub.  A registered client's channel is open, and a client whose     *)
(* handler is about to unsubscribe has lost its connection: the other way  *)
(* out of the loop is a closed channel, which only Close and Unsubscribe   *)
(* make.  A stream is empty until its handler has subscribed and once its  *)
(* connection is gone.                                                     *)
(***************************************************************************)
HubTypeOK ==
    /\ clients \subseteq Conns
    /\ closed \in BOOLEAN
    /\ handler \in [Conns -> {"none", "headers", "loop", "leaving"}]
    /\ buf \in [Conns -> Seq(Events)]
    /\ chanClosed \in [Conns -> BOOLEAN]
    /\ wire \in [Conns -> Seq(Events)]
    /\ alive \in [Conns -> BOOLEAN]
    /\ sending \in [Senders -> [event : Seq(Events), todo : SUBSET Conns]]
    /\ server \in {"serving", "closing", "draining", "stopped", "forced"}
    /\ panicked \in BOOLEAN

ClientInv ==
    \A c \in clients : ~chanClosed[c] /\ (handler[c] = "leaving" => ~alive[c])

WireInv ==
    \A c \in Conns : /\ ~alive[c] \/ handler[c] = "headers" => wire[c] = <<>>
                     /\ Len(wire[c]) <= WireCap

HoldsEvent(s) == \E e \in Events : sending[s].event = <<e>>
SenderInv == \A s \in Senders : sending[s].todo # {} => HoldsEvent(s)

HubInv ==
    /\ HubTypeOK
    /\ NoStrayChannel
    /\ ClientInv
    /\ WireInv
    /\ SenderInv

-----------------------------------------------------------------------------

\* A hub without clients satisfies the invariant.
LEMMA HubInitInv == HubInit => HubInv
  <1> SUFFICES ASSUME HubInit PROVE HubInv
    OBVIOUS
  <1>1. <<>> \in Seq(Events) /\ Len(<<>>) = 0
    OBVIOUS
  <1>2. HubTypeOK
    BY <1>1 DEF HubInit, HubTypeOK
  <1>3. WireInv
    BY <1>1, HubAssumption DEF HubInit, WireInv
  <1> QED
    BY <1>2, <1>3 DEF HubInit, HubInv, NoStrayChannel, NoPanic, NoOrphanClient, ClientInv, SenderInv

(***************************************************************************)
(* Steps of the handler and of its peer on one connection.                 *)
(***************************************************************************)
LEMMA AcceptInv ==
    ASSUME HubInv, NEW c \in Conns, Accept(c) PROVE HubInv'
  BY DEF HubInv, HubTypeOK, NoStrayChannel, NoPanic, NoOrphanClient, ClientInv, WireInv, SenderInv,
         HoldsEvent, Accept, Free

LEMMA SubscribeInv ==
    ASSUME HubInv, NEW c \in Conns, Subscribe(c) PROVE HubInv'
  BY DEF HubInv, HubTypeOK, NoStrayChannel, NoPanic, NoOrphanClient, ClientInv, WireInv, SenderInv,
         HoldsEvent, Subscribe, WriteLockFree

LEMMA WriteEventInv ==
    ASSUME HubInv, NEW c \in Conns, WriteEvent(c) PROVE HubInv'
  <1> USE DEF HubInv, HubTypeOK
  <1>1. /\ Head(buf[c]) \in Events /\ Tail(buf[c]) \in Seq(Events)
        /\ Append(wire[c], Head(buf[c])) \in Seq(Events)
        /\ Len(Append(wire[c], Head(buf[c]))) = Len(wire[c]) + 1
    BY DEF WriteEvent
  <1>2. HubTypeOK'
    BY <1>1 DEF WriteEvent
  <1>3. WireInv'
    BY <1>1, HubAssumption DEF WriteEvent, WireInv
  <1> QED
    BY <1>2, <1>3 DEF NoStrayChannel, NoPanic, NoOrphanClient, ClientInv, SenderInv, HoldsEvent, WriteEvent

LEMMA LeaveInv ==
    ASSUME HubInv, NEW c \in Conns, LeaveDead(c) \/ LeaveClosed(c) PROVE HubInv'
  <1> USE DEF HubInv, HubTypeOK, LeaveDead, LeaveClosed
  <1>1. HubTypeOK' /\ WireInv' /\ SenderInv'
    BY ZenonT(30) DEF WireInv, SenderInv, HoldsEvent
  <1>2. c \in clients => ~alive[c]
    BY DEF ClientInv
  <1>3. ClientInv'
    BY <1>2 DEF ClientInv
  <1> QED
    BY <1>1, <1>3 DEF NoStrayChannel, NoPanic, NoOrphanClient

LEMMA UnsubscribeInv ==
    ASSUME HubInv, NEW c \in Conns, Unsubscribe(c) PROVE HubInv'
  <1> USE DEF HubInv, HubTypeOK, Unsubscribe
  <1>1. ~panicked'
    BY DEF NoStrayChannel, NoPanic, ClientInv
  <1>2. HubTypeOK'
    BY <1>1
  <1>3. WireInv' /\ SenderInv' /\ ClientInv'
    BY DEF WireInv, SenderInv, HoldsEvent, ClientInv
  <1>4. NoOrphanClient'
    BY DEF NoStrayChannel, NoOrphanClient, WriteLockFree
  <1> QED
    BY <1>1, <1>2, <1>3, <1>4 DEF NoStrayChannel, NoPanic

LEMMA ReadWireInv ==
    ASSUME HubInv, NEW c \in Conns, ReadWire(c) PROVE HubInv'
  <1> USE DEF HubInv, HubTypeOK
  <1>1. Tail(wire[c]) \in Seq(Events) /\ Len(Tail(wire[c])) <= Len(wire[c])
    BY DEF ReadWire
  <1>2. wire[c] # <<>>
    BY DEF ReadWire
  <1>3. HubTypeOK'
    BY <1>1 DEF ReadWire
  <1>4. WireInv'
    BY <1>1, <1>2, HubAssumption DEF ReadWire, WireInv
  <1> QED
    BY <1>3, <1>4 DEF NoStrayChannel, NoPanic, NoOrphanClient, ClientInv, SenderInv, HoldsEvent, ReadWire

LEMMA DisconnectInv ==
    ASSUME HubInv, NEW c \in Conns, Disconnect(c) PROVE HubInv'
  BY HubAssumption
  DEF HubInv, HubTypeOK, NoStrayChannel, NoPanic, NoOrphanClient, ClientInv, WireInv, SenderInv,
      HoldsEvent, Disconnect

(***************************************************************************)
(* Broadcast.                                                              *)
(***************************************************************************)
LEMMA StartBroadcastInv ==
    ASSUME HubInv, NEW s \in Senders, NEW e \in Events, StartBroadcast(s, e) PROVE HubInv'
  <1> USE DEF HubInv, HubTypeOK
  <1>1. <<e>> \in Seq(Events) /\ <<>> \in Seq(Events)
    OBVIOUS
  <1>2. HubTypeOK'
    BY <1>1 DEF StartBroadcast, Loop
  <1>3. SenderInv' /\ NoOrphanClient'
    BY <1>1 DEF StartBroadcast, Loop, SenderInv, HoldsEvent, NoStrayChannel, NoOrphanClient
  <1> QED
    BY <1>2, <1>3 DEF NoStrayChannel, NoPanic, ClientInv, WireInv, StartBroadcast

LEMMA SendToInv ==
    ASSUME HubInv, NEW s \in Senders, NEW c \in Conns, SendTo(s, c) PROVE HubInv'
  <1> USE DEF HubInv, HubTypeOK
  <1> DEFINE e == Head(sending[s].event)
  <1>1. e \in Events /\ Append(buf[c], e) \in Seq(Events) /\ <<>> \in Seq(Events)
    BY DEF SendTo, SenderInv, HoldsEvent
  <1>2. HubTypeOK'
    BY <1>1 DEF SendTo, Loop
  <1>3. c \in clients /\ ~chanClosed[c]
    BY DEF SendTo, NoStrayChannel, NoOrphanClient, ClientInv
  <1>4. SenderInv' /\ NoOrphanClient'
    BY <1>1 DEF SendTo, Loop, SenderInv, HoldsEvent, NoStrayChannel, NoOrphanClient
  <1> QED
    BY <1>2, <1>3, <1>4 DEF NoStrayChannel, NoPanic, ClientInv, WireInv, SendTo

(***************************************************************************)
(* The shutdown.                                                           *)
(***************************************************************************)
LEMMA CloseInv == HubInv /\ Close => HubInv'
  <1> SUFFICES ASSUME HubInv, Close PROVE HubInv'
    OBVIOUS
  <1> USE DEF HubInv, HubTypeOK, Close
  <1>1. ~panicked'
    BY DEF NoStrayChannel, NoPanic, ClientInv
  <1>2. HubTypeOK'
    BY <1>1
  <1>3. WireInv' /\ SenderInv' /\ ClientInv'
    BY DEF WireInv, SenderInv, HoldsEvent, ClientInv
  <1>4. NoOrphanClient'
    BY DEF NoStrayChannel, NoOrphanClient, WriteLockFree
  <1> QED
    BY <1>1, <1>2, <1>3, <1>4 DEF NoStrayChannel, NoPanic

LEMMA StopInv == HubInv /\ (StopListening \/ Drained \/ ForceClose) => HubInv'
  <1> SUFFICES ASSUME HubInv, StopListening \/ Drained \/ ForceClose PROVE HubInv'
    OBVIOUS
  <1> USE DEF HubInv, HubTypeOK, StopListening, Drained, ForceClose
  <1>1. HubTypeOK'
    <2>1. CASE ForceClose
      <3>1. wire' \in [Conns -> Seq(Events)]
        BY <2>1
      <3>2. alive' \in [Conns -> BOOLEAN]
        BY <2>1
      <3> QED
        BY <2>1, <3>1, <3>2
    <2>2. CASE StopListening \/ Drained
      BY <2>2
    <2> QED
      BY <2>1, <2>2
  <1>2. WireInv'
    BY HubAssumption DEF WireInv
  <1>3. NoStrayChannel' /\ ClientInv' /\ SenderInv'
    BY DEF NoStrayChannel, NoPanic, NoOrphanClient, ClientInv, SenderInv, HoldsEvent
  <1> QED
    BY <1>1, <1>2, <1>3

LEMMA HubStepInv == HubInv /\ [HubNext]_hubVars => HubInv'
  <1> SUFFICES ASSUME HubInv, [HubNext]_hubVars PROVE HubInv'
    OBVIOUS
  <1>1. CASE UNCHANGED hubVars
    BY <1>1 DEF hubVars, HubInv, HubTypeOK, NoStrayChannel, NoPanic, NoOrphanClient, ClientInv, WireInv,
                SenderInv, HoldsEvent
  <1>2. CASE HubNext
    BY <1>2, AcceptInv, SubscribeInv, WriteEventInv, LeaveInv, UnsubscribeInv, ReadWireInv, DisconnectInv,
       StartBroadcastInv, SendToInv, CloseInv, StopInv
    DEF HubNext, HandlerStep, PeerStep, ShutdownStep
  <1> QED
    BY <1>1, <1>2

(***************************************************************************)
(* NoStrayChannel for the hub alone: no order of Subscribe, Unsubscribe,   *)
(* Broadcast and Close sends on or closes a closed channel, or leaves a    *)
(* client registered without a handler.                                    *)
(***************************************************************************)
THEOREM HubIsSafe == HubSpec => []NoStrayChannel
  <1>1. HubSpec => []HubInv
    BY HubInitInv, HubStepInv, PTL DEF HubSpec
  <1>2. HubInv => NoStrayChannel
    BY DEF HubInv
  <1> QED
    BY <1>1, <1>2, PTL

-----------------------------------------------------------------------------
(***************************************************************************)
(* The hub implements EventStreams.  A connection's queue is what its      *)
(* stream holds and what its handler can still write.                      *)
(***************************************************************************)
Unwritten(c) == IF handler[c] = "loop" /\ alive[c] THEN buf[c] ELSE <<>>
Queue == [c \in Conns |-> wire[c] \o Unwritten(c)]

\* Moving the head of one sequence to the end of the other keeps their concatenation.
LEMMA MoveHead ==
    ASSUME NEW S, NEW s \in Seq(S), NEW t \in Seq(S), t # <<>>
    PROVE  Append(s, Head(t)) \o Tail(t) = s \o t
  OBVIOUS

LEMMA TailOfConcat ==
    ASSUME NEW S, NEW s \in Seq(S), NEW t \in Seq(S), s # <<>>
    PROVE  s \o t # <<>> /\ Tail(s) \o t = Tail(s \o t)
  OBVIOUS

LEMMA AppendToConcat ==
    ASSUME NEW S, NEW s \in Seq(S), NEW t \in Seq(S), NEW e \in S
    PROVE  s \o Append(t, e) = Append(s \o t, e) /\ Len(s \o t) = Len(s) + Len(t)
  OBVIOUS

LEMMA QueueType == HubInv => Queue \in [Conns -> Seq(Events)]
  <1> SUFFICES ASSUME HubInv, NEW c \in Conns PROVE wire[c] \o Unwritten(c) \in Seq(Events)
    BY DEF Queue
  <1>1. wire[c] \in Seq(Events) /\ Unwritten(c) \in Seq(Events)
    BY DEF HubInv, HubTypeOK, Unwritten
  <1> QED
    BY <1>1

\* Nothing registered and nothing queued.
LEMMA StreamsStart == HubInit => Streams!StreamInit
  BY DEF HubInit, Streams!StreamInit

\* A step that changes neither the streams nor the clients.
StreamsKept == clients' = clients /\ Queue' = Queue

StreamStep == \/ \E c \in Conns : Streams!Join(c) \/ Streams!Read(c)
              \/ \E c \in Conns : \E e \in {x \in Events : canReceive(x)} : Streams!Accept(c, e)
              \/ \E cs \in SUBSET Conns : Streams!Lose(cs) \/ Streams!Leave(cs)

LEMMA AcceptStreams ==
    ASSUME HubInv, NEW c \in Conns, Accept(c) PROVE StreamsKept
  BY DEF HubInv, HubTypeOK, Accept, Free, StreamsKept, Queue, Unwritten

LEMMA SubscribeStreams ==
    ASSUME HubInv, NEW c \in Conns, Subscribe(c) PROVE Streams!Join(c) \/ StreamsKept
  <1> USE DEF HubInv, HubTypeOK, Subscribe
  <1>1. wire[c] = <<>> /\ c \notin clients
    BY DEF WireInv, NoStrayChannel, NoOrphanClient
  <1>2. Queue[c] = <<>> /\ \A x \in Conns : Queue'[x] = Queue[x]
    <2>1. <<>> \o <<>> = <<>>
      OBVIOUS
    <2>2. Queue[c] = <<>> /\ Queue'[c] = <<>>
      BY <1>1, <2>1 DEF Queue, Unwritten
    <2>3. ASSUME NEW x \in Conns, x # c PROVE Queue'[x] = Queue[x]
      BY <2>3 DEF Queue, Unwritten
    <2> QED
      BY <2>2, <2>3
  <1>5. Queue' = [Queue EXCEPT ![c] = <<>>] /\ Queue' = Queue
    BY <1>2 DEF Queue
  <1>3. CASE closed
    BY <1>3, <1>5 DEF StreamsKept
  <1>4. CASE ~closed
    BY <1>1, <1>4, <1>5 DEF Streams!Join, Queue, Unwritten
  <1> QED
    BY <1>3, <1>4

LEMMA WriteEventStreams ==
    ASSUME HubInv, NEW c \in Conns, WriteEvent(c) PROVE StreamsKept
  <1> USE DEF HubInv, HubTypeOK, WriteEvent
  <1>1. Append(wire[c], Head(buf[c])) \o Tail(buf[c]) = wire[c] \o buf[c]
    BY MoveHead
  <1> QED
    BY <1>1 DEF StreamsKept, Queue, Unwritten

LEMMA LeaveStreams ==
    ASSUME HubInv, NEW c \in Conns, LeaveDead(c) \/ LeaveClosed(c) PROVE StreamsKept
  BY DEF HubInv, HubTypeOK, LeaveDead, LeaveClosed, StreamsKept, Queue, Unwritten

LEMMA UnsubscribeStreams ==
    ASSUME HubInv, NEW c \in Conns, Unsubscribe(c) PROVE Streams!Leave({c})
  <1>1. Queue' = Queue
    BY DEF HubInv, HubTypeOK, Unsubscribe, Queue, Unwritten
  <1>2. clients' = clients \ {c}
    BY DEF Unsubscribe
  <1> QED
    BY <1>1, <1>2 DEF Streams!Leave, Queue, Unwritten

LEMMA ReadWireStreams ==
    ASSUME HubInv, NEW c \in Conns, ReadWire(c) PROVE Streams!Read(c)
  <1> USE DEF HubInv, HubTypeOK, ReadWire
  <1>1. /\ wire[c] \o Unwritten(c) # <<>>
        /\ Tail(wire[c]) \o Unwritten(c) = Tail(wire[c] \o Unwritten(c))
    BY TailOfConcat DEF Unwritten
  <1>2. Queue' = [Queue EXCEPT ![c] = Tail(@)] /\ Queue[c] # <<>>
    BY <1>1 DEF Queue, Unwritten
  <1> QED
    BY <1>2 DEF Streams!Read, Queue, Unwritten

LEMMA DisconnectStreams ==
    ASSUME HubInv, NEW c \in Conns, Disconnect(c) PROVE Streams!Lose({c})
  <1>1. ASSUME NEW x \in Conns PROVE Queue'[x] = IF x \in {c} THEN <<>> ELSE Queue[x]
    <2>1. <<>> \o <<>> = <<>>
      OBVIOUS
    <2> QED
      BY <2>1 DEF HubInv, HubTypeOK, Disconnect, Queue, Unwritten
  <1>2. Queue' = [x \in Conns |-> IF x \in {c} THEN <<>> ELSE Queue[x]]
    BY <1>1 DEF Queue
  <1> QED
    BY <1>2 DEF Disconnect, Streams!Lose, Queue, Unwritten

LEMMA StartBroadcastStreams ==
    ASSUME NEW s \in Senders, NEW e \in Events, StartBroadcast(s, e) PROVE StreamsKept
  BY DEF StartBroadcast, StreamsKept, Queue, Unwritten

\* A visit of Broadcast adds a permitted event to a stream that has room, or nothing.
LEMMA SendToStreams ==
    ASSUME HubInv, NEW s \in Senders, NEW c \in Conns, SendTo(s, c)
    PROVE  StreamsKept \/ \E e \in {x \in Events : canReceive(x)} : Streams!Accept(c, e)
  <1> USE DEF HubInv, HubTypeOK
  <1>0. PICK e \in Events : sending[s].event = <<e>>
    BY DEF SendTo, SenderInv, HoldsEvent
  <1>1. Head(sending[s].event) = e /\ c \in clients
    BY <1>0 DEF SendTo, NoStrayChannel, NoOrphanClient
  <1>2. CASE Fits(s, c) /\ handler[c] = "loop" /\ alive[c]
    <2>1. canReceive(e) /\ Len(buf[c]) < BufferCap
      BY <1>1, <1>2 DEF Fits
    <2>2. /\ wire[c] \o Append(buf[c], e) = Append(wire[c] \o buf[c], e)
          /\ Len(wire[c] \o buf[c]) = Len(wire[c]) + Len(buf[c])
      BY <1>1, AppendToConcat
    <2>3. Queue' = [Queue EXCEPT ![c] = Append(@, e)]
      BY <1>1, <1>2, <2>2 DEF Queue, Unwritten, SendTo
    <2>4. Queue[c] = wire[c] \o buf[c]
      BY <1>2 DEF Queue, Unwritten
    <2>5. Len(wire[c]) <= WireCap /\ Len(wire[c]) \in Nat /\ Len(buf[c]) \in Nat
      BY DEF WireInv
    <2>6. Len(Queue[c]) < BufferCap + WireCap
      BY <2>1, <2>2, <2>4, <2>5, HubAssumption
    <2>7. Streams!Accept(c, e)
      BY <1>1, <2>3, <2>6 DEF Streams!Accept, Queue, Unwritten, SendTo
    <2> QED
      BY <2>1, <2>7
  <1>3. CASE ~(Fits(s, c) /\ handler[c] = "loop" /\ alive[c])
    BY <1>3 DEF SendTo, StreamsKept, Queue, Unwritten
  <1> QED
    BY <1>2, <1>3

LEMMA ShutdownStreams ==
    ASSUME HubInv, ShutdownStep
    PROVE  StreamsKept \/ \E cs \in SUBSET Conns : Streams!Lose(cs) \/ Streams!Leave(cs)
  <1> USE DEF HubInv, HubTypeOK
  <1>1. CASE Close
    <2>1. Streams!Leave(clients)
      BY <1>1 DEF Close, Streams!Leave
    <2> QED
      BY <2>1
  <1>2. CASE ForceClose
    <2>1. Queue' = [x \in Conns |-> IF x \in Conns THEN <<>> ELSE Queue[x]]
      BY <1>2 DEF ForceClose, Queue, Unwritten
    <2>2. Streams!Lose(Conns)
      BY <1>2, <2>1 DEF ForceClose, Streams!Lose, Queue, Unwritten
    <2> QED
      BY <2>2
  <1>3. CASE StopListening \/ Drained
    BY <1>3 DEF StopListening, Drained, StreamsKept, Queue, Unwritten
  <1> QED
    BY <1>1, <1>2, <1>3 DEF ShutdownStep

(***************************************************************************)
(* Every step of the hub is a step of the streams or leaves them alone.    *)
(***************************************************************************)
LEMMA HubSimulates == HubInv /\ [HubNext]_hubVars => [StreamStep]_<<clients, Queue>>
  <1> SUFFICES ASSUME HubInv, [HubNext]_hubVars PROVE StreamStep \/ StreamsKept
    BY DEF StreamsKept
  <1>1. CASE UNCHANGED hubVars
    BY <1>1 DEF hubVars, StreamsKept, Queue, Unwritten
  <1>2. ASSUME NEW c \in Conns, HandlerStep(c) \/ PeerStep(c) PROVE StreamStep \/ StreamsKept
    BY <1>2, AcceptStreams, SubscribeStreams, WriteEventStreams, LeaveStreams, UnsubscribeStreams,
       ReadWireStreams, DisconnectStreams
    DEF HandlerStep, PeerStep, StreamStep
  <1>3. ASSUME NEW s \in Senders, NEW c \in Conns, SendTo(s, c) PROVE StreamStep \/ StreamsKept
    BY <1>3, SendToStreams DEF StreamStep
  <1>4. CASE ShutdownStep
    BY <1>4, ShutdownStreams DEF StreamStep
  <1> QED
    BY <1>1, <1>2, <1>3, <1>4, StartBroadcastStreams DEF HubNext

(***************************************************************************)
(* HubIsLossyStreams for the hub alone: whatever the capacities, the       *)
(* number of connections and the interleaving of senders, an event reaches *)
(* a browser at most once, in the order of Broadcast and only if its user  *)
(* may see it.                                                             *)
(***************************************************************************)
THEOREM HubImplementsStreams == HubSpec => HubIsLossyStreams
  <1>1. HubSpec => []HubInv
    BY HubInitInv, HubStepInv, PTL DEF HubSpec
  <1>2. HubInv /\ [HubNext]_hubVars => [Streams!StreamNext]_<<clients, Queue>>
    BY HubSimulates DEF StreamStep, Streams!StreamNext
  <1> QED
    BY <1>1, <1>2, StreamsStart, PTL DEF HubSpec, HubIsLossyStreams, Streams!StreamSpec, Queue, Unwritten

(***************************************************************************)
(* The tab.  Its news of a query may be with a handler that has not        *)
(* announced its change, in a loop of Broadcast, in the channel of a       *)
(* stream whose handler still reads it, or on the wire.  An answer that a  *)
(* commit has overtaken is stale, and so is what the page shows then.      *)
(***************************************************************************)
PendingInv ==
    /\ pending \in [Senders -> Seq(Changes)]
    /\ \A s \in Senders : pending[s] = <<>> \/ \E ch \in Changes : pending[s] = <<ch>>

Run == [mounted : {"new", "yes", "no"},
        phase : {"idle", "token", "fetch", "reading", "leaked", "wait"},
        conn : Conns \cup {None}]

EffInv ==
    /\ eff \in [Effects -> Run]
    /\ abortRef \in Effects \cup {None}
    /\ \A e \in Effects : eff[e].phase = "reading" => eff[e].conn # None

ViewInv == view \in [Active -> [shown : {"fresh", "stale"}, fetch : {"none", "asked", "fresh", "stale"}]]

TabInv == PendingInv /\ EffInv /\ ViewInv

OnWire(c, e) == \E i \in 1 .. Len(wire[c]) : wire[c][i] = e
InChannel(c, e) == handler[c] = "loop" /\ \E i \in 1 .. Len(buf[c]) : buf[c][i] = e
InLoop(c, e) == \E s \in Senders : c \in sending[s].todo /\ sending[s].event = <<e>>

Tells(e, q) == canReceive(e) /\ q \in handleSSEEvent(e)
NewsAt(c, q) == \E e \in Events : Tells(e, q) /\ (OnWire(c, e) \/ InChannel(c, e) \/ InLoop(c, e))
NewsPending(q) ==
    \E s \in Senders, ch \in Changes : pending[s] = <<ch>> /\ q \in Affects(ch) /\ Tells(EventOf(ch), q)
NewsOnStream(q) == \E c \in Conns : Current(c) /\ NewsAt(c, q)

Accounted(q) ==
    \/ view[q].fetch \in {"asked", "fresh"}
    \/ NewsPending(q)
    \/ NewsOnStream(q)
    \/ q \in unheard \cup untold

QueryInv(q) == /\ view[q].shown = "stale" => Accounted(q)
               /\ view[q].fetch = "stale" => view[q].shown = "stale"

LiveInv == HubInv /\ TabInv /\ \A q \in Active : QueryInv(q)

-----------------------------------------------------------------------------
(***************************************************************************)
(* Every step of the tab and of the memo handlers is a step of the hub, or *)
(* leaves the hub alone.                                                   *)
(***************************************************************************)
LEMMA AnnounceIsHubStep ==
    ASSUME TabInv, NEW s \in Senders, Announce(s)
    PROVE  \E e \in Events : StartBroadcast(s, e)
  <1>1. PICK ch \in Changes : pending[s] = <<ch>>
    BY DEF TabInv, PendingInv, Announce
  <1>2. Head(pending[s]) = ch /\ EventOf(ch) \in Events
    BY <1>1, EventsAssumption
  <1>3. StartBroadcast(s, EventOf(ch))
    BY <1>2 DEF Announce
  <1> QED
    BY <1>2, <1>3

\* The abort of the last controller breaks at most one connection.
LEMMA UnmountIsHubStep ==
    ASSUME HubInv, TabInv, NEW e \in Effects, Unmount(e)
    PROVE  UNCHANGED hubVars \/ \E c \in Conns : Disconnect(c)
  <1> USE DEF HubInv, HubTypeOK, TabInv, PendingInv, EffInv, Run, ViewInv
  <1> DEFINE cut == {eff[f].conn : f \in {f \in {abortRef} \ {None} : eff[f].phase \in {"fetch", "reading"}}} \ {None}
  <1>1. /\ alive' = [c \in Conns |-> alive[c] /\ c \notin cut]
        /\ wire' = [c \in Conns |-> IF c \in cut THEN <<>> ELSE wire[c]]
        /\ UNCHANGED <<clients, closed, handler, buf, chanClosed, sending, server, panicked>>
    BY DEF Unmount
  <1>2. cut = {} \/ \E c \in Conns : cut = {c}
    OBVIOUS
  <1> HIDE DEF cut
  <1>3. CASE cut = {}
    BY <1>1, <1>3 DEF hubVars
  <1>4. ASSUME NEW c \in Conns, cut = {c}, alive[c] PROVE Disconnect(c)
    <2>1. alive' = [alive EXCEPT ![c] = FALSE]
      BY <1>1, <1>4
    <2>2. wire' = [wire EXCEPT ![c] = <<>>]
      BY <1>1, <1>4
    <2> QED
      BY <1>1, <1>4, <2>1, <2>2 DEF Disconnect
  <1>5. ASSUME NEW c \in Conns, cut = {c}, ~alive[c] PROVE UNCHANGED hubVars
    <2>1. wire[c] = <<>>
      BY <1>5 DEF WireInv
    <2>2. alive' = alive
      BY <1>1, <1>5
    <2>3. wire' = wire
      BY <1>1, <1>5, <2>1
    <2> QED
      BY <1>1, <2>2, <2>3 DEF hubVars
  <1> QED
    BY <1>2, <1>3, <1>4, <1>5

LEMMA TabIsHubStep ==
    ASSUME TabInv, NEW e \in Effects, TabStep(e)
    PROVE  UNCHANGED hubVars \/ \E c \in Conns : PeerStep(c)
  <1> USE DEF TabInv, PendingInv, EffInv, Run, ViewInv
  <1>1. CASE TokenReady(e) \/ ConnectFails(e) \/ Opened(e) \/ Retry(e)
    BY <1>1 DEF TokenReady, ConnectFails, Opened, Retry
  <1>2. ASSUME NEW c \in Conns, Request(e, c) PROVE PeerStep(c)
    BY <1>2 DEF Request, PeerStep
  <1>3. CASE ReadEvent(e)
    <2>1. PICK c \in Conns : eff[e].conn = c
      BY <1>3 DEF ReadEvent
    <2>2. ReadWire(c)
      BY <1>3, <2>1 DEF ReadEvent, ReadWire
    <2> QED
      BY <2>2 DEF PeerStep
  <1>4. CASE StreamEnd(e)
    <2>1. PICK c \in Conns : eff[e].conn = c
      BY <1>4 DEF StreamEnd
    <2>2. UNCHANGED hubVars \/ Disconnect(c)
      BY <1>4, <2>1 DEF StreamEnd, Disconnect
    <2> QED
      BY <2>2 DEF PeerStep
  <1> QED
    BY <1>1, <1>2, <1>3, <1>4 DEF TabStep

LEMMA LiveIsHubStep ==
    ASSUME HubInv, TabInv, [LiveNext]_liveVars
    PROVE  [HubNext]_hubVars
  <1>1. CASE UNCHANGED liveVars
    BY <1>1 DEF liveVars
  <1>2. ASSUME NEW q \in Active, Answer(q) \/ Arrive(q) \/ FetchFails(q) PROVE UNCHANGED hubVars
    BY <1>2 DEF Answer, Arrive, FetchFails
  <1>3. ASSUME NEW s \in Senders, SenderStep(s) PROVE HubNext
    <2>1. CASE Announce(s)
      BY <2>1, AnnounceIsHubStep DEF HubNext
    <2>2. ASSUME NEW c \in Conns, Broadcast(s, c) PROVE HubNext
      BY <2>2 DEF Broadcast, HubNext
    <2> QED
      BY <1>3, <2>1, <2>2 DEF SenderStep
  <1>4. ASSUME NEW s \in Senders, FailBeforeBroadcast(s) PROVE UNCHANGED hubVars
    BY <1>4 DEF FailBeforeBroadcast
  <1>5. ASSUME NEW s \in Senders, NEW ch \in Changes, Commit(s, ch) PROVE UNCHANGED hubVars
    BY <1>5 DEF Commit
  <1>6. ASSUME NEW e \in Effects, TabStep(e) \/ Mount(e) \/ Unmount(e) PROVE [HubNext]_hubVars
    <2>1. CASE TabStep(e)
      BY <2>1, TabIsHubStep DEF HubNext
    <2>2. CASE Mount(e)
      BY <2>2 DEF Mount
    <2>3. CASE Unmount(e)
      BY <2>3, UnmountIsHubStep DEF HubNext, PeerStep
    <2> QED
      BY <1>6, <2>1, <2>2, <2>3
  <1>7. ASSUME NEW c \in Conns, Handle(c) \/ Drop(c) PROVE HubNext
    BY <1>7 DEF Handle, Drop, HubNext, PeerStep
  <1>8. CASE Shutdown
    BY <1>8 DEF Shutdown, HubNext
  <1> QED
    BY <1>1, <1>2, <1>3, <1>4, <1>5, <1>6, <1>7, <1>8 DEF LiveNext

-----------------------------------------------------------------------------
(***************************************************************************)
(* The types of the tab, action by action.                                 *)
(***************************************************************************)
LEMMA QueryStepTab ==
    ASSUME TabInv, NEW q \in Active, Answer(q) \/ Arrive(q) \/ FetchFails(q) PROVE TabInv'
  BY SMTT(30) DEF TabInv, PendingInv, EffInv, ViewInv, Answer, Arrive, FetchFails, tabVars

LEMMA CommitTab ==
    ASSUME TabInv, NEW s \in Senders, NEW ch \in Changes, Commit(s, ch) PROVE TabInv'
  <1>1. PendingInv'
    BY DEF TabInv, PendingInv, Commit
  <1>2. ViewInv'
    BY DEF TabInv, ViewInv, Commit, Outdate
  <1> QED
    BY <1>1, <1>2 DEF TabInv, EffInv, Commit, tabVars

LEMMA PendingDone ==
    ASSUME TabInv, NEW s \in Senders, Announce(s) \/ FailBeforeBroadcast(s) PROVE TabInv'
  <1>1. <<>> \in Seq(Changes)
    OBVIOUS
  <1>2. PendingInv'
    BY <1>1 DEF TabInv, PendingInv, Announce, FailBeforeBroadcast
  <1> QED
    BY <1>2 DEF TabInv, ViewInv, EffInv, Announce, FailBeforeBroadcast, tabVars

LEMMA TabStepTab ==
    ASSUME TabInv, NEW e \in Effects, TabStep(e) \/ Mount(e) \/ Unmount(e) PROVE TabInv'
  <1>1. CASE TokenReady(e) \/ Retry(e) \/ Mount(e)
    <2>1. EffInv'
      BY <1>1 DEF TokenReady, Retry, Mount, TabInv, EffInv, Run
    <2> QED
      BY <1>1, <2>1 DEF TokenReady, Retry, Mount, TabInv, PendingInv, ViewInv
  <1>2. ASSUME NEW c \in Conns, Request(e, c) PROVE TabInv'
    <2>1. EffInv'
      BY <1>2, LiveAssumption DEF Request, TabInv, EffInv, Run
    <2> QED
      BY <1>2, <2>1 DEF Request, TabInv, PendingInv, ViewInv
  <1>3. CASE ConnectFails(e)
    <2>1. EffInv'
      BY <1>3 DEF ConnectFails, Ended, TabInv, EffInv, Run
    <2> QED
      BY <1>3, <2>1 DEF ConnectFails, TabInv, PendingInv, ViewInv
  <1>4. CASE Opened(e)
    <2>1. EffInv'
      BY <1>4 DEF Opened, TabInv, EffInv, Run
    <2>2. ViewInv'
      BY <1>4 DEF Opened, Resync, Invalidate, TabInv, ViewInv
    <2> QED
      BY <1>4, <2>1, <2>2 DEF Opened, TabInv, PendingInv
  <1>5. CASE ReadEvent(e)
    <2>1. EffInv'
      BY <1>5 DEF ReadEvent, TabInv, EffInv, Run
    <2>2. ViewInv'
      BY <1>5 DEF ReadEvent, Invalidate, TabInv, ViewInv
    <2> QED
      BY <1>5, <2>1, <2>2 DEF ReadEvent, TabInv, PendingInv
  <1>6. CASE StreamEnd(e)
    <2>1. EffInv'
      BY <1>6, ZenonT(30) DEF StreamEnd, Ended, TabInv, EffInv, Run
    <2> QED
      BY <1>6, <2>1 DEF StreamEnd, TabInv, PendingInv, ViewInv
  <1>7. CASE Unmount(e)
    <2> DEFINE stopped(f) == [eff[f] EXCEPT !.phase = "idle", !.conn = None]
               aborted == {f \in {abortRef} \ {None} : eff[f].phase \in {"fetch", "reading"}}
               after == [f \in Effects |-> IF f \in aborted \/ (f = e /\ eff[f].phase = "wait")
                                             THEN stopped(f) ELSE eff[f]]
    <2>0. eff' = [after EXCEPT ![e].mounted = "no"]
      BY <1>7 DEF Unmount
    <2>1. ASSUME NEW f \in Effects
          PROVE  eff'[f] \in {eff[f], stopped(f), [eff[f] EXCEPT !.mounted = "no"], [stopped(f) EXCEPT !.mounted = "no"]}
      <3>1. after[f] \in {eff[f], stopped(f)}
        OBVIOUS
      <3> HIDE DEF aborted, stopped
      <3>2. eff'[f] = after[f] \/ eff'[f] = [after[f] EXCEPT !.mounted = "no"]
        BY <2>0, SMTT(30)
      <3> QED
        BY <3>1, <3>2
    <2>2. ASSUME NEW f \in Effects PROVE eff'[f] \in Run /\ (eff'[f].phase = "reading" => eff'[f].conn # None)
      <3>1. eff[f] \in Run /\ (eff[f].phase = "reading" => eff[f].conn # None)
        BY DEF TabInv, EffInv
      <3>2. CASE eff'[f] = eff[f]
        BY <3>1, <3>2
      <3>3. CASE eff'[f] = stopped(f)
        BY <3>1, <3>3 DEF Run
      <3>4. CASE eff'[f] = [eff[f] EXCEPT !.mounted = "no"]
        BY <3>1, <3>4 DEF Run
      <3>5. CASE eff'[f] = [stopped(f) EXCEPT !.mounted = "no"]
        BY <3>1, <3>5 DEF Run
      <3> QED
        BY <2>1, <3>2, <3>3, <3>4, <3>5
    <2>3. EffInv'
      BY <1>7, <2>2 DEF Unmount, TabInv, EffInv
    <2> QED
      BY <1>7, <2>3 DEF Unmount, TabInv, PendingInv, ViewInv
  <1> QED
    BY <1>1, <1>2, <1>3, <1>4, <1>5, <1>6, <1>7 DEF TabStep

LEMMA LiveStepTab ==
    ASSUME TabInv, [LiveNext]_liveVars PROVE TabInv'
  <1>1. CASE UNCHANGED liveVars
    BY <1>1 DEF liveVars, tabVars, TabInv, PendingInv, EffInv, Run, ViewInv
  <1>2. ASSUME NEW s \in Senders, SenderStep(s) \/ FailBeforeBroadcast(s) PROVE TabInv'
    <2>1. ASSUME NEW c \in Conns, Broadcast(s, c) PROVE TabInv'
      BY <2>1 DEF Broadcast, tabVars, TabInv, PendingInv, EffInv, Run, ViewInv
    <2>2. CASE Announce(s) \/ FailBeforeBroadcast(s)
      BY <2>2, PendingDone
    <2> QED
      BY <1>2, <2>1, <2>2 DEF SenderStep
  <1>3. ASSUME NEW c \in Conns, Handle(c) \/ Drop(c) PROVE TabInv'
    BY <1>3 DEF Handle, Drop, tabVars, TabInv, PendingInv, EffInv, Run, ViewInv
  <1>4. CASE Shutdown
    BY <1>4 DEF Shutdown, tabVars, TabInv, PendingInv, EffInv, Run, ViewInv
  <1> QED
    BY <1>1, <1>2, <1>3, <1>4, QueryStepTab, CommitTab, TabStepTab DEF LiveNext

-----------------------------------------------------------------------------
\* An answer that a change makes different is one its event tells the tab of,
\* or a listed gap of the protocol, for every kind of change.
LEMMA ChangeIsTold ==
    ASSUME NEW ch \in Changes, NEW q \in Affects(ch)
    PROVE  q \in Unannounced(ch) \/ Tells(EventOf(ch), q)
  <1>1. /\ ch.kind \in Kinds /\ ch.visibility \in {"PRIVATE", "PROTECTED", "PUBLIC"} /\ Sees(ch)
        /\ q \in Active /\ q \in Changed(ch)
    BY LiveAssumption DEF Affects, Changed
  <1>2. ch.kind = "memo.withdrawn" \/ canReceive(EventOf(ch))
    BY <1>1 DEF Kinds, Sees, canReceive, EventOf, CreatedEvent, UpdatedEvent, DeletedEvent, CommentEvent,
                ReactionEvent, Event
  <1>3. CASE ch.kind = "memo.withdrawn"
    BY <1>1, <1>3 DEF Changed, Unannounced
  <1>4. CASE ch.kind # "memo.withdrawn"
    <2>1. q \in Unannounced(ch) \/ q \in Invalidated(EventOf(ch))
      BY <1>1, <1>4, ZenonT(30) DEF Kinds, Changed, Unannounced, Invalidated, EventOf, CreatedEvent, UpdatedEvent, DeletedEvent,
                        CommentEvent, ReactionEvent, Event, Subject, IsComment, Queries
    <2> QED
      BY <1>1, <1>2, <1>4, <2>1 DEF Tells, handleSSEEvent
  <1> QED
    BY <1>3, <1>4

\* News that is on a stream is what Unmount, Drop and Shutdown write off.
LEMMA NewsIsOnTheWay ==
    ASSUME NEW c \in Conns, NEW q, NewsAt(c, q) PROVE q \in OnTheWay(c)
  <1>1. PICK e \in Events : Tells(e, q) /\ (OnWire(c, e) \/ InChannel(c, e) \/ InLoop(c, e))
    BY DEF NewsAt
  <1>2. e \in InPipe(c)
    BY <1>1 DEF OnWire, InChannel, InLoop, InPipe
  <1> QED
    BY <1>1, <1>2 DEF Tells, OnTheWay

(***************************************************************************)
(* The news of one query survives every step, or is written off.           *)
(***************************************************************************)
LEMMA QueryStepKeeps ==
    ASSUME LiveInv, NEW p \in Active, NEW q \in Active, Answer(p) \/ Arrive(p) \/ FetchFails(p)
    PROVE  QueryInv(q)'
  <1> USE DEF LiveInv, TabInv, ViewInv, QueryInv
  <1>1. NewsPending(q)' = NewsPending(q) /\ NewsOnStream(q)' = NewsOnStream(q)
    BY DEF Answer, Arrive, FetchFails, hubVars, tabVars, NewsPending, NewsOnStream, NewsAt, OnWire, InChannel, InLoop,
           Current
  <1>2. CASE Answer(p)
    BY <1>1, <1>2 DEF Answer, Accounted
  <1>3. CASE Arrive(p)
    BY <1>1, <1>3 DEF Arrive, Accounted
  <1>4. CASE FetchFails(p)
    BY <1>1, <1>4 DEF FetchFails, Accounted
  <1> QED
    BY <1>2, <1>3, <1>4

LEMMA CommitKeeps ==
    ASSUME LiveInv, NEW s \in Senders, NEW ch \in Changes, NEW q \in Active, Commit(s, ch)
    PROVE  QueryInv(q)'
  <1> USE DEF LiveInv, TabInv, ViewInv, QueryInv
  <1>1. NewsOnStream(q)' = NewsOnStream(q)
    BY DEF Commit, hubVars, tabVars, NewsOnStream, NewsAt, OnWire, InChannel, InLoop, Current
  <1>2. NewsPending(q) => NewsPending(q)'
    BY DEF Commit, NewsPending, PendingInv
  <1>3. CASE q \in Affects(ch)
    <2>1. CASE q \in Unannounced(ch)
      BY <1>3, <2>1 DEF Commit, Outdate, Accounted
    <2>2. CASE Tells(EventOf(ch), q)
      <3>1. pending'[s] = <<ch>>
        BY DEF Commit, PendingInv
      <3>2. NewsPending(q)'
        BY <1>3, <2>2, <3>1 DEF NewsPending
      <3> QED
        BY <1>3, <3>2 DEF Commit, Outdate, Accounted
    <2> QED
      BY <1>3, <2>1, <2>2, ChangeIsTold
  <1>4. CASE q \notin Affects(ch)
    BY <1>1, <1>2, <1>4 DEF Commit, Outdate, Accounted
  <1> QED
    BY <1>3, <1>4

LEMMA AnnounceKeeps ==
    ASSUME LiveInv, NEW s \in Senders, NEW q \in Active, Announce(s)
    PROVE  QueryInv(q)'
  <1> USE DEF LiveInv, TabInv, QueryInv
  <1>1. PICK ch \in Changes : pending[s] = <<ch>>
    BY DEF Announce, PendingInv
  <1>2. Head(pending[s]) = ch /\ EventOf(ch) \in Events
    BY <1>1, EventsAssumption
  <1>3. NewsPending(q) => NewsPending(q)' \/ (q \in Affects(ch) /\ Tells(EventOf(ch), q))
    BY <1>1 DEF Announce, NewsPending, PendingInv
  <1>4. ASSUME NEW c \in Conns, Current(c), NewsAt(c, q) PROVE Current(c)' /\ NewsAt(c, q)'
    <2>1. Current(c)'
      BY <1>4 DEF Announce, StartBroadcast, tabVars, Current
    <2>2. PICK e \in Events : Tells(e, q) /\ (OnWire(c, e) \/ InChannel(c, e) \/ InLoop(c, e))
      BY <1>4 DEF NewsAt
    <2>3. CASE OnWire(c, e) \/ InChannel(c, e)
      BY <2>1, <2>2, <2>3 DEF Announce, StartBroadcast, NewsAt, OnWire, InChannel
    <2>4. CASE InLoop(c, e)
      <3>1. PICK t \in Senders : c \in sending[t].todo /\ sending[t].event = <<e>>
        BY <2>4 DEF InLoop
      <3>2. t # s /\ sending'[t] = sending[t]
        BY <3>1 DEF Announce, StartBroadcast, HubInv, HubTypeOK
      <3> QED
        BY <2>1, <2>2, <3>1, <3>2 DEF NewsAt, InLoop
    <2> QED
      BY <2>2, <2>3, <2>4
  <1>5. ASSUME q \in Affects(ch), Tells(EventOf(ch), q) PROVE NewsOnStream(q)' \/ q \in unheard'
    <2>1. CASE \E c \in clients : Current(c)
      <3>1. PICK c \in clients : Current(c)
        BY <2>1
      <3>2. c \in Conns /\ Current(c)'
        BY <3>1 DEF Announce, StartBroadcast, tabVars, Current, HubInv, HubTypeOK
      <3>3. c \in sending'[s].todo /\ sending'[s].event = <<EventOf(ch)>>
        BY <1>2, <3>1 DEF Announce, StartBroadcast, Loop, HubInv, HubTypeOK
      <3>4. NewsAt(c, q)'
        BY <1>2, <1>5, <3>3 DEF NewsAt, InLoop
      <3> QED
        BY <3>2, <3>4 DEF NewsOnStream
    <2>2. CASE ~\E c \in clients : Current(c)
      BY <1>2, <1>5, <2>2 DEF Announce
    <2> QED
      BY <2>1, <2>2
  <1> QED
    BY <1>3, <1>4, <1>5 DEF Announce, Accounted, NewsOnStream

LEMMA FailBeforeBroadcastKeeps ==
    ASSUME LiveInv, NEW s \in Senders, NEW q \in Active, FailBeforeBroadcast(s)
    PROVE  QueryInv(q)'
  <1> USE DEF LiveInv, TabInv, QueryInv
  <1>1. PICK ch \in Changes : pending[s] = <<ch>>
    BY DEF FailBeforeBroadcast, PendingInv
  <1>2. Head(pending[s]) = ch
    BY <1>1
  <1>3. NewsPending(q) => NewsPending(q)' \/ q \in Affects(ch)
    BY <1>1 DEF FailBeforeBroadcast, NewsPending, PendingInv
  <1>4. NewsOnStream(q) => NewsOnStream(q)'
    BY DEF FailBeforeBroadcast, hubVars, tabVars, NewsOnStream, NewsAt, OnWire, InChannel, InLoop, Current
  <1> QED
    BY <1>2, <1>3, <1>4 DEF FailBeforeBroadcast, Accounted

\* A step that only moves the news on the streams.
NewsMoves(q) ==
    /\ view' = view /\ pending' = pending /\ unheard \subseteq unheard' /\ untold' = untold
    /\ \A c \in Conns : Current(c) /\ NewsAt(c, q) => (Current(c)' /\ NewsAt(c, q)') \/ q \in unheard'

LEMMA MovedNewsKeeps ==
    ASSUME LiveInv, NEW q \in Active, NewsMoves(q) PROVE QueryInv(q)'
  <1>1. NewsOnStream(q) => NewsOnStream(q)' \/ q \in unheard'
    BY DEF NewsOnStream, NewsMoves
  <1>2. NewsPending(q)' = NewsPending(q)
    BY DEF NewsPending, NewsMoves
  <1> QED
    BY <1>1, <1>2 DEF LiveInv, QueryInv, Accounted, NewsMoves

\* A visit of Broadcast puts the event into the channel of a stream that is
\* read, or the event is written off.
LEMMA BroadcastKeeps ==
    ASSUME LiveInv, NEW s \in Senders, NEW b \in Conns, NEW q \in Active, Broadcast(s, b)
    PROVE  QueryInv(q)'
  <1> USE DEF LiveInv, HubInv, HubTypeOK
  <1>1. ASSUME NEW c \in Conns, Current(c), NewsAt(c, q) PROVE (Current(c)' /\ NewsAt(c, q)') \/ q \in unheard'
    <2>1. Current(c)'
      BY <1>1 DEF Broadcast, SendTo, tabVars, Current
    <2>2. PICK e \in Events : Tells(e, q) /\ (OnWire(c, e) \/ InChannel(c, e) \/ InLoop(c, e))
      BY <1>1 DEF NewsAt
    <2>3. CASE OnWire(c, e)
      BY <2>1, <2>2, <2>3 DEF Broadcast, SendTo, NewsAt, OnWire
    <2>4. CASE InChannel(c, e)
      <3>1. PICK i \in 1 .. Len(buf[c]) : buf[c][i] = e
        BY <2>4 DEF InChannel
      <3>2. i \in 1 .. Len(buf'[c]) /\ buf'[c][i] = e
        <4>1. CASE buf'[c] = buf[c]
          BY <3>1, <4>1
        <4>2. CASE c = b /\ Fits(s, b)
          <5>1. PICK x \in Events : sending[s].event = <<x>>
            BY DEF Broadcast, SendTo, SenderInv, HoldsEvent
          <5>2. buf'[c] = Append(buf[c], x)
            BY <4>2, <5>1 DEF Broadcast, SendTo
          <5> QED
            BY <3>1, <5>2
        <4> QED
          BY <4>1, <4>2 DEF Broadcast, SendTo
      <3> QED
        BY <2>1, <2>2, <2>4, <3>2 DEF Broadcast, SendTo, NewsAt, InChannel
    <2>5. CASE InLoop(c, e)
      <3>1. PICK t \in Senders : c \in sending[t].todo /\ sending[t].event = <<e>>
        BY <2>5 DEF InLoop
      <3>2. CASE t = s /\ c = b
        <4>1. Head(sending[s].event) = e /\ canReceive(e) /\ q \in handleSSEEvent(e)
          BY <2>2, <3>1, <3>2 DEF Tells
        <4>2. CASE Fits(s, b)
          <5>1. buf'[c] = Append(buf[c], e) /\ buf[c] \in Seq(Events)
            BY <3>2, <4>1, <4>2 DEF Broadcast, SendTo
          <5>2. Len(buf'[c]) \in 1 .. Len(buf'[c]) /\ buf'[c][Len(buf'[c])] = e
            BY <5>1
          <5>3. handler'[c] = "loop"
            <6>1. c \in clients /\ alive[c]
              BY <1>1, <3>1 DEF NoStrayChannel, NoOrphanClient, Current
            <6> QED
              BY <6>1 DEF ClientInv, NoStrayChannel, NoOrphanClient, Broadcast, SendTo
          <5> QED
            BY <2>1, <2>2, <5>2, <5>3 DEF NewsAt, InChannel
        <4>3. CASE ~Fits(s, b)
          BY <1>1, <3>2, <4>1, <4>3 DEF Broadcast
        <4> QED
          BY <4>2, <4>3
      <3>3. CASE t # s \/ c # b
        <4>1. c \in sending'[t].todo /\ sending'[t].event = <<e>>
          BY <3>1, <3>3 DEF Broadcast, SendTo, Loop
        <4> QED
          BY <2>1, <2>2, <4>1 DEF NewsAt, InLoop
      <3> QED
        BY <3>2, <3>3
    <2> QED
      BY <2>2, <2>3, <2>4, <2>5
  <1>2. NewsMoves(q)
    BY <1>1 DEF Broadcast, NewsMoves
  <1> QED
    BY <1>2, MovedNewsKeeps

\* The handler of a stream only gives up a channel that is empty or a
\* connection that is gone.
LEMMA HandleKeeps ==
    ASSUME LiveInv, NEW b \in Conns, NEW q \in Active, Handle(b)
    PROVE  QueryInv(q)'
  <1> USE DEF LiveInv, HubInv, HubTypeOK
  <1>1. ASSUME NEW c \in Conns, Current(c), NewsAt(c, q) PROVE Current(c)' /\ NewsAt(c, q)'
    <2>1. Current(c)' /\ alive[c]
      BY <1>1 DEF Handle, HandlerStep, Subscribe, WriteEvent, LeaveDead, LeaveClosed, Unsubscribe, tabVars, Current
    <2>2. PICK e \in Events : Tells(e, q) /\ (OnWire(c, e) \/ InChannel(c, e) \/ InLoop(c, e))
      BY <1>1 DEF NewsAt
    <2>3. ASSUME InLoop(c, e) PROVE InLoop(c, e)'
      BY <2>3 DEF Handle, HandlerStep, Subscribe, WriteEvent, LeaveDead, LeaveClosed, Unsubscribe, InLoop
    <2>4. CASE c # b
      <3>1. wire'[c] = wire[c] /\ buf'[c] = buf[c] /\ handler'[c] = handler[c]
        BY <2>4 DEF Handle, HandlerStep, Subscribe, WriteEvent, LeaveDead, LeaveClosed, Unsubscribe
      <3> QED
        BY <2>1, <2>2, <2>3, <3>1 DEF NewsAt, OnWire, InChannel
    <2>5. CASE c = b /\ WriteEvent(b)
      <3>1. /\ wire'[c] = Append(wire[c], Head(buf[c])) /\ buf'[c] = Tail(buf[c]) /\ handler'[c] = "loop"
            /\ buf[c] # <<>> /\ wire[c] \in Seq(Events) /\ buf[c] \in Seq(Events)
        BY <2>5 DEF WriteEvent
      <3>2. ASSUME OnWire(c, e) PROVE OnWire(c, e)'
        <4>1. PICK i \in 1 .. Len(wire[c]) : wire[c][i] = e
          BY <3>2 DEF OnWire
        <4>2. i \in 1 .. Len(wire'[c]) /\ wire'[c][i] = e
          BY <3>1, <4>1
        <4> QED
          BY <4>2 DEF OnWire
      <3>3. ASSUME InChannel(c, e) PROVE OnWire(c, e)' \/ InChannel(c, e)'
        <4>1. PICK i \in 1 .. Len(buf[c]) : buf[c][i] = e
          BY <3>3 DEF InChannel
        <4>2. CASE i = 1
          <5>1. Len(wire'[c]) \in 1 .. Len(wire'[c]) /\ wire'[c][Len(wire'[c])] = e
            BY <3>1, <4>1, <4>2
          <5> QED
            BY <5>1 DEF OnWire
        <4>3. CASE i # 1
          <5>1. i - 1 \in 1 .. Len(buf'[c]) /\ buf'[c][i - 1] = e
            BY <3>1, <4>1, <4>3
          <5> QED
            BY <3>1, <5>1 DEF InChannel
        <4> QED
          BY <4>2, <4>3
      <3> QED
        BY <2>1, <2>2, <2>3, <3>2, <3>3 DEF NewsAt
    <2>6. CASE c = b /\ ~WriteEvent(b)
      <3>1. wire'[c] = wire[c] /\ ~InChannel(c, e)
        BY <2>1, <2>6 DEF Handle, HandlerStep, Subscribe, LeaveDead, LeaveClosed, Unsubscribe, InChannel
      <3> QED
        BY <2>1, <2>2, <2>3, <3>1 DEF NewsAt, OnWire
    <2> QED
      BY <2>4, <2>5, <2>6
  <1>2. NewsMoves(q)
    BY <1>1 DEF Handle, NewsMoves
  <1> QED
    BY <1>2, MovedNewsKeeps

\* A lost connection writes off what was on its way.
LEMMA DropKeeps ==
    ASSUME LiveInv, NEW b \in Conns, NEW q \in Active, Drop(b)
    PROVE  QueryInv(q)'
  <1>1. ASSUME NEW c \in Conns, Current(c), NewsAt(c, q) PROVE (Current(c)' /\ NewsAt(c, q)') \/ q \in unheard'
    <2>1. CASE c = b
      BY <1>1, <2>1, NewsIsOnTheWay DEF Drop
    <2>2. CASE c # b
      <3>1. Current(c)'
        BY <1>1, <2>2 DEF Drop, Disconnect, tabVars, Current, LiveInv, HubInv, HubTypeOK
      <3>2. NewsAt(c, q)'
        BY <1>1, <2>2 DEF Drop, Disconnect, NewsAt, OnWire, InChannel, InLoop, LiveInv, HubInv, HubTypeOK
      <3> QED
        BY <3>1, <3>2
    <2> QED
      BY <2>1, <2>2
  <1>2. NewsMoves(q)
    BY <1>1 DEF Drop, NewsMoves
  <1> QED
    BY <1>2, MovedNewsKeeps

\* Close lets the handlers drain their channels; http.Server.Close does not.
LEMMA ShutdownKeeps ==
    ASSUME LiveInv, NEW q \in Active, Shutdown
    PROVE  QueryInv(q)'
  <1>1. ASSUME NEW c \in Conns, Current(c), NewsAt(c, q) PROVE (Current(c)' /\ NewsAt(c, q)') \/ q \in unheard'
    <2>1. CASE ForceClose
      <3>1. q \in UNION {OnTheWay(x) : x \in {y \in Conns : Current(y)}}
        BY <1>1, NewsIsOnTheWay
      <3>2. server' = "forced"
        BY <2>1 DEF ForceClose
      <3> QED
        BY <3>1, <3>2 DEF Shutdown
    <2>2. CASE Close \/ StopListening \/ Drained
      BY <1>1, <2>2 DEF Shutdown, Close, StopListening, Drained, tabVars, Current, NewsAt, OnWire, InChannel, InLoop
    <2> QED
      BY <2>1, <2>2 DEF Shutdown, ShutdownStep
  <1>2. NewsMoves(q)
    BY <1>1 DEF Shutdown, NewsMoves
  <1> QED
    BY <1>2, MovedNewsKeeps

(***************************************************************************)
(* The steps of the effects.                                               *)
(***************************************************************************)
\* A step of an effect that leaves its stream, if it has one, as it is.
LEMMA IdleStepKeeps ==
    ASSUME LiveInv, NEW e \in Effects, NEW q \in Active, TokenReady(e) \/ Retry(e) \/ Mount(e) \/ ConnectFails(e)
    PROVE  QueryInv(q)'
  <1>1. ASSUME NEW c \in Conns, Current(c), NewsAt(c, q) PROVE Current(c)' /\ NewsAt(c, q)'
    <2>1. PICK f \in Effects : eff[f].conn = c /\ eff[f].mounted = "yes" /\ alive[c]
      BY <1>1 DEF Current
    <2>2. eff'[f].conn = c /\ eff'[f].mounted = "yes"
      BY <2>1, LiveAssumption DEF TokenReady, Retry, Mount, ConnectFails, Ended, LiveInv, TabInv, EffInv, Run
    <2>3. Current(c)'
      BY <2>1, <2>2 DEF Current, TokenReady, Retry, Mount, ConnectFails, hubVars
    <2>4. NewsAt(c, q)'
      BY <1>1 DEF NewsAt, OnWire, InChannel, InLoop, TokenReady, Retry, Mount, ConnectFails, hubVars
    <2> QED
      BY <2>3, <2>4
  <1>2. NewsMoves(q)
    BY <1>1 DEF TokenReady, Retry, Mount, ConnectFails, NewsMoves
  <1> QED
    BY <1>2, MovedNewsKeeps

\* The slot of a new stream was free: it carries nothing.
LEMMA RequestKeeps ==
    ASSUME LiveInv, NEW e \in Effects, NEW b \in Conns, NEW q \in Active, Request(e, b)
    PROVE  QueryInv(q)'
  <1> USE DEF LiveInv, HubInv, HubTypeOK, TabInv, EffInv, Run
  <1>1. ASSUME NEW c \in Conns, Current(c), NewsAt(c, q) PROVE Current(c)' /\ NewsAt(c, q)'
    <2>1. PICK f \in Effects : eff[f].conn = c /\ eff[f].mounted = "yes" /\ alive[c]
      BY <1>1 DEF Current
    <2>2. c # b /\ eff'[f].conn = c /\ eff'[f].mounted = "yes" /\ alive'[c]
      BY <2>1, LiveAssumption DEF Request, Accept, Free
    <2>3. Current(c)'
      BY <2>2 DEF Current
    <2>4. NewsAt(c, q)'
      BY <1>1, <2>2 DEF NewsAt, OnWire, InChannel, InLoop, Request, Accept
    <2> QED
      BY <2>3, <2>4
  <1>2. NewsMoves(q)
    BY <1>1 DEF Request, NewsMoves
  <1> QED
    BY <1>2, MovedNewsKeeps

\* The headers arrive: the queries are asked again or nothing is lost.
LEMMA OpenedKeeps ==
    ASSUME LiveInv, NEW e \in Effects, NEW q \in Active, Opened(e)
    PROVE  QueryInv(q)'
  <1>1. ASSUME NEW c \in Conns, Current(c), NewsAt(c, q) PROVE Current(c)' /\ NewsAt(c, q)'
    <2>1. Current(c)'
      BY <1>1 DEF Current, Opened, hubVars, LiveInv, TabInv, EffInv, Run
    <2>2. NewsAt(c, q)'
      BY <1>1 DEF NewsAt, OnWire, InChannel, InLoop, Opened, hubVars
    <2> QED
      BY <2>1, <2>2
  <1>2. CASE hasConnectedOnce
    BY <1>2 DEF Opened, Resync, Invalidate, QueryInv, Accounted, LiveInv, TabInv, ViewInv
  <1>3. CASE ~hasConnectedOnce
    <2>1. NewsMoves(q)
      BY <1>1, <1>3 DEF Opened, Resync, NewsMoves
    <2> QED
      BY <2>1, MovedNewsKeeps
  <1> QED
    BY <1>2, <1>3

\* An event that is read makes the tab ask for what it tells.
LEMMA ReadEventKeeps ==
    ASSUME LiveInv, NEW e \in Effects, NEW q \in Active, ReadEvent(e)
    PROVE  QueryInv(q)'
  <1> USE DEF LiveInv, HubInv, HubTypeOK, TabInv, EffInv, Run, ViewInv
  <1>1. PICK b \in Conns : eff[e].conn = b
    BY DEF ReadEvent
  <1>2. /\ wire[b] # <<>> /\ wire[b] \in Seq(Events) /\ wire' = [wire EXCEPT ![b] = Tail(@)]
        /\ view' = Invalidate(handleSSEEvent(Head(wire[b])))
    BY <1>1 DEF ReadEvent, ReadWire
  <1>3. CASE q \in handleSSEEvent(Head(wire[b]))
    BY <1>2, <1>3 DEF Invalidate, QueryInv, Accounted
  <1>4. CASE q \notin handleSSEEvent(Head(wire[b]))
    <2>1. view'[q] = view[q]
      BY <1>2, <1>4 DEF Invalidate
    <2>2. ASSUME NEW c \in Conns, Current(c), NewsAt(c, q) PROVE Current(c)' /\ NewsAt(c, q)'
      <3>1. Current(c)'
        <4>1. PICK f \in Effects : eff[f].conn = c /\ eff[f].mounted = "yes" /\ alive[c]
          BY <2>2 DEF Current
        <4>2. eff'[f].conn = c /\ eff'[f].mounted = "yes"
          <5>1. CASE eff' = eff
            BY <4>1, <5>1
          <5>2. CASE eff' = [eff EXCEPT ![e].phase = "leaked"]
            BY <4>1, <5>2
          <5> QED
            BY <5>1, <5>2 DEF ReadEvent
        <4> QED
          BY <4>1, <4>2 DEF ReadEvent, ReadWire, Current
      <3>2. PICK x \in Events : Tells(x, q) /\ (OnWire(c, x) \/ InChannel(c, x) \/ InLoop(c, x))
        BY <2>2 DEF NewsAt
      <3>3. CASE OnWire(c, x)
        <4>1. PICK i \in 1 .. Len(wire[c]) : wire[c][i] = x
          BY <3>3 DEF OnWire
        <4>2. CASE c # b
          BY <1>2, <3>1, <3>2, <3>3, <4>2 DEF NewsAt, OnWire
        <4>3. CASE c = b
          <5>1. i # 1
            BY <1>2, <1>4, <3>2, <4>1, <4>3 DEF Tells
          <5>2. i - 1 \in 1 .. Len(wire'[c]) /\ wire'[c][i - 1] = x
            BY <1>2, <4>1, <4>3, <5>1
          <5> QED
            BY <3>1, <3>2, <5>2 DEF NewsAt, OnWire
        <4> QED
          BY <4>2, <4>3
      <3>4. CASE InChannel(c, x) \/ InLoop(c, x)
        BY <3>1, <3>2, <3>4 DEF ReadEvent, ReadWire, NewsAt, InChannel, InLoop
      <3> QED
        BY <3>2, <3>3, <3>4
    <2>3. NewsOnStream(q) => NewsOnStream(q)'
      BY <2>2 DEF NewsOnStream
    <2>4. NewsPending(q)' = NewsPending(q)
      BY DEF ReadEvent, NewsPending
    <2> QED
      BY <2>1, <2>3, <2>4 DEF ReadEvent, QueryInv, Accounted
  <1> QED
    BY <1>3, <1>4

\* A stream is only given up once its handler has returned and all was read.
LEMMA StreamEndKeeps ==
    ASSUME LiveInv, NEW e \in Effects, NEW q \in Active, StreamEnd(e)
    PROVE  QueryInv(q)'
  <1> USE DEF LiveInv, HubInv, HubTypeOK, TabInv, EffInv, Run
  <1>1. PICK b \in Conns : eff[e].conn = b
    BY DEF StreamEnd
  <1>2. ASSUME NEW c \in Conns, Current(c), NewsAt(c, q) PROVE Current(c)' /\ NewsAt(c, q)'
    <2>1. c # b
      <3>1. PICK x \in Events : Tells(x, q) /\ (OnWire(c, x) \/ InChannel(c, x) \/ InLoop(c, x))
        BY <1>2 DEF NewsAt
      <3>2. alive[c]
        BY <1>2 DEF Current
      <3>3. CASE c = b
        <4>1. handler[c] = "none" /\ wire[c] = <<>>
          BY <1>1, <3>2, <3>3 DEF StreamEnd
        <4>2. c \notin clients
          BY <4>1 DEF NoStrayChannel, NoOrphanClient
        <4>3. ~OnWire(c, x) /\ ~InChannel(c, x) /\ ~InLoop(c, x)
          BY <4>1, <4>2 DEF OnWire, InChannel, InLoop, NoStrayChannel, NoOrphanClient
        <4> QED
          BY <3>1, <4>3
      <3> QED
        BY <3>3
    <2>2. PICK f \in Effects : eff[f].conn = c /\ eff[f].mounted = "yes" /\ alive[c]
      BY <1>2 DEF Current
    <2>3. f # e /\ eff'[f] = eff[f]
      BY <1>1, <2>1, <2>2 DEF StreamEnd
    <2>4. Current(c)'
      BY <1>1, <2>1, <2>2, <2>3 DEF Current, StreamEnd, Disconnect, hubVars
    <2>5. NewsAt(c, q)'
      <3>1. wire'[c] = wire[c] /\ UNCHANGED <<handler, buf, sending>>
        BY <1>1, <2>1 DEF StreamEnd, Disconnect, hubVars
      <3> QED
        BY <1>2, <3>1 DEF NewsAt, OnWire, InChannel, InLoop
    <2> QED
      BY <2>4, <2>5
  <1>3. NewsMoves(q)
    BY <1>2 DEF StreamEnd, NewsMoves
  <1> QED
    BY <1>3, MovedNewsKeeps

\* The cleanup of an effect writes off what was on its way.
LEMMA UnmountKeeps ==
    ASSUME LiveInv, NEW e \in Effects, NEW q \in Active, Unmount(e)
    PROVE  QueryInv(q)'
  <1>1. ASSUME NEW c \in Conns, Current(c), NewsAt(c, q) PROVE q \in unheard'
    <2>1. q \in UNION {OnTheWay(x) : x \in {y \in Conns : Current(y)}}
      BY <1>1, NewsIsOnTheWay
    <2> QED
      BY <2>1 DEF Unmount
  <1>2. NewsMoves(q)
    BY <1>1 DEF Unmount, NewsMoves
  <1> QED
    BY <1>2, MovedNewsKeeps

-----------------------------------------------------------------------------
LEMMA LiveInitInv == LiveInit => LiveInv
  <1> SUFFICES ASSUME LiveInit PROVE LiveInv
    OBVIOUS
  <1>1. <<>> \in Seq(Changes)
    OBVIOUS
  <1>2. TabInv
    BY <1>1 DEF LiveInit, TabInv, PendingInv, EffInv, Run, ViewInv
  <1> QED
    BY <1>2, HubInitInv DEF LiveInit, LiveInv, QueryInv

LEMMA LiveStepInv == LiveInv /\ [LiveNext]_liveVars => LiveInv'
  <1> SUFFICES ASSUME LiveInv, [LiveNext]_liveVars PROVE LiveInv'
    OBVIOUS
  <1>1. HubInv' /\ TabInv'
    BY LiveIsHubStep, HubStepInv, LiveStepTab DEF LiveInv
  <1>2. ASSUME NEW q \in Active PROVE QueryInv(q)'
    <2>1. CASE UNCHANGED liveVars
      <3>1. NewsMoves(q)
        BY <2>1 DEF liveVars, hubVars, tabVars, NewsMoves, NewsAt, OnWire, InChannel, InLoop, Current
      <3> QED
        BY <3>1, MovedNewsKeeps
    <2>2. ASSUME NEW p \in Active, Answer(p) \/ Arrive(p) \/ FetchFails(p) PROVE QueryInv(q)'
      BY <2>2, QueryStepKeeps
    <2>3. ASSUME NEW s \in Senders, SenderStep(s) \/ FailBeforeBroadcast(s) PROVE QueryInv(q)'
      BY <2>3, AnnounceKeeps, BroadcastKeeps, FailBeforeBroadcastKeeps DEF SenderStep
    <2>4. ASSUME NEW s \in Senders, NEW ch \in Changes, Commit(s, ch) PROVE QueryInv(q)'
      BY <2>4, CommitKeeps
    <2>5. ASSUME NEW e \in Effects, TabStep(e) \/ Mount(e) \/ Unmount(e) PROVE QueryInv(q)'
      BY <2>5, IdleStepKeeps, RequestKeeps, OpenedKeeps, ReadEventKeeps, StreamEndKeeps, UnmountKeeps DEF TabStep
    <2>6. ASSUME NEW c \in Conns, Handle(c) \/ Drop(c) PROVE QueryInv(q)'
      BY <2>6, HandleKeeps, DropKeeps
    <2> QED
      BY <2>1, <2>2, <2>3, <2>4, <2>5, <2>6, ShutdownKeeps DEF LiveNext
  <1> QED
    BY <1>1, <1>2 DEF LiveInv

\* What is accounted for in the invariant is accounted for in StaleIsAccounted.
LEMMA AccountsForStale == LiveInv => StaleIsAccounted
  <1> SUFFICES ASSUME LiveInv, NEW q \in Active, view[q].shown = "stale"
               PROVE  NewsUnderWay(q) \/ q \in unheard \cup untold
    BY DEF StaleIsAccounted
  <1>1. Accounted(q)
    BY DEF LiveInv, QueryInv
  <1>2. NewsPending(q) => \E s \in Senders : pending[s] # <<>> /\ q \in Affects(Head(pending[s]))
    BY DEF NewsPending
  <1>3. NewsOnStream(q) => \E c \in Conns : Current(c) /\ q \in OnTheWay(c)
    BY NewsIsOnTheWay DEF NewsOnStream
  <1> QED
    BY <1>1, <1>2, <1>3 DEF Accounted, NewsUnderWay

LEMMA LiveInvariant == LiveSpec => []LiveInv
  BY LiveInitInv, LiveStepInv, PTL DEF LiveSpec

(***************************************************************************)
(* Live refresh end to end, for any numbers of streams, handlers, runs of  *)
(* the effect and queries, every kind of change and every capacity: a part *)
(* of the page that is out of date is being fetched, will be because of an *)
(* event under way, or missed its news in one of the listed ways.          *)
(***************************************************************************)
THEOREM StaleNewsIsAccounted == LiveSpec => []StaleIsAccounted
  BY LiveInvariant, AccountsForStale, PTL

\* With browsers and memo handlers in place of an arbitrary environment the
\* hub's channels stay consistent: no panic, no client without a handler.
THEOREM LiveHubIsSafe == LiveSpec => []NoStrayChannel
  <1>1. LiveInv => NoStrayChannel
    BY DEF LiveInv, HubInv
  <1> QED
    BY <1>1, LiveInvariant, PTL

\* The whole of live refresh, the tab's aborts included, is a history of
\* lossy streams: what reaches the tab is in order and at most once.
THEOREM LiveImplementsStreams == LiveSpec => HubIsLossyStreams
  <1>1. LiveSpec => HubSpec
    <2>1. LiveInit => HubInit
      BY DEF LiveInit
    <2>2. LiveInv /\ [LiveNext]_liveVars => [HubNext]_hubVars
      BY LiveIsHubStep DEF LiveInv
    <2> QED
      BY <2>1, <2>2, LiveInvariant, PTL DEF LiveSpec, HubSpec
  <1> QED
    BY <1>1, HubImplementsStreams, PTL
=============================================================================
