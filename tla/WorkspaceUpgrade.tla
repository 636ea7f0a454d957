-------------------------- MODULE WorkspaceUpgrade --------------------------
(***************************************************************************)
(* The CLI's workspace upgrade (awiki-cli/src/workspace_upgrade): every    *)
(* workspace command first runs upgrade_if_needed, which brings the files  *)
(* of the workspace from version 0 to LATEST_WORKSPACE_SCHEMA_VERSION, one *)
(* migration at a time, under a file lock, with a backup and a journal.    *)
(*                                                                         *)
(* Processes are CLI processes; one that is let through ("ok") uses the    *)
(* workspace and may then run another command.  Each write of a file is a  *)
(* step (config, meta and journal are replaced atomically), so a process   *)
(* may die between any two.  A step that returns an error leaves the disk  *)
(* as a death there does: the lock is released and nothing is undone.      *)
(*                                                                         *)
(* A database is its schema class, its rows and a defect of its contents.  *)
(* The classes are those ensure_schema and v3 -> v4 tell apart: "none"     *)
(* (absent), "blank" (version 0), "ancient" (an older version that         *)
(* ensure_schema refuses: too old, or of an incomplete shape), "recent"    *)
(* (migratable), "current", and "newer" (a newer version, or the current   *)
(* one in an incomplete shape; both are refused everywhere).               *)
(***************************************************************************)
EXTENDS Naturals, FiniteSets

CONSTANTS
    Processes,   \* CLI processes
    Databases0,  \* the databases, without rows, a workspace may start with
    MaxClock,    \* bound: seconds that pass; a second names a backup
    MaxFaults,   \* bound: deaths and failed steps
    None

Latest == 4  \* LATEST_WORKSPACE_SCHEMA_VERSION

Schemas == {"none", "blank", "ancient", "recent", "current", "newer"}

\* What the checks of the contents find: rows that break the owner invariants
\* (validate_identity_owned_invariants), or SQLite's own integrity and foreign
\* key checks failing (validate_sqlite_health).
Defects == {"none", "owners", "health"}

ASSUME WorkspaceUpgradeAssumption ==
    /\ Databases0 \subseteq [schema : Schemas, defect : Defects]
    /\ \A d \in Databases0 : d.schema \in {"none", "blank"} => d.defect = "none"
    /\ MaxClock \in Nat /\ MaxFaults \in Nat
    /\ None \notin Processes \cup (0..MaxClock)

VARIABLES
    meta,     \* meta.json: version (0 if absent) and last_backup_dir
    journal,  \* backup_dir of upgrade_journal.json, None if absent
    backups,  \* [seconds -> backup directory]: awiki-cli.db.bak, whole?
    lock,     \* holder of the OS lock on upgrade.lock
    oldLock,  \* upgrade.lock names a live process of a release without OS locks
    disk,     \* the workspace and legacy files, without the databases
    db,       \* the workspace database
    proc,     \* [Processes -> process]
    clock, faults,
    written   \* history: rows ever committed to the workspace database

vars == <<meta, journal, backups, lock, oldLock, disk, db, proc, clock, faults, written>>
control == <<meta, journal, backups, lock, oldLock, clock, faults>>

Names == {"alice", "bob"}            \* identity names
LegacyRows == {"legacy1", "legacy2"} \* rows of the legacy database
Owner == [r \in LegacyRows |-> IF r = "legacy1" THEN "alice" ELSE "bob"]
Rows == LegacyRows \cup {"old", "new"}
Ids == 0..MaxClock

NoBackup == [bak |-> FALSE, rows |-> {}, whole |-> FALSE]

\* What the second inspection saw, as far as later steps use it.
Unseen == [config |-> FALSE, oldConfig |-> FALSE, bare |-> FALSE, idents |-> FALSE]
Outside(pc) == [pc |-> pc, backup |-> None, step |-> 0, seen |-> Unseen]

Pcs == {"idle", "ok", "clear", "lock", "inspect", "backup", "backing", "journal",
        "config", "oldConfig", "idents", "open", "upgrade", "import", "ensure",
        "apply4", "remove", "create", "ensure4", "validate", "meta"}

MetaType == [version : 0..(Latest + 1), backup : Ids \cup {None}]
BackupType == [bak : BOOLEAN, rows : SUBSET Rows, whole : BOOLEAN]
DiskType == [config : {"none", "old", "current"}, oldConfig : BOOLEAN,
             settings : BOOLEAN, legacyDb : {"none", "owned", "unowned"},
             legacyIdents : SUBSET (Names \cup {"junk"}),
             idents : [Names -> {"none", "own", "imported"}]]
DbType == [schema : Schemas, rows : SUBSET Rows, defect : Defects]
SeenType == [config : BOOLEAN, oldConfig : BOOLEAN, bare : BOOLEAN, idents : BOOLEAN]
ProcType == [pc : Pcs, backup : Ids \cup {None}, step : 0..(Latest - 1), seen : SeenType]

TypeOK ==
    /\ meta \in MetaType
    /\ journal \in Ids \cup {None}
    /\ backups \in [Ids -> BackupType]
    /\ lock \in Processes \cup {None}
    /\ oldLock \in BOOLEAN
    /\ disk \in DiskType
    /\ db \in DbType
    /\ proc \in [Processes -> ProcType]
    /\ clock \in Ids
    /\ faults \in 0..MaxFaults
    /\ written \subseteq Rows

\* Workspaces older releases leave behind: without meta.json any mixture of
\* files, with it what the first migration makes of them.  No migration
\* removes the legacy files: after it they are still there, and imported, or
\* there were none.  "junk" is a legacy credential file that cannot be
\* imported.  The rows of an "owned" legacy database name the DID of their
\* owner; those of an "unowned" one, which may be older than version 6, name
\* nobody.
InitFiles ==
    \/ /\ meta.version = 0
       /\ disk \in [config : {"none", "old", "current"}, oldConfig : BOOLEAN,
                    settings : BOOLEAN, legacyDb : {"none", "owned", "unowned"},
                    legacyIdents : {{}, {"junk"}, Names},
                    idents : {[n \in Names |-> "none"],
                              [n \in Names |-> IF n = "bob" THEN "own" ELSE "none"]}]
       /\ disk.config = "none" \/ ~disk.oldConfig
    \/ /\ meta.version \in 1..(Latest + 1)
       /\ \E left \in BOOLEAN :
             disk = [config |-> "current", oldConfig |-> FALSE, settings |-> left,
                     legacyDb |-> IF left THEN "owned" ELSE "none",
                     legacyIdents |-> IF left THEN Names ELSE {},
                     idents |-> [n \in Names |-> "imported"]]

\* The first migration imported the rows of a legacy database; a workspace
\* that already has the newest version may have moved them to a backup.
LegacyImported == meta.version \in 1..(Latest - 1) /\ disk.legacyDb # "none"

InitDatabase ==
    \E d \in Databases0 :
        /\ LegacyImported => d.schema \notin {"none", "blank"}
        /\ db = [schema |-> d.schema, defect |-> d.defect,
                 rows |-> IF d.schema \in {"none", "blank"} THEN {}
                          ELSE {"old"} \cup (IF LegacyImported THEN LegacyRows ELSE {})]

Init ==
    /\ meta \in [version : 0..(Latest + 1), backup : {None}]
    /\ journal = None
    /\ backups = [i \in Ids |-> NoBackup]
    /\ lock = None
    /\ oldLock \in BOOLEAN
    /\ InitFiles
    /\ InitDatabase
    /\ proc = [p \in Processes |-> Outside("idle")]
    /\ clock = 0 /\ faults = 0
    /\ written = db.rows
-----------------------------------------------------------------------------
(* detect                                                                  *)

HasWorkspace ==
    \/ disk.config # "none"
    \/ disk.oldConfig
    \/ \E n \in Names : disk.idents[n] # "none"
    \/ db.schema # "none"
HasLegacy == disk.legacyIdents # {} \/ disk.legacyDb # "none" \/ disk.settings

\* An empty workspace has the newest version: there is nothing to upgrade.
Empty == meta.version = 0 /\ ~HasWorkspace /\ ~HasLegacy
Settled == Empty \/ meta.version = Latest
-----------------------------------------------------------------------------
(* Shared steps.                                                           *)

Goto(p, pc) == proc' = [proc EXCEPT ![p].pc = pc]

Released(p) == IF lock = p THEN None ELSE lock

\* Mutant: an error return forgets the lock.
ReturnLocked(p, pc) ==
    /\ proc' = [proc EXCEPT ![p] = Outside(pc)]
    /\ lock' = IF pc = "ok" THEN Released(p) ELSE lock

\* upgrade_if_needed returns: the guard's Drop releases the lock.
Return(p, pc) ==
    /\ proc' = [proc EXCEPT ![p] = Outside(pc)]
    /\ lock' = Released(p)

\* A step that ends in an error: nothing is undone.
Fail(p) ==
    /\ Return(p, "idle")
    /\ UNCHANGED <<meta, journal, backups, oldLock, clock, faults, disk, db, written>>

At(p, pc) == proc[p].pc = pc

\* ensure_schema: the schemas it brings to the current one.
Migratable(schema) == schema \in {"blank", "recent", "current"}

\* A step that only changes the database, with its next pc.
DbStep(p, newDb, pc) ==
    /\ db' = newDb
    /\ Goto(p, pc)
    /\ UNCHANGED <<control, disk, written>>

\* ensure_schema of an existing database, or an error.
EnsureSchema(p, next) ==
    \/ /\ Migratable(db.schema)
       /\ DbStep(p, [db EXCEPT !.schema = "current"], next)
    \/ ~Migratable(db.schema) /\ Fail(p)
-----------------------------------------------------------------------------
(* upgrade_if_needed up to the plan.                                       *)

\* Mutant: version 3 is taken for the newest one.
StartAtThree(p) ==
    /\ proc[p].pc \in {"idle", "ok"}
    /\ proc' = [proc EXCEPT ![p] = Outside(
          IF meta.version > Latest THEN "idle"
          ELSE IF ~Settled /\ meta.version < Latest - 1 THEN "lock"
          ELSE IF journal # None THEN "clear" ELSE "ok")]
    /\ UNCHANGED <<control, disk, db, written>>

\* Mutant: a journal that is found is cleared whatever the version.
StartClears(p) ==
    /\ proc[p].pc \in {"idle", "ok"}
    /\ proc' = [proc EXCEPT ![p] = Outside(
          IF meta.version > Latest THEN "idle"
          ELSE IF journal # None THEN "clear"
          ELSE IF ~Settled THEN "lock" ELSE "ok")]
    /\ UNCHANGED <<control, disk, db, written>>

\* A command starts: the first inspection, without the lock.
Start(p) ==
    /\ proc[p].pc \in {"idle", "ok"}
    /\ proc' = [proc EXCEPT ![p] = Outside(
          IF meta.version > Latest THEN "idle"
          ELSE IF ~Settled THEN "lock"
          ELSE IF journal # None THEN "clear" ELSE "ok")]
    /\ UNCHANGED <<control, disk, db, written>>

\* acquire_file_lock does not wait.
AcquireFileLock(p) ==
    /\ At(p, "lock")
    /\ lock = None /\ ~oldLock
    /\ lock' = p
    /\ Goto(p, "inspect")
    /\ UNCHANGED <<meta, journal, backups, oldLock, clock, faults, disk, db, written>>

FileLocked(p) ==
    /\ At(p, "lock")
    /\ lock # None \/ oldLock
    /\ Fail(p)

\* Mutant: a retry makes a new backup instead of keeping the journal's.
InspectAnew(p) ==
    /\ At(p, "inspect")
    /\ \/ Settled /\ Return(p, "ok")
       \/ /\ ~Settled
          /\ proc' = [proc EXCEPT ![p] =
                [pc |-> "backup", backup |-> None, step |-> meta.version,
                 seen |-> [config |-> disk.config # "none",
                           oldConfig |-> disk.oldConfig,
                           bare |-> ~HasWorkspace,
                           idents |-> disk.legacyIdents # {}]]]
          /\ lock' = lock
    /\ UNCHANGED <<meta, journal, backups, oldLock, clock, faults, disk, db, written>>

\* The second inspection, under the lock.  The journal of an interrupted
\* upgrade names the backup to keep; without one a backup is made.
Inspect(p) ==
    /\ At(p, "inspect")
    /\ \/ /\ Settled
          /\ IF journal # None
             THEN Goto(p, "clear") /\ lock' = lock
             ELSE Return(p, "ok")
       \/ /\ ~Settled
          /\ proc' = [proc EXCEPT ![p] =
                [pc |-> IF journal # None THEN "journal" ELSE "backup",
                 backup |-> journal,
                 step |-> meta.version,
                 seen |-> [config |-> disk.config # "none",
                           oldConfig |-> disk.oldConfig,
                           bare |-> ~HasWorkspace,
                           idents |-> disk.legacyIdents # {}]]]
          /\ lock' = lock
    /\ UNCHANGED <<meta, journal, backups, oldLock, clock, faults, disk, db, written>>

\* create_backup: the directory of this second, possibly an existing one; an
\* old copy of the database is removed, and VACUUM INTO has begun a new one.
BegunBackup(b) ==
    IF db.schema = "none" THEN [b EXCEPT !.whole = FALSE]
    ELSE [bak |-> TRUE, rows |-> {}, whole |-> FALSE]

\* Mutant: the journal is written while the backup is being made.
CreateBackupUnawaited(p) ==
    /\ At(p, "backup")
    /\ backups' = [backups EXCEPT ![clock] = BegunBackup(@)]
    /\ proc' = [proc EXCEPT ![p].pc = "journal", ![p].backup = clock]
    /\ UNCHANGED <<meta, journal, lock, oldLock, clock, faults, disk, db, written>>

CreateBackup(p) ==
    /\ At(p, "backup")
    /\ backups' = [backups EXCEPT ![clock] = BegunBackup(@)]
    /\ proc' = [proc EXCEPT ![p].pc = "backing", ![p].backup = clock]
    /\ UNCHANGED <<meta, journal, lock, oldLock, clock, faults, disk, db, written>>

\* The copies of the files and VACUUM INTO are complete.
BackupDone(p) ==
    /\ At(p, "backing")
    /\ backups' = [backups EXCEPT ![proc[p].backup] =
          IF db.schema = "none" THEN [@ EXCEPT !.whole = TRUE]
          ELSE [bak |-> TRUE, rows |-> db.rows, whole |-> TRUE]]
    /\ Goto(p, "journal")
    /\ UNCHANGED <<meta, journal, lock, oldLock, clock, faults, disk, db, written>>
-----------------------------------------------------------------------------
(* One migration: journal, apply unless done, validate, meta.              *)

\* The first step of each apply.  1 -> 2 cleans up outside the workspace and
\* 2 -> 3 does nothing.
Apply == <<"config", "validate", "validate", "apply4">>

\* Mutant: is_done compares with the migration's source version.
SaveJournalDone(p) ==
    /\ At(p, "journal")
    /\ journal' = proc[p].backup
    /\ Goto(p, IF meta.version >= proc[p].step /\ proc[p].step < 3 THEN "validate"
               ELSE Apply[proc[p].step + 1])
    /\ UNCHANGED <<meta, backups, lock, oldLock, clock, faults, disk, db, written>>

\* save_journal, in three phases that name the same backup.
SaveJournal(p) ==
    /\ At(p, "journal")
    /\ journal' = proc[p].backup
    /\ Goto(p, IF meta.version > proc[p].step THEN "validate"
               ELSE Apply[proc[p].step + 1])
    /\ UNCHANGED <<meta, backups, lock, oldLock, clock, faults, disk, db, written>>

\* apply_workspace_v0_to_v1_config
ApplyConfig(p) ==
    LET seen == proc[p].seen
        converts == ~seen.config /\ seen.oldConfig
    IN  /\ At(p, "config")
        /\ disk' = [disk EXCEPT !.config =
              IF \/ seen.config /\ @ # "none"
                 \/ converts
                 \/ seen.bare /\ disk.settings
              THEN "current" ELSE @]
        /\ Goto(p, IF converts THEN "oldConfig" ELSE "idents")
        /\ UNCHANGED <<control, db, written>>

RemoveOldConfig(p) ==
    /\ At(p, "oldConfig")
    /\ disk' = [disk EXCEPT !.oldConfig = FALSE]
    /\ Goto(p, "idents")
    /\ UNCHANGED <<control, db, written>>

\* import_all_legacy, one identity at a time; a name in use for another
\* identity is skipped.
Importable == {n \in disk.legacyIdents \cap Names : disk.idents[n] = "none"}

ImportIdentity(p) ==
    /\ At(p, "idents")
    /\ \E n \in Importable : disk' = [disk EXCEPT !.idents[n] = "imported"]
    /\ UNCHANGED <<control, proc, db, written>>

IdentitiesImported(p) ==
    /\ At(p, "idents")
    /\ Importable = {}
    /\ Goto(p, IF disk.legacyDb # "none" THEN "open" ELSE "ensure")
    /\ UNCHANGED <<control, disk, db, written>>

\* import_legacy_sqlite: open creates the file.
Created == IF db.schema = "none" THEN [schema |-> "blank", rows |-> {}, defect |-> "none"] ELSE db

OpenForImport(p) == At(p, "open") /\ DbStep(p, Created, "upgrade")
EnsureForImport(p) == At(p, "upgrade") /\ EnsureSchema(p, "import")

\* infer_owner_scope: the identity the row names, which must be the one that
\* was imported (a DID of a skipped identity is not known), or the default
\* identity, which is there as soon as any identity is.
Resolved(r) ==
    \/ disk.legacyDb = "owned" /\ disk.idents[Owner[r]] = "imported"
    \/ disk.legacyDb = "unowned" /\ \E n \in Names : disk.idents[n] # "none"

ImportRow(p) ==
    /\ At(p, "import")
    /\ \E r \in LegacyRows \ db.rows :
          /\ Resolved(r)
          /\ db' = [db EXCEPT !.rows = @ \cup {r}]
          /\ written' = written \cup {r}
    /\ UNCHANGED <<control, disk, proc>>

RowsImported(p) ==
    /\ At(p, "import")
    /\ \A r \in LegacyRows : Resolved(r) /\ r \in db.rows
    /\ Goto(p, "ensure")
    /\ UNCHANGED <<control, disk, db, written>>

\* The import ends at the first row without an owner; the rows before it stay.
ImportFails(p) ==
    /\ At(p, "import")
    /\ \E r \in LegacyRows : ~Resolved(r)
    /\ Fail(p)

\* ensure_target_store_schema, only of an existing database.
EnsureTarget(p) ==
    /\ At(p, "ensure")
    /\ \/ db.schema = "none" /\ DbStep(p, db, "validate")
       \/ db.schema # "none" /\ EnsureSchema(p, "validate")

\* apply_workspace_v3_to_v4: an older database is rebuilt from nothing, and
\* only if the backup has a copy of it.
ApplyV4(p) ==
    /\ At(p, "apply4")
    /\ \/ db.schema = "none" /\ DbStep(p, db, "validate")
       \/ /\ db.schema \in {"blank", "current", "newer"}
          /\ IF db.defect = "owners" THEN Fail(p) ELSE EnsureSchema(p, "validate")
       \/ /\ db.schema \in {"ancient", "recent"}
          /\ IF backups[proc[p].backup].bak THEN DbStep(p, db, "remove") ELSE Fail(p)

NoDatabase == [schema |-> "none", rows |-> {}, defect |-> "none"]

RemoveDatabase(p) ==
    At(p, "remove") /\ DbStep(p, NoDatabase, "create")
CreateDatabase(p) == At(p, "create") /\ DbStep(p, Created, "ensure4")
EnsureRebuilt(p) == At(p, "ensure4") /\ EnsureSchema(p, "validate")

\* What validate accepts, by migration.
Valid(p) ==
    /\ proc[p].step \in {0, 3} =>
          db.schema \in {"none", "current"} /\ db.defect # "health"
    /\ proc[p].step = 3 => db.defect # "owners"
    /\ proc[p].step = 0 =>
          /\ disk.config # "old"
          /\ proc[p].seen.bare /\ proc[p].seen.idents =>
                \E n \in Names : disk.idents[n] # "none"

Validate(p) ==
    /\ At(p, "validate")
    /\ IF Valid(p) THEN DbStep(p, db, "meta") ELSE Fail(p)

\* save_meta, then the next migration or the end of the plan.
SaveMeta(p) ==
    LET next == proc[p].step + 1 IN
    /\ At(p, "meta")
    /\ meta' = [version |-> next, backup |-> proc[p].backup]
    /\ IF next = Latest THEN Goto(p, "clear")
       ELSE proc' = [proc EXCEPT ![p].pc = "journal", ![p].step = next]
    /\ UNCHANGED <<journal, backups, lock, oldLock, clock, faults, disk, db, written>>

\* clear_journal: at the end of the plan, or when an inspection found nothing
\* to upgrade -- the first one does this without the lock.
ClearJournal(p) ==
    /\ At(p, "clear")
    /\ journal' = None
    /\ Return(p, "ok")
    /\ UNCHANGED <<meta, backups, oldLock, clock, faults, disk, db, written>>

Die(p) ==
    /\ proc[p].pc \notin {"idle", "ok"}
    /\ faults < MaxFaults
    /\ faults' = faults + 1
    /\ Return(p, "idle")
    /\ UNCHANGED <<meta, journal, backups, oldLock, clock, disk, db, written>>
-----------------------------------------------------------------------------
(* The environment.                                                        *)

\* A process that was let through uses the workspace: it saves the config,
\* opens the database, has im-core bring it to the current schema, writes.
UseConfig(p) ==
    /\ At(p, "ok")
    /\ disk.config = "none"
    /\ disk' = [disk EXCEPT !.config = "current"]
    /\ UNCHANGED <<control, proc, db, written>>

UseOpen(p) == At(p, "ok") /\ DbStep(p, Created, "ok")

UseEnsure(p) ==
    /\ At(p, "ok")
    /\ Migratable(db.schema)
    /\ DbStep(p, [db EXCEPT !.schema = "current"], "ok")

UseWrite(p) ==
    /\ At(p, "ok")
    /\ db.schema = "current"
    /\ db' = [db EXCEPT !.rows = @ \cup {"new"}]
    /\ written' = written \cup {"new"}
    /\ UNCHANGED <<control, disk, proc>>

\* is_active_legacy_lock turns false: the process ended, or 24 hours passed.
OldLockEnds ==
    /\ oldLock
    /\ oldLock' = FALSE
    /\ UNCHANGED <<meta, journal, backups, lock, clock, faults, disk, db, proc, written>>

Tick ==
    /\ clock < MaxClock
    /\ clock' = clock + 1
    /\ UNCHANGED <<meta, journal, backups, lock, oldLock, faults, disk, db, proc, written>>

Upgrade(p) ==
    \/ AcquireFileLock(p) \/ FileLocked(p) \/ Inspect(p)
    \/ CreateBackup(p) \/ BackupDone(p) \/ SaveJournal(p)
    \/ ApplyConfig(p) \/ RemoveOldConfig(p)
    \/ ImportIdentity(p) \/ IdentitiesImported(p)
    \/ OpenForImport(p) \/ EnsureForImport(p) \/ ImportRow(p) \/ ImportFails(p)
    \/ RowsImported(p) \/ EnsureTarget(p)
    \/ ApplyV4(p) \/ RemoveDatabase(p) \/ CreateDatabase(p) \/ EnsureRebuilt(p)
    \/ Validate(p) \/ SaveMeta(p) \/ ClearJournal(p)

Use(p) == UseConfig(p) \/ UseOpen(p) \/ UseEnsure(p) \/ UseWrite(p)

Next ==
    \/ \E p \in Processes : Start(p) \/ Upgrade(p) \/ Die(p) \/ Use(p)
    \/ OldLockEnds
    \/ Tick

Spec == Init /\ [][Next]_vars

\* Commands keep being run and a live process goes on; a lock of an older
\* release is not held for ever.
Fairness ==
    /\ \A p \in Processes : WF_vars(Start(p)) /\ WF_vars(Upgrade(p))
    /\ WF_vars(OldLockEnds)

LiveSpec == Spec /\ Fairness
-----------------------------------------------------------------------------
(* Properties.                                                             *)

\* The backup a reader is pointed to: by the journal of an upgrade that is not
\* finished, else by meta.json.
Referred == IF journal # None THEN journal ELSE meta.backup
InBackup == IF Referred = None THEN {} ELSE backups[Referred].rows

\* No row is lost: whatever was committed to the workspace database is in it
\* or in the backup the workspace names, although 3 -> 4 deletes the database
\* (rebuild_clean_identity_owned_database), the process may die at any point,
\* another one may take over, backups of the same second share a directory,
\* and processes already let through go on writing.
DataKept == written \subseteq db.rows \cup InBackup

\* A backup that the journal or meta.json names is complete.  A second process
\* never works on it, nor does a later upgrade in the same second.
BackupIsWhole ==
    \A b \in {journal, meta.backup} \ {None} : backups[b].whole

\* No row is lost and what would restore it is complete (with the type invariant).
DataSafe == TypeOK /\ DataKept /\ BackupIsWhole

\* The version is honest: once 0 -> 1 is recorded, the config is in the new
\* form, every legacy identity whose name was free is imported, and every row
\* of the legacy database is in the workspace's database or, since 3 -> 4
\* rebuilds without them, in the backup it names; once this upgrader recorded
\* the newest version, the database has the current schema (or was only just
\* created) and passes the checks of its contents.
VersionHonest ==
    /\ meta.version >= 1 => disk.config # "old" /\ Importable = {}
    /\ \/ LegacyImported
       \/ meta.version = Latest /\ meta.backup # None /\ disk.legacyDb # "none"
       => LegacyRows \subseteq db.rows \cup InBackup
    /\ meta.version = Latest /\ meta.backup # None =>
          db.schema \in {"none", "blank", "current"} /\ db.defect = "none"

\* The database is deleted and built again only while no process that was let
\* through is at work: its writes would go to a deleted file.
RebuildIsAlone ==
    \A p, q \in Processes : At(p, "ok") => proc[q].pc \notin {"remove", "create", "ensure4"}

\* The journal goes away only when the workspace has the newest version, even
\* though a process that sees that version removes it without the lock.
JournalKept == [][journal # None /\ journal' = None => meta.version = Latest]_vars

\* What no retry can upgrade: a workspace of a newer release; a database that
\* ensure_schema refuses and 3 -> 4 does not rebuild; one whose contents the
\* validation refuses; legacy rows without an owner; legacy credentials that
\* give no identity in a workspace that has nothing else.
Blocked ==
    \/ meta.version > Latest
    \/ meta.version < Latest /\ db.schema = "newer"
    \/ meta.version < Latest /\ db.schema = "current" /\ db.defect # "none"
    \/ meta.version = 0 /\ db.schema = "ancient"
    \/ meta.version = 0 /\ disk.legacyDb # "none" /\ Importable = {}
       /\ \E r \in LegacyRows : ~Resolved(r)
    \/ ~HasWorkspace /\ disk.legacyIdents = {"junk"}

\* Interrupted anywhere and retried, the upgrade finishes: from some point on
\* the version is the newest and the journal is gone.
EventuallyUpgraded ==
    <>[](Blocked \/ Empty \/ (meta.version = Latest /\ journal = None))
=============================================================================
