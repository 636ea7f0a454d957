----------------------- MODULE WorkspaceUpgradeProofs -----------------------
(***************************************************************************)
(* Proofs about WorkspaceUpgrade, for every set of processes and all       *)
(* bounds.                                                                 *)
(*                                                                         *)
(* The invariant says what each place of the plan may rely on: the process *)
(* there holds the lock, meta.json has the version the step starts from,   *)
(* the journal names a whole backup once it is written, and the results of *)
(* the earlier parts of the step are still there.  A database that is too  *)
(* old was never written by this release, so every whole copy of it holds  *)
(* all of its rows; that is why it may be deleted.                         *)
(***************************************************************************)
EXTENDS WorkspaceUpgrade, TLAPS

-----------------------------------------------------------------------------
(* The invariant.                                                          *)

\* The places of the plan, which are passed with the lock held.
Plan == {"backup", "backing", "journal", "config", "oldConfig", "idents", "open", "upgrade",
         "import", "ensure", "apply4", "remove", "create", "ensure4", "validate", "meta"}
Rebuilding == {"remove", "create", "ensure4"}

\* A schema that v3 -> v4 does not rebuild.
Fine == db.schema \in {"none", "blank", "current"}

\* The plan starts from the recorded version, with a whole backup that the
\* journal names.
PlanOK(p) ==
    proc[p].pc \in Plan =>
        /\ meta.version = proc[p].step /\ ~Empty
        /\ proc[p].pc \in {"backup", "backing"} => journal = None
        /\ proc[p].pc = "journal" => journal \in {None, proc[p].backup}
        /\ proc[p].pc # "backup" => proc[p].backup # None
        /\ proc[p].pc \notin {"backup", "backing"} => backups[proc[p].backup].whole
        /\ proc[p].pc \notin {"backup", "backing", "journal"} => journal = proc[p].backup
        /\ proc[p].pc \in {"config", "oldConfig", "idents", "open", "upgrade", "import", "ensure"} =>
              proc[p].step = 0
        /\ proc[p].pc \in {"apply4"} \cup Rebuilding => proc[p].step = 3

\* What 0 -> 1 has done so far.
FirstOK(p) ==
    proc[p].step = 0 =>
        /\ proc[p].pc = "oldConfig" => disk.config = "current"
        /\ proc[p].pc \in {"open", "upgrade", "import", "ensure", "validate", "meta"} => Importable = {}
        /\ proc[p].pc = "import" => db.schema = "current"
        /\ proc[p].pc \in {"ensure", "validate", "meta"} =>
              (disk.legacyDb # "none" => LegacyRows \subseteq written)
        /\ proc[p].pc = "meta" => disk.config # "old"

\* The database is deleted only if it is too old and the backup has a copy; the
\* newest version is recorded only of one that was validated.
LastOK(p) ==
    /\ proc[p].pc = "remove" => db.schema \in {"ancient", "recent"} /\ backups[proc[p].backup].bak
    /\ proc[p].step = 3 /\ proc[p].pc = "meta" => Fine /\ db.defect = "none"

ProcOK(p) ==
    /\ proc[p].pc \in Plan \cup {"inspect"} => lock = p
    /\ proc[p].pc \notin {"idle", "ok"} => meta.version <= Latest
    /\ proc[p].pc = "ok" => meta.version = Latest \/ Fine
    /\ proc[p].pc = "clear" => meta.version = Latest
    /\ PlanOK(p) /\ FirstOK(p) /\ LastOK(p)

\* Without a journal nothing has been rebuilt; with one, meta.json names no
\* other backup, and at the newest version the same one.
JournalOK ==
    /\ journal = None /\ meta.version # Latest => meta.backup = None /\ written \subseteq db.rows
    /\ journal # None => /\ meta.backup \in {None, journal} /\ ~Empty
                         /\ meta.version = Latest => meta.backup = journal

\* Only what was written is in the database, and nothing in an absent one.
RowsOK ==
    /\ db.schema = "none" => db.rows = {} /\ db.defect = "none"
    /\ db.rows \subseteq written

\* Nobody has written to a database that is too old, and every whole copy of
\* the database was made of this very one.
Untouched ==
    db.schema \in {"ancient", "recent"} =>
        /\ written = db.rows
        /\ \A i \in Ids : backups[i].bak /\ backups[i].whole => backups[i].rows = db.rows

Imported ==
    meta.version >= 1 =>
        disk.config # "old" /\ Importable = {}

\* The legacy rows were imported, wherever they are now.
LegacyWritten ==
    \/ LegacyImported
    \/ meta.version = Latest /\ meta.backup # None /\ disk.legacyDb # "none"
    => LegacyRows \subseteq written

Current == meta.version = Latest /\ meta.backup # None => Fine /\ db.defect = "none"

Global ==
    /\ JournalOK /\ RowsOK /\ Untouched /\ Imported /\ LegacyWritten /\ Current
    /\ DataKept /\ BackupIsWhole

IInv == TypeOK /\ (\A p \in Processes : ProcOK(p)) /\ RebuildIsAlone /\ Global

-----------------------------------------------------------------------------
(* Types.                                                                  *)

\* Goto moves one process and keeps what it carries; Outside forgets it.
LEMMA Moves ==
    ASSUME proc \in [Processes -> ProcType], NEW p \in Processes
    PROVE  /\ \A pc \in Pcs : Goto(p, pc) =>
                /\ proc' \in [Processes -> ProcType]
                /\ \A q \in Processes \ {p} : proc'[q] = proc[q]
                /\ proc'[p].pc = pc /\ proc'[p].backup = proc[p].backup
                /\ proc'[p].step = proc[p].step /\ proc'[p].seen = proc[p].seen
           /\ \A pc \in Pcs : proc' = [proc EXCEPT ![p] = Outside(pc)] =>
                /\ proc' \in [Processes -> ProcType]
                /\ \A q \in Processes \ {p} : proc'[q] = proc[q]
                /\ proc'[p].pc = pc /\ proc'[p].step = 0
PROOF
  <1>1. \A pc \in Pcs : Outside(pc) \in ProcType /\ Outside(pc).pc = pc /\ Outside(pc).step = 0
    BY DEF Outside, ProcType, Unseen, SeenType, Latest
  <1>2. ASSUME NEW pc \in Pcs, Goto(p, pc)
        PROVE  /\ proc' \in [Processes -> ProcType]
               /\ \A q \in Processes \ {p} : proc'[q] = proc[q]
               /\ proc'[p].pc = pc /\ proc'[p].backup = proc[p].backup
               /\ proc'[p].step = proc[p].step /\ proc'[p].seen = proc[p].seen
    BY <1>2 DEF Goto, ProcType
  <1> QED BY <1>1, <1>2

\* The parts of a process record have their types.
LEMMA ProcFields ==
    ASSUME proc \in [Processes -> ProcType], NEW p \in Processes
    PROVE  /\ proc[p].pc \in Pcs /\ proc[p].backup \in Ids \cup {None}
           /\ proc[p].step \in {0, 1, 2, 3} /\ proc[p].seen \in SeenType
PROOF BY DEF ProcType, Latest

\* Every step keeps the types; Inspect needs that a process with the lock found
\* a version this release knows.
LEMMA TypeStep ==
    ASSUME TypeOK, \A p \in Processes : ProcOK(p), [Next]_vars
    PROVE  TypeOK'
PROOF
  <1> USE WorkspaceUpgradeAssumption
  <1>0. /\ proc \in [Processes -> ProcType] /\ meta \in MetaType /\ db \in DbType /\ disk \in DiskType
        /\ backups \in [Ids -> BackupType] /\ written \subseteq Rows /\ lock \in Processes \cup {None}
        /\ clock \in Ids /\ journal \in Ids \cup {None}
    BY DEF TypeOK
  <1>a. \A pc \in Plan \cup {"idle", "ok", "clear", "lock", "inspect"} : pc \in Pcs
    BY DEF Pcs, Plan
  <1>b. Created \in DbType /\ [db EXCEPT !.schema = "current"] \in DbType
        /\ NoDatabase \in DbType
        /\ \A r \in Rows : [db EXCEPT !.rows = @ \cup {r}] \in DbType
    BY <1>0 DEF Created, NoDatabase, DbType, Schemas, Defects
  <1>c. \A p \in Processes : Released(p) \in Processes \cup {None}
    BY <1>0 DEF Released
  <1>d. /\ \A c \in {"none", "old", "current"} : [disk EXCEPT !.config = c] \in DiskType
        /\ [disk EXCEPT !.oldConfig = FALSE] \in DiskType
        /\ \A n \in Names : [disk EXCEPT !.idents[n] = "imported"] \in DiskType
    BY <1>0 DEF DiskType
  <1>1. ASSUME NEW p \in Processes, NEW pc \in Pcs, Return(p, pc)
        PROVE  proc' \in [Processes -> ProcType] /\ lock' \in Processes \cup {None}
    BY <1>0, <1>1, <1>c, Moves DEF Return
  <1>2. ASSUME NEW p \in Processes, NEW pc \in Pcs, NEW d \in DbType, DbStep(p, d, pc)
        PROVE  TypeOK'
    <2>1. proc' \in [Processes -> ProcType]
      BY <1>0, <1>2, Moves DEF DbStep
    <2> QED BY <1>0, <1>2, <2>1 DEF DbStep, TypeOK, control
  <1>3. ASSUME NEW p \in Processes, NEW pc \in Pcs, EnsureSchema(p, pc) PROVE TypeOK'
    <2>1. CASE DbStep(p, [db EXCEPT !.schema = "current"], pc)
      BY <1>2, <1>b, <2>1
    <2>2. CASE Fail(p)
      BY <1>0, <1>1, <1>a, <2>2 DEF Fail, TypeOK
    <2> QED BY <1>3, <2>1, <2>2 DEF EnsureSchema
  <1>4. ASSUME NEW p \in Processes, Start(p) PROVE TypeOK'
    <2>1. proc' \in [Processes -> ProcType]
      BY <1>0, <1>4, <1>a, Moves DEF Start
    <2> QED BY <1>0, <1>4, <2>1 DEF Start, TypeOK, control
  <1>5. ASSUME NEW p \in Processes, AcquireFileLock(p) PROVE TypeOK'
    BY <1>0, <1>5, <1>a, Moves DEF AcquireFileLock, TypeOK
  <1>6. ASSUME NEW p \in Processes, FileLocked(p) PROVE TypeOK'
    BY <1>0, <1>1, <1>6, <1>a DEF FileLocked, Fail, TypeOK
  <1>7. ASSUME NEW p \in Processes, Inspect(p) PROVE TypeOK'
    <2>1. /\ UNCHANGED <<meta, journal, backups, oldLock, clock, faults, disk, db, written>>
          /\ proc[p].pc = "inspect"
      BY <1>7 DEF Inspect, At
    <2>2. CASE Settled
      <3>1. proc' \in [Processes -> ProcType] /\ lock' \in Processes \cup {None}
        BY <1>0, <1>1, <1>7, <1>a, <2>2, Moves DEF Inspect
      <3> QED BY <1>0, <2>1, <3>1 DEF TypeOK
    <2>3. CASE ~Settled
      <3> DEFINE seen == [config |-> disk.config # "none", oldConfig |-> disk.oldConfig,
                          bare |-> ~HasWorkspace, idents |-> disk.legacyIdents # {}]
      <3>1. seen \in SeenType
        BY <1>0 DEF SeenType, DiskType, HasWorkspace
      <3>2. meta.version \in 0..(Latest - 1)
        BY <1>0, <2>1, <2>3 DEF ProcOK, Settled, MetaType, Latest
      <3> HIDE DEF seen
      <3>3. /\ lock' = lock
            /\ proc' = [proc EXCEPT ![p] =
                 [pc |-> IF journal # None THEN "journal" ELSE "backup",
                  backup |-> journal, step |-> meta.version, seen |-> seen]]
        BY <1>7, <2>3 DEF Inspect, seen
      <3>4. proc' \in [Processes -> ProcType]
        BY <1>0, <1>a, <3>1, <3>2, <3>3 DEF ProcType, Plan
      <3> QED BY <1>0, <2>1, <3>3, <3>4 DEF TypeOK
    <2> QED BY <2>2, <2>3
  <1>8. ASSUME NEW p \in Processes, CreateBackup(p) PROVE TypeOK'
    <2>1. proc' \in [Processes -> ProcType]
      BY <1>0, <1>8, <1>a DEF CreateBackup, ProcType, Plan
    <2>2. \A b \in BackupType : BegunBackup(b) \in BackupType
      BY DEF BegunBackup, BackupType
    <2>3. backups' \in [Ids -> BackupType]
      BY <1>0, <1>8, <2>2 DEF CreateBackup
    <2> QED BY <1>0, <1>8, <2>1, <2>3 DEF CreateBackup, TypeOK
  <1>9. ASSUME NEW p \in Processes, BackupDone(p) PROVE TypeOK'
    <2>1. \A b \in BackupType : [b EXCEPT !.whole = TRUE] \in BackupType
      BY DEF BackupType
    <2>2. [bak |-> TRUE, rows |-> db.rows, whole |-> TRUE] \in BackupType
      BY <1>0 DEF BackupType, DbType
    <2>3. backups' \in [Ids -> BackupType]
      BY <1>0, <1>9, <2>1, <2>2 DEF BackupDone
    <2>4. proc' \in [Processes -> ProcType]
      BY <1>0, <1>9, <1>a, Moves DEF BackupDone, Plan
    <2> QED BY <1>0, <1>9, <2>3, <2>4 DEF BackupDone, TypeOK
  <1>10. ASSUME NEW p \in Processes, SaveJournal(p) PROVE TypeOK'
    <2>1. \E pc \in Pcs : Goto(p, pc)
      BY <1>0, <1>10, <1>a, ProcFields DEF SaveJournal, Apply, Plan
    <2>2. proc' \in [Processes -> ProcType] /\ proc[p].backup \in Ids \cup {None}
      BY <1>0, <2>1, Moves, ProcFields
    <2> QED BY <1>0, <1>10, <2>2 DEF SaveJournal, TypeOK
  <1>11. ASSUME NEW p \in Processes, ApplyConfig(p) PROVE TypeOK'
    <2>1. disk' \in DiskType
      <3>1. \E c \in {"none", "old", "current"} : disk' = [disk EXCEPT !.config = c]
        BY <1>0, <1>11 DEF ApplyConfig, DiskType
      <3> QED BY <1>d, <3>1
    <2>2. proc' \in [Processes -> ProcType]
      BY <1>0, <1>11, <1>a, Moves DEF ApplyConfig, Plan
    <2> QED BY <1>0, <1>11, <2>1, <2>2 DEF ApplyConfig, TypeOK, control
  <1>12. ASSUME NEW p \in Processes, RemoveOldConfig(p) PROVE TypeOK'
    BY <1>0, <1>12, <1>a, <1>d, Moves DEF RemoveOldConfig, TypeOK, control, Plan
  <1>13. ASSUME NEW p \in Processes, ImportIdentity(p) PROVE TypeOK'
    BY <1>0, <1>13, <1>d DEF ImportIdentity, Importable, TypeOK, control
  <1>14. ASSUME NEW p \in Processes, IdentitiesImported(p) PROVE TypeOK'
    <2>1. proc' \in [Processes -> ProcType]
      BY <1>0, <1>14, <1>a, Moves DEF IdentitiesImported, Plan
    <2> QED BY <1>0, <1>14, <2>1 DEF IdentitiesImported, TypeOK, control
  <1>15. ASSUME NEW p \in Processes, OpenForImport(p) \/ RemoveDatabase(p) \/ CreateDatabase(p) \/ UseOpen(p)
                                     \/ UseEnsure(p)
         PROVE  TypeOK'
    BY <1>2, <1>15, <1>a, <1>b DEF OpenForImport, RemoveDatabase, CreateDatabase, UseOpen, UseEnsure, Plan
  <1>16. ASSUME NEW p \in Processes, EnsureForImport(p) \/ EnsureTarget(p) \/ EnsureRebuilt(p)
         PROVE  TypeOK'
    BY <1>0, <1>2, <1>3, <1>16, <1>a DEF EnsureForImport, EnsureTarget, EnsureRebuilt, Plan
  <1>17. ASSUME NEW p \in Processes, ImportRow(p) PROVE TypeOK'
    BY <1>0, <1>17, <1>b DEF ImportRow, TypeOK, control, Rows
  <1>18. ASSUME NEW p \in Processes, RowsImported(p) PROVE TypeOK'
    BY <1>0, <1>18, <1>a, Moves DEF RowsImported, TypeOK, control, Plan
  <1>x. ASSUME NEW p \in Processes, ImportFails(p) PROVE TypeOK'
    BY <1>0, <1>1, <1>x, <1>a DEF ImportFails, Fail, TypeOK
  <1>19. ASSUME NEW p \in Processes, ApplyV4(p) PROVE TypeOK'
    <2>1. CASE DbStep(p, db, "validate")
      BY <1>0, <1>2, <1>a, <2>1 DEF Plan
    <2>2. CASE EnsureSchema(p, "validate")
      BY <1>3, <1>a, <2>2 DEF Plan
    <2>3. CASE DbStep(p, db, "remove")
      BY <1>0, <1>2, <1>a, <2>3 DEF Plan
    <2>4. CASE Fail(p)
      BY <1>0, <1>1, <1>a, <2>4 DEF Fail, TypeOK
    <2> QED BY <1>19, <2>1, <2>2, <2>3, <2>4 DEF ApplyV4
  <1>20. ASSUME NEW p \in Processes, Validate(p) PROVE TypeOK'
    <2>1. CASE DbStep(p, db, "meta")
      BY <1>0, <1>2, <1>a, <2>1 DEF Plan
    <2>2. CASE Fail(p)
      BY <1>0, <1>1, <1>a, <2>2 DEF Fail, TypeOK
    <2> QED BY <1>20, <2>1, <2>2 DEF Validate
  <1>21. ASSUME NEW p \in Processes, SaveMeta(p) PROVE TypeOK'
    <2>1. proc[p].step \in {0, 1, 2, 3} /\ proc[p].backup \in Ids \cup {None} /\ proc[p] \in ProcType
      BY <1>0, ProcFields
    <2>2. meta' = [version |-> proc[p].step + 1, backup |-> proc[p].backup]
      BY <1>21 DEF SaveMeta
    <2>3. meta' \in MetaType
      BY <2>1, <2>2 DEF MetaType, Latest
    <2>4. CASE proc[p].step + 1 = Latest
      BY <1>0, <1>21, <1>a, <2>3, <2>4, Moves DEF SaveMeta, TypeOK
    <2>5. CASE proc[p].step + 1 # Latest
      <3>1. proc[p].step + 1 \in 0..(Latest - 1)
        BY <2>1, <2>5 DEF Latest
      <3>2. proc' \in [Processes -> ProcType]
        BY <1>0, <1>21, <1>a, <2>1, <2>5, <3>1 DEF SaveMeta, ProcType, Plan
      <3> QED BY <1>0, <1>21, <2>3, <3>2 DEF SaveMeta, TypeOK
    <2> QED BY <2>4, <2>5
  <1>22. ASSUME NEW p \in Processes, ClearJournal(p) PROVE TypeOK'
    BY <1>0, <1>1, <1>22, <1>a DEF ClearJournal, TypeOK
  <1>23. ASSUME NEW p \in Processes, Die(p) PROVE TypeOK'
    BY <1>0, <1>1, <1>23, <1>a DEF Die, TypeOK
  <1>24. ASSUME NEW p \in Processes, UseConfig(p) PROVE TypeOK'
    BY <1>0, <1>24, <1>d DEF UseConfig, TypeOK, control
  <1>25. ASSUME NEW p \in Processes, UseWrite(p) PROVE TypeOK'
    BY <1>0, <1>25, <1>b DEF UseWrite, TypeOK, control, Rows
  <1>26. CASE OldLockEnds \/ Tick \/ UNCHANGED vars
    <2>1. CASE Tick
      <3>1. clock' \in Ids
        BY <1>0, <2>1 DEF Tick, Ids
      <3> QED BY <2>1, <3>1 DEF Tick, TypeOK
    <2>2. CASE OldLockEnds \/ UNCHANGED vars
      BY <2>2 DEF OldLockEnds, vars, TypeOK
    <2> QED BY <1>26, <2>1, <2>2
  <1> QED
    BY <1>4, <1>5, <1>6, <1>7, <1>8, <1>9, <1>10, <1>11, <1>12, <1>13, <1>14, <1>15, <1>16,
       <1>17, <1>18, <1>x, <1>19, <1>20, <1>21, <1>22, <1>23, <1>24, <1>25, <1>26
    DEF Next, Upgrade, Use

-----------------------------------------------------------------------------
(* What a step leaves alone.                                               *)

\* The parts of the invariant, without unfolding it.
LEMMA Parts ==
    ASSUME IInv
    PROVE  /\ proc \in [Processes -> ProcType] /\ meta \in MetaType /\ db \in DbType /\ disk \in DiskType
           /\ backups \in [Ids -> BackupType] /\ written \subseteq Rows
           /\ clock \in Ids /\ journal \in Ids \cup {None} /\ None \notin Processes /\ None \notin Ids
           /\ \A q \in Processes : ProcOK(q)
           /\ RebuildIsAlone /\ Global
PROOF BY WorkspaceUpgradeAssumption DEF IInv, TypeOK, Ids

\* Whoever is in the plan holds the lock, and the version on disk is the one
\* its step starts from, below the newest.
LEMMA PlanFacts ==
    ASSUME IInv, NEW p \in Processes, proc[p].pc \in Plan
    PROVE  /\ lock = p /\ meta.version = proc[p].step /\ meta.version \in {0, 1, 2, 3}
           /\ meta.version <= Latest /\ meta.version # Latest /\ ~Empty /\ ~Settled
           /\ PlanOK(p) /\ FirstOK(p) /\ LastOK(p)
PROOF
  <1>1. ProcOK(p) /\ proc \in [Processes -> ProcType]
    BY Parts
  <1>2. /\ lock = p /\ meta.version = proc[p].step /\ ~Empty
        /\ PlanOK(p) /\ FirstOK(p) /\ LastOK(p)
    BY <1>1 DEF ProcOK, PlanOK
  <1>3. meta.version \in {0, 1, 2, 3}
    BY <1>1, <1>2, ProcFields
  <1> QED BY <1>2, <1>3 DEF Settled, Latest

\* A process that stays where it is, while nothing it relies on changes.
LEMMA StillKeeps ==
    ASSUME NEW q \in Processes, ProcOK(q), proc'[q] = proc[q],
           UNCHANGED <<meta, journal, backups, disk, db, written>>, lock = q => lock' = q
    PROVE  ProcOK(q)'
PROOF
  <1>1. Fine' <=> Fine
    BY DEF Fine
  <1>2. (Empty' <=> Empty) /\ Importable' = Importable
    BY DEF Empty, HasWorkspace, HasLegacy, Importable
  <1>3. PlanOK(q)'
    BY <1>2 DEF ProcOK, PlanOK
  <1>4. FirstOK(q)'
    BY <1>2 DEF ProcOK, FirstOK
  <1>5. LastOK(q)'
    BY <1>1 DEF ProcOK, LastOK
  <1> QED BY <1>1, <1>3, <1>4, <1>5 DEF ProcOK

\* The others while the holder of the lock works: none of them is in the plan.
LEMMA OthersKeep ==
    ASSUME IInv, NEW p \in Processes, proc[p].pc \in Plan, NEW q \in Processes, q # p,
           proc'[q] = proc[q], meta'.version <= Latest, Fine => Fine'
    PROVE  ProcOK(q)'
PROOF
  <1>1. ProcOK(q) /\ lock = p /\ meta.version # Latest
    BY Parts, PlanFacts
  <1>2. proc[q].pc \notin Plan \cup {"inspect", "clear"}
    BY <1>1 DEF ProcOK
  <1>3. proc'[q].pc \notin Plan
    BY <1>2
  <1>4. PlanOK(q)' /\ FirstOK(q)' /\ LastOK(q)'
    BY <1>3 DEF PlanOK, FirstOK, LastOK, Plan
  <1> QED BY <1>1, <1>2, <1>4 DEF ProcOK

\* Nobody is let through while another rebuilds the database: the version is
\* below the newest and the database is too old, so the workspace counts as
\* settled for nobody.
LEMMA AloneKeeps ==
    ASSUME IInv, NEW p \in Processes, \A q \in Processes \ {p} : proc'[q] = proc[q],
           proc'[p].pc = "ok" => proc[p].pc = "ok" \/ Settled \/ meta.version = Latest,
           proc'[p].pc \in Rebuilding =>
                proc[p].pc \in Rebuilding \/ (proc[p].pc = "apply4" /\ ~Fine)
    PROVE  RebuildIsAlone'
PROOF
  <1> SUFFICES ASSUME NEW a \in Processes, NEW b \in Processes,
                      proc'[a].pc = "ok", proc'[b].pc \in Rebuilding
               PROVE  FALSE
    BY DEF RebuildIsAlone, At, Rebuilding
  <1>0. RebuildIsAlone /\ ProcOK(a) /\ ProcOK(b)
    BY Parts
  <1>1. a # b
    BY DEF Rebuilding
  <1>2. Rebuilding \cup {"apply4"} \subseteq Plan
    BY DEF Rebuilding, Plan
  <1>3. \A q \in Processes : proc[a].pc = "ok" => proc[q].pc \notin Rebuilding
    BY <1>0 DEF RebuildIsAlone, At, Rebuilding
  <1>4. CASE a = p
    <2>1. proc[b].pc \in Rebuilding
      BY <1>1, <1>4
    <2>2. ~Settled /\ meta.version # Latest
      BY <1>2, <2>1, PlanFacts
    <2> QED BY <1>3, <1>4, <2>1, <2>2
  <1>5. CASE b = p
    <2>1. proc[a].pc = "ok"
      BY <1>1, <1>5
    <2>2. proc[p].pc = "apply4" /\ ~Fine
      BY <1>3, <1>5, <2>1
    <2>3. meta.version # Latest
      BY <1>2, <2>2, PlanFacts
    <2> QED BY <1>0, <2>1, <2>2, <2>3 DEF ProcOK
  <1>6. CASE a # p /\ b # p
    BY <1>3, <1>6
  <1> QED BY <1>4, <1>5, <1>6

\* Only the place of one process and the lock change.
LEMMA QuietKeeps ==
    ASSUME IInv, TypeOK', UNCHANGED <<meta, journal, backups, disk, db, written>>,
           NEW p \in Processes, \A q \in Processes \ {p} : proc'[q] = proc[q],
           \A q \in Processes \ {p} : lock = q => lock' = q,
           ProcOK(p)',
           proc'[p].pc = "ok" => proc[p].pc = "ok" \/ Settled \/ meta.version = Latest,
           proc'[p].pc \in Rebuilding =>
                proc[p].pc \in Rebuilding \/ (proc[p].pc = "apply4" /\ ~Fine)
    PROVE  IInv'
PROOF
  <1>1. \A q \in Processes \ {p} : ProcOK(q)'
    BY Parts, StillKeeps
  <1>2. RebuildIsAlone'
    BY AloneKeeps
  <1>3. Fine' = Fine /\ Empty' = Empty /\ Importable' = Importable /\ InBackup' = InBackup
    BY DEF Fine, Empty, HasWorkspace, HasLegacy, Importable, InBackup, Referred
  <1>4. JournalOK'
    BY <1>3, Parts DEF Global, JournalOK
  <1>5. RowsOK' /\ Untouched' /\ Imported' /\ LegacyWritten' /\ Current'
    BY <1>3, Parts DEF Global, RowsOK, Untouched, Imported, LegacyWritten, LegacyImported, Current
  <1>6. DataKept' /\ BackupIsWhole'
    BY <1>3, Parts DEF Global, DataKept, BackupIsWhole
  <1>7. Global'
    BY <1>4, <1>5, <1>6 DEF Global
  <1> QED BY <1>1, <1>2, <1>7 DEF IInv

\* A process that leaves takes only its own lock with it and owes nothing.
LEMMA ReturnFacts ==
    ASSUME IInv, NEW p \in Processes, NEW pc \in {"idle", "ok"}, Return(p, pc)
    PROVE  /\ \A q \in Processes \ {p} : proc'[q] = proc[q] /\ (lock = q => lock' = q)
           /\ proc'[p].pc = pc
           /\ PlanOK(p)' /\ FirstOK(p)' /\ LastOK(p)'
PROOF
  <1>1. pc \in Pcs /\ proc \in [Processes -> ProcType]
    BY Parts DEF Pcs
  <1>2. proc'[p].pc = pc /\ \A q \in Processes \ {p} : proc'[q] = proc[q]
    BY <1>1, Moves DEF Return
  <1>3. \A q \in Processes \ {p} : lock = q => lock' = q
    BY DEF Return, Released
  <1> QED BY <1>2, <1>3 DEF PlanOK, FirstOK, LastOK, Plan

\* A failed step or a death leaves the files as they are.
LEMMA GivesUp ==
    ASSUME IInv, TypeOK', UNCHANGED <<meta, journal, backups, disk, db, written>>,
           NEW p \in Processes, Return(p, "idle")
    PROVE  IInv'
PROOF
  <1>1. ProcOK(p)' /\ proc'[p].pc = "idle"
    BY ReturnFacts DEF ProcOK, Plan
  <1>2. \A q \in Processes \ {p} : proc'[q] = proc[q] /\ (lock = q => lock' = q)
    BY ReturnFacts
  <1> QED BY <1>1, <1>2, QuietKeeps DEF Rebuilding

\* The database and the files only grow towards the current form.
Grows ==
    /\ UNCHANGED <<meta, journal, backups>>
    /\ db.rows \subseteq db'.rows /\ db'.rows \subseteq written'
    /\ written \subseteq written' /\ written' \subseteq written \cup db'.rows
    /\ db.defect = "none" => db'.defect = "none"
    /\ db'.schema = "none" => db' = db
    /\ db'.schema \in {"ancient", "recent"} => db' = db /\ written' = written
    /\ db.schema = "current" => db'.schema = "current"
    /\ Fine => Fine'
    /\ disk'.config = "old" => disk.config = "old"
    /\ disk.config = "current" => disk'.config = "current"
    /\ disk'.legacyDb = disk.legacyDb
    /\ Importable' \subseteq Importable
    /\ Empty' => Empty

\* A step that only grows the data keeps what is said of the files.
LEMMA GrowsKeeps ==
    ASSUME IInv, Grows
    PROVE  Global'
PROOF
  <1>1. InBackup' = InBackup /\ UNCHANGED <<meta, journal, backups>>
    BY DEF Grows, InBackup, Referred
  <1>2. Global
    BY Parts
  <1>3. JournalOK'
    BY <1>1, <1>2 DEF Global, JournalOK, Grows
  <1>4. RowsOK' /\ Current'
    BY <1>1, <1>2 DEF Global, RowsOK, Current, Grows
  <1>5. Untouched'
    BY <1>1, <1>2 DEF Global, Untouched, Grows
  <1>6. Imported' /\ LegacyWritten'
    BY <1>1, <1>2 DEF Global, Imported, LegacyWritten, LegacyImported, Grows
  <1>7. DataKept' /\ BackupIsWhole'
    BY <1>1, <1>2 DEF Global, DataKept, BackupIsWhole, Grows
  <1> QED BY <1>3, <1>4, <1>5, <1>6, <1>7 DEF Global

\* Opening, migrating and inserting into the database are such steps.
LEMMA DbGrows ==
    ASSUME IInv, UNCHANGED <<meta, journal, backups, disk>>,
           \/ db' = db /\ written' = written
           \/ db' = Created /\ written' = written
           \/ Migratable(db.schema) /\ db' = [db EXCEPT !.schema = "current"] /\ written' = written
           \/ /\ db.schema = "current"
              /\ \E r \in Rows : db' = [db EXCEPT !.rows = @ \cup {r}] /\ written' = written \cup {r}
    PROVE  Grows
PROOF
  <1>0. db \in DbType /\ RowsOK
    BY Parts DEF Global
  <1>1. /\ db.rows \subseteq db'.rows /\ db'.rows \subseteq written'
        /\ written \subseteq written' /\ written' \subseteq written \cup db'.rows
        /\ db.defect = "none" => db'.defect = "none"
        /\ db'.schema = "none" => db' = db
        /\ db'.schema \in {"ancient", "recent"} => db' = db /\ written' = written
        /\ db.schema = "current" => db'.schema = "current"
        /\ Fine => Fine'
    <2>1. CASE db' = db /\ written' = written
      BY <1>0, <2>1 DEF RowsOK, Fine
    <2>2. CASE db' = Created /\ written' = written
      BY <1>0, <2>2 DEF Created, RowsOK, Fine
    <2>3. CASE Migratable(db.schema) /\ db' = [db EXCEPT !.schema = "current"] /\ written' = written
      BY <1>0, <2>3 DEF Migratable, DbType, RowsOK, Fine
    <2>4. CASE /\ db.schema = "current"
               /\ \E r \in Rows : db' = [db EXCEPT !.rows = @ \cup {r}] /\ written' = written \cup {r}
      BY <1>0, <2>4 DEF DbType, RowsOK, Fine
    <2> QED BY <2>1, <2>2, <2>3, <2>4
  <1>2. Importable' = Importable
    BY DEF Importable
  <1>3. Empty' => Empty
    BY <1>1 DEF Empty, HasWorkspace, HasLegacy
  <1> QED BY <1>1, <1>2, <1>3 DEF Grows

\* Writing the new configuration, removing the old one after that and importing
\* an identity are such steps.
LEMMA DiskGrows ==
    ASSUME IInv, UNCHANGED <<meta, journal, backups, db, written>>,
           \/ disk' = disk
           \/ disk' = [disk EXCEPT !.config = "current"]
           \/ disk.config = "current" /\ disk' = [disk EXCEPT !.oldConfig = FALSE]
           \/ \E n \in Names : disk' = [disk EXCEPT !.idents[n] = "imported"]
    PROVE  Grows
PROOF
  <1>0. disk \in DiskType /\ RowsOK
    BY Parts DEF Global
  <1>1. /\ disk'.legacyDb = disk.legacyDb /\ disk'.legacyIdents = disk.legacyIdents
        /\ disk'.settings = disk.settings
        /\ disk'.config \in {disk.config, "current"}
        /\ \A n \in Names : disk.idents[n] # "none" => disk'.idents[n] # "none"
        /\ disk.oldConfig = disk'.oldConfig \/ disk'.config = "current"
    BY <1>0 DEF DiskType
  <1>2. Importable' \subseteq Importable
    BY <1>1 DEF Importable
  <1>3. HasWorkspace => HasWorkspace'
    BY <1>1 DEF HasWorkspace
  <1>4. Empty' => Empty
    BY <1>1, <1>3 DEF Empty, HasLegacy
  <1> QED BY <1>0, <1>1, <1>2, <1>4 DEF Grows, RowsOK, Fine

\* A step of the holder of the lock within the plan.
LEMMA HolderKeeps ==
    ASSUME IInv, TypeOK', NEW p \in Processes, proc[p].pc \in Plan,
           \A q \in Processes \ {p} : proc'[q] = proc[q], lock' = lock,
           proc'[p].pc \in Plan \cup {"clear"}, meta'.version <= Latest, Fine => Fine',
           proc'[p].pc = "clear" => meta'.version = Latest,
           proc'[p].pc \in Rebuilding => proc[p].pc \in Rebuilding,
           PlanOK(p)', FirstOK(p)', LastOK(p)', Global'
    PROVE  IInv'
PROOF
  <1>1. \A q \in Processes \ {p} : ProcOK(q)'
    BY OthersKeep
  <1>2. proc'[p].pc \notin {"idle", "ok", "inspect"} /\ lock' = p
    BY PlanFacts DEF Plan
  <1>3. ProcOK(p)'
    BY <1>2 DEF ProcOK
  <1>4. RebuildIsAlone'
    BY <1>2, AloneKeeps
  <1> QED BY <1>1, <1>3, <1>4 DEF IInv

\* What the process has when the step only grows the database and the files.
LEMMA PlanGrows ==
    ASSUME IInv, Grows, NEW p \in Processes, proc[p].pc \in Plan \ {"backup", "backing", "journal"},
           proc'[p].pc \in Plan \ {"backup", "backing", "journal"},
           proc'[p].backup = proc[p].backup, proc'[p].step = proc[p].step,
           proc'[p].pc \in {"config", "oldConfig", "idents", "open", "upgrade", "import", "ensure"} =>
                proc[p].step = 0,
           proc'[p].pc \in {"apply4"} \cup Rebuilding => proc[p].step = 3
    PROVE  PlanOK(p)'
PROOF
  <1>1. PlanOK(p) /\ UNCHANGED <<meta, journal, backups>> /\ (Empty' => Empty)
    BY PlanFacts DEF Grows
  <1> QED BY <1>1 DEF PlanOK

-----------------------------------------------------------------------------
(* The actions.                                                            *)

\* Goto, with the other processes and the parts of this one.
LEMMA GotoFacts ==
    ASSUME IInv, NEW p \in Processes, NEW pc \in Pcs, Goto(p, pc)
    PROVE  /\ \A q \in Processes \ {p} : proc'[q] = proc[q]
           /\ proc'[p].pc = pc /\ proc'[p].backup = proc[p].backup
           /\ proc'[p].step = proc[p].step /\ proc'[p].seen = proc[p].seen
PROOF BY Parts, Moves

\* A process starts, takes the lock, finds it taken, or dies.
LEMMA EntryKeeps ==
    ASSUME IInv, TypeOK', NEW p \in Processes,
           Start(p) \/ AcquireFileLock(p) \/ FileLocked(p) \/ Die(p)
    PROVE  IInv'
PROOF
  <1>0. /\ proc \in [Processes -> ProcType] /\ None \notin Processes /\ ProcOK(p) /\ meta \in MetaType
        /\ JournalOK /\ {"idle", "ok", "lock", "clear", "inspect"} \subseteq Pcs
    BY Parts DEF Pcs, Global
  <1>1. CASE FileLocked(p) \/ Die(p)
    BY <1>1, GivesUp DEF FileLocked, Fail, Die
  <1>2. CASE AcquireFileLock(p)
    <2>1. /\ proc[p].pc = "lock" /\ lock = None /\ lock' = p /\ Goto(p, "inspect")
          /\ UNCHANGED <<meta, journal, backups, disk, db, written>>
      BY <1>2 DEF AcquireFileLock, At
    <2>2. proc'[p].pc = "inspect" /\ \A q \in Processes \ {p} : proc'[q] = proc[q]
      BY <1>0, <2>1, GotoFacts
    <2>3. ProcOK(p)'
      BY <1>0, <2>1, <2>2 DEF ProcOK, PlanOK, FirstOK, LastOK, Plan
    <2> QED BY <1>0, <2>1, <2>2, <2>3, QuietKeeps DEF Rebuilding
  <1>3. CASE Start(p)
    <2>1. /\ UNCHANGED <<meta, journal, backups, disk, db, written, lock>>
          /\ proc[p].pc \in {"idle", "ok"}
      BY <1>3 DEF Start, control
    <2>a. PICK pc : /\ pc = IF meta.version > Latest THEN "idle"
                            ELSE IF ~Settled THEN "lock"
                            ELSE IF journal # None THEN "clear" ELSE "ok"
                    /\ proc' = [proc EXCEPT ![p] = Outside(pc)]
      BY <1>3 DEF Start
    <2>b. meta.version \in Nat /\ Latest \in Nat
      BY <1>0 DEF MetaType, Latest
    <2>2. /\ pc \in {"idle", "ok", "lock", "clear"} /\ pc \in Pcs
          /\ pc \in {"lock", "ok", "clear"} => meta.version <= Latest
          /\ pc \in {"ok", "clear"} => Settled
          /\ pc = "clear" => journal # None
      BY <1>0, <2>a, <2>b
    <2>3. proc'[p].pc = pc /\ \A q \in Processes \ {p} : proc'[q] = proc[q]
      BY <1>0, <2>a, <2>2, Moves
    <2>4. pc = "clear" => meta.version = Latest
      BY <1>0, <2>2 DEF Settled, JournalOK
    <2>5. pc = "ok" => meta.version = Latest \/ Fine
      BY <2>2 DEF Settled, Empty, HasWorkspace, Fine
    <2>6. ProcOK(p)'
      BY <2>1, <2>2, <2>3, <2>4, <2>5 DEF ProcOK, PlanOK, FirstOK, LastOK, Plan, Fine
    <2> QED BY <2>1, <2>2, <2>3, <2>6, QuietKeeps DEF Rebuilding
  <1> QED BY <1>1, <1>2, <1>3

\* The second inspection, under the lock: the plan starts at the version on
\* disk and takes over the backup of an earlier try.
LEMMA InspectKeeps ==
    ASSUME IInv, TypeOK', NEW p \in Processes, Inspect(p)
    PROVE  IInv'
PROOF
  <1>0. /\ proc \in [Processes -> ProcType] /\ ProcOK(p) /\ JournalOK /\ BackupIsWhole
        /\ None \notin Ids /\ journal \in Ids \cup {None}
        /\ {"idle", "ok", "lock", "clear", "inspect", "backup", "journal"} \subseteq Pcs
    BY Parts DEF Pcs, Global
  <1>1. /\ proc[p].pc = "inspect" /\ lock = p /\ meta.version <= Latest
        /\ UNCHANGED <<meta, journal, backups, disk, db, written>>
    BY <1>0 DEF Inspect, At, ProcOK
  <1>2. CASE Settled /\ journal # None
    <2>1. Goto(p, "clear") /\ lock' = lock
      BY <1>2 DEF Inspect
    <2>2. proc'[p].pc = "clear" /\ \A q \in Processes \ {p} : proc'[q] = proc[q]
      BY <1>0, <2>1, GotoFacts
    <2>3. meta.version = Latest
      BY <1>0, <1>2 DEF Settled, JournalOK
    <2>4. ProcOK(p)'
      BY <1>1, <2>2, <2>3 DEF ProcOK, PlanOK, FirstOK, LastOK, Plan
    <2> QED BY <1>1, <2>1, <2>2, <2>4, QuietKeeps DEF Rebuilding
  <1>3. CASE Settled /\ journal = None
    <2>1. Return(p, "ok")
      BY <1>3 DEF Inspect
    <2>2. /\ \A q \in Processes \ {p} : proc'[q] = proc[q] /\ (lock = q => lock' = q)
          /\ proc'[p].pc = "ok" /\ PlanOK(p)' /\ FirstOK(p)' /\ LastOK(p)'
      BY <2>1, ReturnFacts
    <2>3. meta.version = Latest \/ Fine
      BY <1>3 DEF Settled, Empty, HasWorkspace, Fine
    <2>4. ProcOK(p)'
      BY <1>1, <2>2, <2>3 DEF ProcOK, Plan, Fine
    <2> QED BY <1>1, <1>3, <2>2, <2>4, QuietKeeps DEF Rebuilding
  <1>4. CASE ~Settled
    <2>1. PICK seen : /\ lock' = lock
                      /\ proc' = [proc EXCEPT ![p] =
                           [pc |-> IF journal # None THEN "journal" ELSE "backup",
                            backup |-> journal, step |-> meta.version, seen |-> seen]]
      BY <1>4 DEF Inspect
    <2>2. /\ proc'[p].pc = IF journal # None THEN "journal" ELSE "backup"
          /\ proc'[p].backup = journal /\ proc'[p].step = meta.version
          /\ \A q \in Processes \ {p} : proc'[q] = proc[q]
      BY <1>0, <2>1
    <2>3. ~Empty /\ (Empty' <=> Empty)
      BY <1>1, <1>4 DEF Settled, Empty, HasWorkspace, HasLegacy
    <2>4. journal # None => backups[journal].whole
      BY <1>0 DEF BackupIsWhole
    <2>5. PlanOK(p)'
      BY <1>1, <2>2, <2>3, <2>4 DEF PlanOK, Rebuilding
    <2>6. FirstOK(p)' /\ LastOK(p)'
      BY <2>2 DEF FirstOK, LastOK
    <2>7. ProcOK(p)'
      BY <1>1, <2>1, <2>2, <2>5, <2>6 DEF ProcOK, Plan
    <2> QED BY <1>1, <2>1, <2>2, <2>7, QuietKeeps DEF Rebuilding
  <1> QED BY <1>2, <1>3, <1>4

\* ensure_schema within the plan, when it succeeds, and the other steps that
\* only touch the database.
LEMMA DbStepKeeps ==
    ASSUME IInv, TypeOK', NEW p \in Processes, proc[p].pc \in Plan \ {"backup", "backing", "journal"},
           NEW d, NEW pc \in Plan \ {"backup", "backing", "journal"}, DbStep(p, d, pc),
           d \in {db, Created} \/ (Migratable(db.schema) /\ d = [db EXCEPT !.schema = "current"]),
           pc \in {"config", "oldConfig", "idents", "open", "upgrade", "import", "ensure"} =>
                proc[p].step = 0,
           pc \in {"apply4"} \cup Rebuilding => proc[p].step = 3,
           pc \in Rebuilding => proc[p].pc \in Rebuilding,
           pc \notin {"oldConfig", "remove", "meta"},
           pc = "import" => d.schema = "current",
           proc[p].step = 0 /\ pc \in {"open", "upgrade", "import", "ensure", "validate"} => Importable = {},
           proc[p].step = 0 /\ pc \in {"ensure", "validate"} =>
                (disk.legacyDb # "none" => LegacyRows \subseteq written)
    PROVE  IInv'
PROOF
  <1>1. /\ UNCHANGED <<meta, journal, backups, lock, disk, written>> /\ db' = d
        /\ pc \in Pcs /\ Goto(p, pc)
    BY DEF DbStep, control, Pcs, Plan
  <1>2. /\ \A q \in Processes \ {p} : proc'[q] = proc[q]
        /\ proc'[p].pc = pc /\ proc'[p].backup = proc[p].backup /\ proc'[p].step = proc[p].step
    BY <1>1, GotoFacts
  <1>3. Grows
    BY <1>1, DbGrows
  <1>4. PlanOK(p)'
    BY <1>2, <1>3, PlanGrows
  <1>5. Importable' = Importable
    BY <1>1 DEF Importable
  <1>6. FirstOK(p)' /\ LastOK(p)'
    BY <1>1, <1>2, <1>5 DEF FirstOK, LastOK
  <1>7. meta'.version <= Latest /\ (Fine => Fine')
    BY <1>1, <1>3, PlanFacts DEF Grows
  <1>8. Global'
    BY <1>3, GrowsKeeps
  <1> QED BY <1>1, <1>2, <1>4, <1>6, <1>7, <1>8, HolderKeeps DEF Plan

\* The database steps of 0 -> 1.
LEMMA FirstStepKeeps ==
    ASSUME IInv, TypeOK', NEW p \in Processes,
           \/ OpenForImport(p) \/ EnsureForImport(p) \/ EnsureTarget(p)
    PROVE  IInv'
PROOF
  <1>0. db \in DbType /\ [db EXCEPT !.schema = "current"].schema = "current"
        /\ [db EXCEPT !.schema = "current"].rows = db.rows
    BY Parts DEF DbType
  <1>1. proc[p].pc \in {"open", "upgrade", "ensure"}
    BY DEF OpenForImport, EnsureForImport, EnsureTarget, At
  <1>2. /\ proc[p].pc \in Plan \ {"backup", "backing", "journal"}
        /\ proc[p].step = 0 /\ Importable = {}
        /\ proc[p].pc = "ensure" =>
                (disk.legacyDb # "none" => LegacyRows \subseteq written)
    <2>1. proc[p].pc \in Plan \ {"backup", "backing", "journal"}
      BY <1>1 DEF Plan
    <2> QED BY <1>1, <2>1, PlanFacts DEF PlanOK, FirstOK
  <1>3. CASE OpenForImport(p)
    <2>1. DbStep(p, Created, "upgrade")
      BY <1>3 DEF OpenForImport
    <2> QED BY <1>2, <2>1, DbStepKeeps DEF Plan, Rebuilding
  <1>4. CASE EnsureForImport(p)
    <2>1. CASE Migratable(db.schema) /\ DbStep(p, [db EXCEPT !.schema = "current"], "import")
      <3>1. PICK d : d = [db EXCEPT !.schema = "current"]
        OBVIOUS
      <3>2. d.schema = "current" /\ Migratable(db.schema) /\ DbStep(p, d, "import")
        BY <1>0, <2>1, <3>1
      <3>3. /\ "import" \in Plan \ {"backup", "backing", "journal"} /\ "import" \notin {"apply4"} \cup Rebuilding
            /\ d \in {db, Created} \/ (Migratable(db.schema) /\ d = [db EXCEPT !.schema = "current"])
            /\ proc[p].step = 0 /\ Importable = {}
        BY <1>2, <3>1, <3>2 DEF Plan, Rebuilding
      <3> QED BY <1>2, <3>2, <3>3, DbStepKeeps
    <2>2. CASE Fail(p)
      BY <2>2, GivesUp DEF Fail
    <2> QED BY <1>4, <2>1, <2>2 DEF EnsureForImport, EnsureSchema
  <1>5. CASE EnsureTarget(p)
    <2>0. proc[p].pc = "ensure"
      BY <1>5 DEF EnsureTarget, At
    <2>1. CASE Migratable(db.schema) /\ DbStep(p, [db EXCEPT !.schema = "current"], "validate")
      <3>1. PICK d : d = [db EXCEPT !.schema = "current"]
        OBVIOUS
      <3>2. d.schema = "current" /\ d.rows = db.rows /\ Migratable(db.schema) /\ DbStep(p, d, "validate")
        BY <1>0, <2>1, <3>1
      <3>3. /\ "validate" \in Plan \ {"backup", "backing", "journal"} /\ "validate" \notin {"apply4"} \cup Rebuilding
            /\ d \in {db, Created} \/ (Migratable(db.schema) /\ d = [db EXCEPT !.schema = "current"])
            /\ proc[p].step = 0 /\ Importable = {}
        BY <1>2, <3>1, <3>2 DEF Plan, Rebuilding
      <3> QED BY <1>2, <2>0, <3>2, <3>3, DbStepKeeps
    <2>2. CASE Fail(p)
      BY <2>2, GivesUp DEF Fail
    <2>3. CASE DbStep(p, db, "validate")
      BY <1>2, <2>0, <2>3, DbStepKeeps DEF Plan, Rebuilding
    <2> QED BY <1>5, <2>1, <2>2, <2>3 DEF EnsureTarget, EnsureSchema
  <1> QED BY <1>3, <1>4, <1>5

\* The steps of 3 -> 4 other than the deletion.
LEMMA LastStepKeeps ==
    ASSUME IInv, TypeOK', NEW p \in Processes,
           ApplyV4(p) \/ CreateDatabase(p) \/ EnsureRebuilt(p)
    PROVE  IInv'
PROOF
  <1>1. proc[p].pc \in {"apply4", "create", "ensure4"}
    BY DEF ApplyV4, CreateDatabase, EnsureRebuilt, At
  <1>2. proc[p].pc \in Plan \ {"backup", "backing", "journal"} /\ proc[p].step = 3
    <2>1. proc[p].pc \in Plan \ {"backup", "backing", "journal"}
      BY <1>1 DEF Plan
    <2> QED BY <1>1, <2>1, PlanFacts DEF PlanOK, Rebuilding
  <1>3. CASE \E d \in {db, [db EXCEPT !.schema = "current"]} :
                /\ d = db \/ (Migratable(db.schema) /\ d = [db EXCEPT !.schema = "current"])
                /\ DbStep(p, d, "validate")
    BY <1>2, <1>3, DbStepKeeps DEF Plan, Rebuilding
  <1>4. CASE Fail(p)
    BY <1>4, GivesUp DEF Fail
  <1>5. CASE CreateDatabase(p)
    <2>1. DbStep(p, Created, "ensure4") /\ proc[p].pc \in Rebuilding
      BY <1>5 DEF CreateDatabase, At, Rebuilding
    <2> QED BY <1>2, <2>1, DbStepKeeps DEF Plan, Rebuilding
  <1>6. CASE EnsureRebuilt(p)
    BY <1>3, <1>4, <1>6 DEF EnsureRebuilt, EnsureSchema
  <1>7. CASE ApplyV4(p)
    <2>1. CASE \/ db.schema = "none" /\ DbStep(p, db, "validate")
               \/ EnsureSchema(p, "validate")
      BY <1>3, <1>4, <2>1 DEF EnsureSchema
    <2>2. CASE /\ db.schema \in {"ancient", "recent"}
               /\ backups[proc[p].backup].bak /\ DbStep(p, db, "remove")
      <3>0. /\ "remove" \in Pcs /\ proc[p].pc = "apply4" /\ Goto(p, "remove")
            /\ UNCHANGED <<meta, journal, backups, lock, disk, db, written>>
        BY <1>7, <2>2 DEF Pcs, ApplyV4, At, DbStep, control
      <3>1. /\ \A q \in Processes \ {p} : proc'[q] = proc[q]
            /\ proc'[p].pc = "remove" /\ proc'[p].backup = proc[p].backup /\ proc'[p].step = proc[p].step
        BY <3>0, GotoFacts
      <3>2. Grows
        BY <3>0, DbGrows
      <3>3. PlanOK(p)'
        BY <1>2, <3>1, <3>2, PlanGrows DEF Plan
      <3>4. FirstOK(p)' /\ LastOK(p)'
        BY <1>2, <2>2, <3>0, <3>1 DEF FirstOK, LastOK
      <3>5. ProcOK(p)'
        BY <1>2, <3>0, <3>1, <3>3, <3>4, PlanFacts DEF ProcOK
      <3> QED BY <2>2, <3>0, <3>1, <3>5, QuietKeeps DEF Fine
    <2> QED BY <1>4, <1>7, <2>1, <2>2 DEF ApplyV4
  <1> QED BY <1>5, <1>6, <1>7

\* Making a backup: the journal is absent and meta.json names none, so the
\* directory of this second, if there is one, is nobody's.
LEMMA BackupKeeps ==
    ASSUME IInv, TypeOK', NEW p \in Processes, CreateBackup(p) \/ BackupDone(p)
    PROVE  IInv'
PROOF
  <1>0. /\ proc \in [Processes -> ProcType] /\ backups \in [Ids -> BackupType] /\ db \in DbType
        /\ clock \in Ids /\ None \notin Ids /\ Global /\ {"backing", "journal"} \subseteq Pcs
    BY Parts DEF Pcs
  <1>1. /\ proc[p].pc \in {"backup", "backing"} /\ proc[p].pc \in Plan
        /\ UNCHANGED <<meta, journal, lock, disk, db, written>>
    BY DEF CreateBackup, BackupDone, At, Plan
  <1>2. /\ journal = None /\ meta.version # Latest /\ meta.backup = None /\ ~Empty
        /\ meta.version = proc[p].step /\ meta.version <= Latest
    BY <1>0, <1>1, PlanFacts DEF PlanOK, Global, JournalOK
  <1>3. Empty' = Empty /\ Importable' = Importable /\ Fine' = Fine
    BY <1>1 DEF Empty, HasWorkspace, HasLegacy, Importable, Fine
  <1>4. InBackup' = {} /\ InBackup = {} /\ BackupIsWhole'
    BY <1>1, <1>2 DEF InBackup, Referred, BackupIsWhole
  <1>5. JournalOK' /\ RowsOK' /\ Imported' /\ LegacyWritten' /\ Current' /\ DataKept'
    BY <1>0, <1>1, <1>2, <1>3, <1>4
    DEF Global, JournalOK, RowsOK, Imported, LegacyWritten, LegacyImported, Current, DataKept
  <1>6. CASE CreateBackup(p)
    <2>1. /\ backups' = [backups EXCEPT ![clock] = BegunBackup(@)]
          /\ proc' = [proc EXCEPT ![p].pc = "backing", ![p].backup = clock]
      BY <1>6 DEF CreateBackup
    <2>2. /\ \A q \in Processes \ {p} : proc'[q] = proc[q]
          /\ proc'[p].pc = "backing" /\ proc'[p].backup = clock /\ proc'[p].step = proc[p].step
      BY <1>0, <2>1 DEF ProcType
    <2>3. Untouched'
      <3>1. ~backups'[clock].whole /\ \A i \in Ids \ {clock} : backups'[i] = backups[i]
        BY <1>0, <2>1 DEF BegunBackup, BackupType
      <3> QED BY <1>0, <1>1, <3>1 DEF Global, Untouched
    <2>4. PlanOK(p)' /\ FirstOK(p)' /\ LastOK(p)'
      BY <1>0, <1>1, <1>2, <1>3, <2>2 DEF PlanOK, FirstOK, LastOK, Rebuilding
    <2> QED BY <1>1, <1>2, <1>3, <1>4, <1>5, <2>2, <2>3, <2>4, HolderKeeps DEF Global, Plan, Rebuilding
  <1>7. CASE BackupDone(p)
    <2>1. /\ backups' = [backups EXCEPT ![proc[p].backup] =
                IF db.schema = "none" THEN [@ EXCEPT !.whole = TRUE]
                ELSE [bak |-> TRUE, rows |-> db.rows, whole |-> TRUE]]
          /\ Goto(p, "journal") /\ proc[p].pc = "backing"
      BY <1>7 DEF BackupDone, At
    <2>2. /\ \A q \in Processes \ {p} : proc'[q] = proc[q]
          /\ proc'[p].pc = "journal" /\ proc'[p].backup = proc[p].backup /\ proc'[p].step = proc[p].step
      BY <1>0, <2>1, GotoFacts
    <2>3. PICK b \in Ids : b = proc[p].backup
      BY <1>0, <1>1, <2>1, PlanFacts, ProcFields DEF PlanOK
    <2>4. /\ backups'[b].whole /\ \A i \in Ids \ {b} : backups'[i] = backups[i]
          /\ db.schema # "none" => backups'[b].rows = db.rows
      BY <1>0, <2>1, <2>3 DEF BackupType
    <2>5. Untouched'
      BY <1>0, <1>1, <2>4 DEF Global, Untouched
    <2>6. PlanOK(p)' /\ FirstOK(p)' /\ LastOK(p)'
      BY <1>0, <1>1, <1>2, <1>3, <2>2, <2>3, <2>4 DEF PlanOK, FirstOK, LastOK, Rebuilding
    <2> QED BY <1>1, <1>2, <1>3, <1>4, <1>5, <2>2, <2>5, <2>6, HolderKeeps DEF Global, Plan, Rebuilding
  <1> QED BY <1>6, <1>7

\* The journal names the backup before the first migration starts.
LEMMA JournalKeeps ==
    ASSUME IInv, TypeOK', NEW p \in Processes, SaveJournal(p)
    PROVE  IInv'
PROOF
  <1>0. /\ proc \in [Processes -> ProcType] /\ Global /\ None \notin Ids
        /\ {"config", "validate", "apply4"} \subseteq Pcs
    BY Parts DEF Pcs
  <1>1. /\ proc[p].pc = "journal" /\ proc[p].pc \in Plan /\ journal' = proc[p].backup
        /\ UNCHANGED <<meta, backups, lock, disk, db, written>>
    BY DEF SaveJournal, At, Plan
  <1>2. /\ meta.version # Latest /\ ~Empty /\ meta.version = proc[p].step /\ meta.version <= Latest
        /\ journal \in {None, proc[p].backup} /\ proc[p].backup # None
        /\ backups[proc[p].backup].whole /\ proc[p].step \in {0, 1, 2, 3}
        /\ proc[p].backup \in Ids
    BY <1>0, <1>1, PlanFacts, ProcFields DEF PlanOK
  <1>3. PICK pc : /\ Goto(p, pc)
                  /\ \/ proc[p].step = 0 /\ pc = "config"
                     \/ proc[p].step \in {1, 2} /\ pc = "validate"
                     \/ proc[p].step = 3 /\ pc = "apply4"
    BY <1>2 DEF SaveJournal, Apply
  <1>4. /\ \A q \in Processes \ {p} : proc'[q] = proc[q]
        /\ proc'[p].pc = pc /\ proc'[p].backup = proc[p].backup /\ proc'[p].step = proc[p].step
    BY <1>0, <1>3, GotoFacts
  <1>5. Empty' = Empty /\ Importable' = Importable /\ Fine' = Fine
    BY <1>1 DEF Empty, HasWorkspace, HasLegacy, Importable, Fine
  <1>6. PlanOK(p)' /\ FirstOK(p)' /\ LastOK(p)'
    BY <1>1, <1>2, <1>3, <1>4, <1>5 DEF PlanOK, FirstOK, LastOK, Rebuilding
  <1>7. JournalOK'
    BY <1>0, <1>1, <1>2, <1>5 DEF Global, JournalOK
  <1>8. RowsOK' /\ Untouched' /\ Imported' /\ LegacyWritten' /\ Current'
    BY <1>0, <1>1, <1>5 DEF Global, RowsOK, Untouched, Imported, LegacyWritten, LegacyImported, Current
  <1>9. DataKept'
    <2>1. CASE journal = None
      <3>1. written \subseteq db.rows
        BY <1>0, <1>2, <2>1 DEF Global, JournalOK
      <3> QED BY <1>1, <3>1 DEF DataKept
    <2>2. CASE journal # None
      <3>1. InBackup' = InBackup
        BY <1>1, <1>2, <2>2 DEF InBackup, Referred
      <3> QED BY <1>0, <1>1, <3>1 DEF Global, DataKept
    <2> QED BY <2>1, <2>2
  <1>10. BackupIsWhole'
    BY <1>0, <1>1, <1>2 DEF Global, BackupIsWhole
  <1>11. Global'
    BY <1>7, <1>8, <1>9, <1>10 DEF Global
  <1>12. proc'[p].pc \in Plan /\ proc'[p].pc \notin Rebuilding
    BY <1>3, <1>4 DEF Plan, Rebuilding
  <1> QED BY <1>1, <1>2, <1>4, <1>5, <1>6, <1>11, <1>12, HolderKeeps DEF Plan

\* The configuration and identity steps of 0 -> 1.
LEMMA FilesKeep ==
    ASSUME IInv, TypeOK', NEW p \in Processes,
           ApplyConfig(p) \/ RemoveOldConfig(p) \/ ImportIdentity(p)
    PROVE  IInv'
PROOF
  <1>0. /\ proc \in [Processes -> ProcType] /\ disk \in DiskType
        /\ {"oldConfig", "idents"} \subseteq Pcs
    BY Parts DEF Pcs
  <1>1. /\ proc[p].pc \in {"config", "oldConfig", "idents"}
        /\ proc[p].pc \in Plan \ {"backup", "backing", "journal"}
        /\ UNCHANGED <<meta, journal, backups, lock, db, written>>
    BY DEF ApplyConfig, RemoveOldConfig, ImportIdentity, At, Plan, control
  <1>2. proc[p].step = 0 /\ (proc[p].pc = "oldConfig" => disk.config = "current") /\ meta.version <= Latest
    BY <1>1, PlanFacts DEF PlanOK, FirstOK
  <1>3. PICK pc \in {"oldConfig", "idents"} :
            /\ \A q \in Processes \ {p} : proc'[q] = proc[q]
            /\ proc'[p].pc = pc /\ proc'[p].backup = proc[p].backup /\ proc'[p].step = proc[p].step
            /\ pc = "oldConfig" => disk'.config = "current"
    <2>1. CASE ImportIdentity(p)
      BY <2>1 DEF ImportIdentity, At
    <2>2. CASE RemoveOldConfig(p)
      BY <1>0, <2>2, GotoFacts DEF RemoveOldConfig
    <2>3. CASE ApplyConfig(p)
      <3>1. PICK pc \in {"oldConfig", "idents"} :
                Goto(p, pc) /\ (pc = "oldConfig" => disk'.config = "current")
        BY <1>0, <2>3 DEF ApplyConfig, DiskType
      <3> QED BY <1>0, <3>1, GotoFacts
    <2> QED BY <2>1, <2>2, <2>3
  <1>4. Grows
    <2>1. CASE ImportIdentity(p)
      BY <1>1, <2>1, DiskGrows DEF ImportIdentity, Importable
    <2>2. CASE RemoveOldConfig(p)
      BY <1>1, <1>2, <2>2, DiskGrows DEF RemoveOldConfig, At
    <2>3. CASE ApplyConfig(p)
      <3>1. disk' = disk \/ disk' = [disk EXCEPT !.config = "current"]
        BY <1>0, <2>3 DEF ApplyConfig, DiskType
      <3> QED BY <1>1, <3>1, DiskGrows
    <2> QED BY <2>1, <2>2, <2>3
  <1>5. PlanOK(p)'
    BY <1>1, <1>2, <1>3, <1>4, PlanGrows DEF Plan, Rebuilding
  <1>6. FirstOK(p)' /\ LastOK(p)'
    BY <1>3 DEF FirstOK, LastOK
  <1>7. Global' /\ (Fine => Fine')
    BY <1>4, GrowsKeeps DEF Grows
  <1> QED BY <1>1, <1>2, <1>3, <1>5, <1>6, <1>7, HolderKeeps DEF Plan, Rebuilding

\* Importing the rows of the legacy database.
LEMMA ImportKeeps ==
    ASSUME IInv, TypeOK', NEW p \in Processes,
           IdentitiesImported(p) \/ ImportRow(p) \/ RowsImported(p)
    PROVE  IInv'
PROOF
  <1>0. proc \in [Processes -> ProcType] /\ db \in DbType /\ {"open", "ensure"} \subseteq Pcs /\ RowsOK
    BY Parts DEF Pcs, Global
  <1>1. /\ proc[p].pc \in {"idents", "import"}
        /\ proc[p].pc \in Plan \ {"backup", "backing", "journal"}
        /\ UNCHANGED <<meta, journal, backups, lock, disk>>
    BY DEF IdentitiesImported, ImportRow, RowsImported, At, Plan, control
  <1>2. /\ proc[p].step = 0 /\ meta.version <= Latest
        /\ proc[p].pc = "import" => Importable = {} /\ db.schema = "current"
    BY <1>1, PlanFacts DEF PlanOK, FirstOK
  <1>3. PICK pc \in {"open", "ensure", "import"} :
            /\ \A q \in Processes \ {p} : proc'[q] = proc[q]
            /\ proc'[p].pc = pc /\ proc'[p].backup = proc[p].backup /\ proc'[p].step = proc[p].step
            /\ pc = "ensure" /\ disk.legacyDb # "none" => LegacyRows \subseteq written'
            /\ pc = "import" => db'.schema = "current"
    <2>1. CASE ImportRow(p)
      BY <1>0, <1>2, <2>1 DEF ImportRow, At, DbType
    <2>2. CASE RowsImported(p)
      BY <1>0, <1>2, <2>2, GotoFacts DEF RowsImported, At, RowsOK
    <2>3. CASE IdentitiesImported(p)
      <3>1. CASE disk.legacyDb # "none"
        BY <1>0, <2>3, <3>1, GotoFacts DEF IdentitiesImported
      <3>2. CASE disk.legacyDb = "none"
        BY <1>0, <2>3, <3>2, GotoFacts DEF IdentitiesImported
      <3> QED BY <3>1, <3>2
    <2> QED BY <2>1, <2>2, <2>3
  <1>4. Importable = {} /\ Importable' = Importable
    BY <1>1, <1>2 DEF IdentitiesImported, ImportRow, RowsImported, At, Importable
  <1>5. Grows
    <2>1. CASE ImportRow(p)
      <3>1. /\ db.schema = "current"
            /\ \E r \in Rows : db' = [db EXCEPT !.rows = @ \cup {r}] /\ written' = written \cup {r}
        BY <1>2, <2>1 DEF ImportRow, At, Rows
      <3> QED BY <1>1, <3>1, DbGrows
    <2>2. CASE RowsImported(p) \/ IdentitiesImported(p)
      BY <1>1, <2>2, DbGrows DEF RowsImported, IdentitiesImported
    <2> QED BY <2>1, <2>2
  <1>6. PlanOK(p)'
    BY <1>1, <1>2, <1>3, <1>5, PlanGrows DEF Plan, Rebuilding
  <1>7. FirstOK(p)' /\ LastOK(p)'
    BY <1>1, <1>3, <1>4 DEF FirstOK, LastOK
  <1>8. Global' /\ (Fine => Fine')
    BY <1>5, GrowsKeeps DEF Grows
  <1> QED BY <1>1, <1>2, <1>3, <1>6, <1>7, <1>8, HolderKeeps DEF Plan, Rebuilding

\* The deletion: its rows are all in the backup the journal names.
LEMMA RemoveKeeps ==
    ASSUME IInv, TypeOK', NEW p \in Processes, RemoveDatabase(p)
    PROVE  IInv'
PROOF
  <1>0. /\ proc \in [Processes -> ProcType] /\ Global /\ "create" \in Pcs /\ None \notin Ids
    BY Parts DEF Pcs
  <1>1. /\ proc[p].pc = "remove" /\ proc[p].pc \in Plan /\ Goto(p, "create")
        /\ db' = NoDatabase
        /\ UNCHANGED <<meta, journal, backups, lock, disk, written>>
    BY DEF RemoveDatabase, At, DbStep, Plan, control
  <1>2. /\ proc[p].step = 3 /\ meta.version = 3 /\ meta.version <= Latest /\ meta.version # Latest
        /\ journal = proc[p].backup /\ journal \in Ids /\ journal # None
        /\ backups[journal].whole /\ backups[journal].bak /\ db.schema \in {"ancient", "recent"}
    BY <1>0, <1>1, PlanFacts, ProcFields DEF PlanOK, LastOK, Rebuilding
  <1>3. /\ \A q \in Processes \ {p} : proc'[q] = proc[q]
        /\ proc'[p].pc = "create" /\ proc'[p].backup = proc[p].backup /\ proc'[p].step = proc[p].step
    BY <1>0, <1>1, GotoFacts
  <1>4. written \subseteq backups[journal].rows
    BY <1>0, <1>2 DEF Global, Untouched
  <1>5. disk.config # "old" /\ Importable = {} /\ LegacyWritten
    BY <1>0, <1>2 DEF Global, Imported
  <1>6. /\ db'.schema = "none" /\ db'.rows = {} /\ db'.defect = "none"
        /\ Importable' = Importable /\ ~Empty' /\ Fine'
    BY <1>1, <1>2 DEF Importable, Empty, Fine, NoDatabase
  <1>7. DataKept'
    BY <1>1, <1>2, <1>4 DEF DataKept, InBackup, Referred
  <1>8. JournalOK' /\ BackupIsWhole'
    BY <1>0, <1>1, <1>2, <1>6 DEF Global, JournalOK, BackupIsWhole
  <1>9. RowsOK' /\ Untouched' /\ Imported' /\ LegacyWritten' /\ Current'
    BY <1>1, <1>2, <1>5, <1>6 DEF RowsOK, Untouched, Imported, LegacyWritten, LegacyImported, Current
  <1>10. Global'
    BY <1>7, <1>8, <1>9 DEF Global
  <1>11. PlanOK(p)' /\ FirstOK(p)' /\ LastOK(p)'
    BY <1>1, <1>2, <1>3, <1>6 DEF PlanOK, FirstOK, LastOK, Rebuilding
  <1> QED BY <1>1, <1>2, <1>3, <1>6, <1>10, <1>11, HolderKeeps DEF Plan, Rebuilding

\* Validation passes only what the migration should have left.
LEMMA ValidateKeeps ==
    ASSUME IInv, TypeOK', NEW p \in Processes, Validate(p)
    PROVE  IInv'
PROOF
  <1>0. proc \in [Processes -> ProcType] /\ db \in DbType /\ "meta" \in Pcs
    BY Parts DEF Pcs
  <1>1. /\ proc[p].pc = "validate" /\ proc[p].pc \in Plan \ {"backup", "backing", "journal"}
        /\ UNCHANGED <<meta, journal, backups, disk, db, written>>
    BY DEF Validate, At, Plan, DbStep, Fail, control
  <1>2. CASE ~Valid(p)
    BY <1>2, GivesUp DEF Validate, Fail
  <1>3. CASE Valid(p)
    <2>1. Goto(p, "meta") /\ lock' = lock
      BY <1>3 DEF Validate, DbStep, control
    <2>2. /\ \A q \in Processes \ {p} : proc'[q] = proc[q]
          /\ proc'[p].pc = "meta" /\ proc'[p].backup = proc[p].backup /\ proc'[p].step = proc[p].step
      BY <1>0, <2>1, GotoFacts
    <2>3. Grows
      BY <1>1, DbGrows
    <2>4. PlanOK(p)'
      BY <1>1, <2>2, <2>3, PlanGrows DEF Plan, Rebuilding
    <2>5. Importable' = Importable
      BY <1>1 DEF Importable
    <2>6. FirstOK(p)'
      BY <1>1, <1>3, <2>2, <2>5, PlanFacts DEF FirstOK, Valid
    <2>7. LastOK(p)'
      BY <1>0, <1>1, <1>3, <2>2 DEF LastOK, Valid, Fine, DbType, Defects
    <2>8. Global' /\ (Fine => Fine') /\ meta.version <= Latest
      BY <1>1, <2>3, GrowsKeeps, PlanFacts DEF Grows
    <2> QED BY <1>1, <2>1, <2>2, <2>4, <2>6, <2>7, <2>8, HolderKeeps DEF Plan, Rebuilding
  <1> QED BY <1>2, <1>3

\* Saving the version: what the migration did is what the next version
\* promises.
LEMMA MetaKeeps ==
    ASSUME IInv, TypeOK', NEW p \in Processes, SaveMeta(p)
    PROVE  IInv'
PROOF
  <1>0. /\ proc \in [Processes -> ProcType] /\ Global /\ {"clear", "journal"} \subseteq Pcs
        /\ None \notin Ids
    BY Parts DEF Pcs
  <1>1. /\ proc[p].pc = "meta" /\ proc[p].pc \in Plan
        /\ meta' = [version |-> proc[p].step + 1, backup |-> proc[p].backup]
        /\ UNCHANGED <<journal, backups, lock, disk, db, written>>
    BY DEF SaveMeta, At, Plan
  <1>2. /\ meta.version = proc[p].step /\ proc[p].step \in {0, 1, 2, 3}
        /\ journal = proc[p].backup /\ journal \in Ids /\ journal # None
        /\ backups[journal].whole
        /\ FirstOK(p) /\ LastOK(p)
    BY <1>0, <1>1, PlanFacts, ProcFields DEF PlanOK
  <1>3. /\ meta'.version = proc[p].step + 1 /\ meta'.backup = journal
        /\ meta'.version <= Latest /\ meta'.version # 0 /\ (meta'.version = Latest <=> proc[p].step = 3)
    BY <1>1, <1>2 DEF Latest
  <1>4. /\ \A q \in Processes \ {p} : proc'[q] = proc[q]
        /\ proc'[p].backup = proc[p].backup
        /\ \/ proc'[p].pc = "clear" /\ meta'.version = Latest
           \/ proc'[p].pc = "journal" /\ proc'[p].step = meta'.version
    <2>1. CASE proc[p].step + 1 = Latest
      BY <1>0, <1>3, <2>1, GotoFacts DEF SaveMeta
    <2>2. CASE proc[p].step + 1 # Latest
      BY <1>0, <1>3, <2>2 DEF SaveMeta, ProcType
    <2> QED BY <2>1, <2>2
  <1>5. Importable' = Importable /\ Fine' = Fine /\ ~Empty'
    BY <1>1, <1>3 DEF Importable, Fine, Empty
  <1>6. PlanOK(p)' /\ FirstOK(p)' /\ LastOK(p)'
    BY <1>1, <1>2, <1>3, <1>4, <1>5 DEF PlanOK, FirstOK, LastOK, Plan, Rebuilding
  <1>7. JournalOK' /\ BackupIsWhole'
    BY <1>0, <1>1, <1>2, <1>3, <1>5 DEF JournalOK, BackupIsWhole
  <1>8. RowsOK' /\ Untouched'
    BY <1>0, <1>1 DEF Global, RowsOK, Untouched
  <1>9. Imported'
    <2>1. CASE proc[p].step = 0
      BY <1>1, <1>2, <1>5, <2>1 DEF FirstOK, Imported
    <2>2. CASE proc[p].step # 0
      BY <1>0, <1>1, <1>2, <1>5, <2>2 DEF Global, Imported
    <2> QED BY <2>1, <2>2
  <1>13. LegacyWritten'
    <2>1. CASE proc[p].step = 0
      BY <1>1, <1>2, <2>1 DEF FirstOK, LegacyWritten, LegacyImported
    <2>2. CASE proc[p].step # 0
      <3>1. LegacyWritten /\ (disk.legacyDb # "none" => LegacyImported)
        BY <1>0, <1>2, <2>2 DEF Global, LegacyImported, Latest
      <3> QED BY <1>1, <3>1 DEF LegacyWritten, LegacyImported
    <2> QED BY <2>1, <2>2
  <1>10. Current'
    BY <1>1, <1>2, <1>3, <1>5 DEF Current, LastOK
  <1>11. DataKept'
    <2>1. InBackup' = InBackup
      BY <1>1, <1>2 DEF InBackup, Referred
    <2> QED BY <1>0, <1>1, <2>1 DEF Global, DataKept
  <1>12. Global'
    BY <1>7, <1>8, <1>9, <1>10, <1>11, <1>13 DEF Global
  <1> QED BY <1>1, <1>3, <1>4, <1>5, <1>6, <1>12, HolderKeeps DEF Plan, Rebuilding

\* Clearing the journal: meta.json already names the same backup.
LEMMA ClearKeeps ==
    ASSUME IInv, TypeOK', NEW p \in Processes, ClearJournal(p)
    PROVE  IInv'
PROOF
  <1>0. Global /\ \A q \in Processes : ProcOK(q)
    BY Parts
  <1>1. /\ proc[p].pc = "clear" /\ meta.version = Latest /\ journal' = None /\ Return(p, "ok")
        /\ UNCHANGED <<meta, backups, disk, db, written>>
    BY <1>0 DEF ClearJournal, At, ProcOK
  <1>2. /\ \A q \in Processes \ {p} : proc'[q] = proc[q] /\ (lock = q => lock' = q)
        /\ proc'[p].pc = "ok" /\ PlanOK(p)' /\ FirstOK(p)' /\ LastOK(p)'
    BY <1>1, ReturnFacts
  <1>3. Fine' = Fine /\ Importable' = Importable
    BY <1>1 DEF Fine, Importable
  <1>4. ASSUME NEW q \in Processes, q # p PROVE ProcOK(q)'
    <2>1. proc[q].pc \notin Plan
      BY <1>1, PlanFacts
    <2>2. PlanOK(q)' /\ FirstOK(q)' /\ LastOK(q)'
      BY <1>2, <1>4, <2>1 DEF PlanOK, FirstOK, LastOK, Plan
    <2> QED BY <1>0, <1>1, <1>2, <1>3, <1>4, <2>1, <2>2 DEF ProcOK
  <1>5. ProcOK(p)'
    BY <1>1, <1>2 DEF ProcOK, Plan
  <1>6. RebuildIsAlone'
    BY <1>1, <1>2, AloneKeeps DEF Rebuilding
  <1>7. InBackup' = InBackup
    BY <1>0, <1>1 DEF InBackup, Referred, Global, JournalOK
  <1>8. /\ JournalOK' /\ RowsOK' /\ Untouched' /\ Imported' /\ LegacyWritten' /\ Current'
        /\ DataKept' /\ BackupIsWhole'
    BY <1>0, <1>1, <1>3, <1>7
    DEF Global, JournalOK, RowsOK, Untouched, Imported, LegacyWritten, LegacyImported, Current,
        DataKept, BackupIsWhole
  <1> QED BY <1>2, <1>4, <1>5, <1>6, <1>8 DEF IInv, Global

\* A command that was let through works on a database nobody is rebuilding.
LEMMA UseKeeps ==
    ASSUME IInv, TypeOK', NEW p \in Processes, Use(p)
    PROVE  IInv'
PROOF
  <1>0. /\ Global /\ \A q \in Processes : ProcOK(q)
        /\ RebuildIsAlone /\ "ok" \in Pcs /\ "new" \in Rows
    BY Parts DEF Pcs, Rows
  <1>1. proc[p].pc = "ok" /\ UNCHANGED <<meta, journal, backups, lock>>
    BY DEF Use, UseConfig, UseOpen, UseEnsure, UseWrite, At, DbStep, control
  <1>2. proc'[p].pc = "ok" /\ \A q \in Processes \ {p} : proc'[q] = proc[q]
    <2>1. CASE UNCHANGED proc
      BY <1>1, <2>1
    <2>2. CASE Goto(p, "ok")
      BY <1>0, <2>2, GotoFacts
    <2> QED BY <2>1, <2>2 DEF Use, UseConfig, UseOpen, UseEnsure, UseWrite, DbStep
  <1>3. Grows
    <2>1. CASE UseConfig(p)
      BY <1>1, <2>1, DiskGrows DEF UseConfig
    <2>2. CASE UseOpen(p) \/ UseEnsure(p)
      BY <1>1, <2>2, DbGrows DEF UseOpen, UseEnsure, DbStep
    <2>3. CASE UseWrite(p)
      BY <1>0, <1>1, <2>3, DbGrows DEF UseWrite
    <2> QED BY <2>1, <2>2, <2>3 DEF Use
  <1>4. ASSUME NEW q \in Processes, q # p PROVE ProcOK(q)'
    <2>1. ProcOK(q) /\ proc'[q] = proc[q] /\ proc[q].pc # "remove"
      BY <1>0, <1>1, <1>2, <1>4 DEF RebuildIsAlone, At
    <2>2. PlanOK(q)'
      BY <1>1, <1>3, <2>1 DEF ProcOK, PlanOK, Grows
    <2>3. FirstOK(q)'
      BY <1>3, <2>1 DEF ProcOK, FirstOK, Grows
    <2>4. LastOK(q)'
      BY <1>3, <2>1 DEF ProcOK, LastOK, Grows
    <2> QED BY <1>1, <1>3, <2>1, <2>2, <2>3, <2>4 DEF ProcOK, Grows
  <1>5. ProcOK(p)'
    BY <1>0, <1>1, <1>2, <1>3 DEF ProcOK, PlanOK, FirstOK, LastOK, Plan, Grows
  <1>6. RebuildIsAlone'
    BY <1>1, <1>2, AloneKeeps DEF Rebuilding
  <1>7. Global'
    BY <1>3, GrowsKeeps
  <1> QED BY <1>4, <1>5, <1>6, <1>7 DEF IInv

\* The clock, the end of an old lock and stuttering.
LEMMA StillnessKeeps ==
    ASSUME IInv, TypeOK', OldLockEnds \/ Tick \/ UNCHANGED vars
    PROVE  IInv'
PROOF
  <1>1. UNCHANGED <<meta, journal, backups, lock, disk, db, written, proc>>
    BY DEF OldLockEnds, Tick, vars
  <1>2. Grows
    BY <1>1, DbGrows
  <1>3. Global'
    BY <1>2, GrowsKeeps
  <1>4. \A q \in Processes : ProcOK(q)'
    BY <1>1, Parts, StillKeeps
  <1>5. RebuildIsAlone'
    BY <1>1, Parts DEF RebuildIsAlone, At
  <1> QED BY <1>3, <1>4, <1>5 DEF IInv

\* The workspaces older releases leave behind satisfy the invariant.
LEMMA Initially ==
    ASSUME Init
    PROVE  IInv
PROOF
  <1>0. /\ None \notin Processes \cup Ids /\ 0 \in Ids
        /\ MaxFaults \in Nat /\ meta.backup = None /\ journal = None /\ lock = None
        /\ meta \in MetaType /\ clock \in Ids
    BY WorkspaceUpgradeAssumption DEF Init, Ids, MetaType, Latest
  <1>1. PICK d \in Databases0 :
            /\ LegacyImported => d.schema \notin {"none", "blank"}
            /\ db = [schema |-> d.schema, defect |-> d.defect,
                     rows |-> IF d.schema \in {"none", "blank"} THEN {}
                              ELSE {"old"} \cup (IF LegacyImported THEN LegacyRows ELSE {})]
    BY DEF Init, InitDatabase
  <1>a. /\ d.schema \in Schemas /\ d.defect \in Defects
        /\ d.schema = "none" => d.defect = "none"
    BY WorkspaceUpgradeAssumption
  <1>2. /\ db \in DbType /\ written = db.rows /\ written \subseteq Rows
        /\ db.schema = "none" => db.rows = {} /\ db.defect = "none"
        /\ LegacyImported => LegacyRows \subseteq written
    BY <1>1, <1>a DEF Init, DbType, Rows
  <1>3. /\ backups = [i \in Ids |-> NoBackup] /\ NoBackup \in BackupType /\ ~NoBackup.bak
        /\ proc = [p \in Processes |-> Outside("idle")]
    BY DEF Init, NoBackup, BackupType
  <1>4. Outside("idle") \in ProcType /\ Outside("idle").pc = "idle"
    BY DEF Outside, ProcType, Pcs, Unseen, SeenType, Latest
  <1>5. /\ disk \in DiskType
        /\ meta.version >= 1 => disk.config # "old" /\ Importable = {}
    <2>1. CASE meta.version = 0
      BY <2>1 DEF Init, InitFiles, DiskType, Names
    <2>2. CASE /\ meta.version \in 1..(Latest + 1)
               /\ \E left \in BOOLEAN :
                     disk = [config |-> "current", oldConfig |-> FALSE, settings |-> left,
                             legacyDb |-> IF left THEN "owned" ELSE "none",
                             legacyIdents |-> IF left THEN Names ELSE {},
                             idents |-> [n \in Names |-> "imported"]]
      BY <2>2 DEF DiskType, Importable
    <2> QED BY <2>1, <2>2 DEF Init, InitFiles
  <1>6. TypeOK
    BY <1>0, <1>2, <1>3, <1>4, <1>5 DEF Init, TypeOK
  <1>7. \A p \in Processes : proc[p].pc = "idle"
    BY <1>3, <1>4
  <1>8. \A p \in Processes : ProcOK(p)
    BY <1>7 DEF ProcOK, PlanOK, FirstOK, LastOK, Plan
  <1>9. RebuildIsAlone
    BY <1>7 DEF RebuildIsAlone, At
  <1>10. JournalOK /\ RowsOK /\ Untouched /\ Imported /\ LegacyWritten /\ Current
    BY <1>0, <1>2, <1>3, <1>5
    DEF JournalOK, RowsOK, Untouched, Imported, LegacyWritten, LegacyImported, Current
  <1>11. DataKept /\ BackupIsWhole
    BY <1>0, <1>2 DEF DataKept, BackupIsWhole
  <1> QED BY <1>6, <1>8, <1>9, <1>10, <1>11 DEF IInv, Global

-----------------------------------------------------------------------------
(* The theorems.                                                           *)

\* Whatever processes die where, each place of the plan finds what it relies on
\* (upgrade_if_needed and the migrations).
THEOREM Invariant == Spec => []IInv
PROOF
  <1>1. Init => IInv
    BY Initially
  <1>2. IInv /\ [Next]_vars => IInv'
    <2> SUFFICES ASSUME IInv, [Next]_vars PROVE IInv'
      OBVIOUS
    <2>1. TypeOK'
      BY TypeStep DEF IInv
    <2>2. ASSUME NEW p \in Processes, Start(p) \/ Upgrade(p) \/ Die(p) \/ Use(p) PROVE IInv'
      <3>1. CASE Start(p) \/ AcquireFileLock(p) \/ FileLocked(p) \/ Die(p)
        BY <2>1, <3>1, EntryKeeps
      <3>2. CASE Inspect(p)
        BY <2>1, <3>2, InspectKeeps
      <3>3. CASE CreateBackup(p) \/ BackupDone(p)
        BY <2>1, <3>3, BackupKeeps
      <3>4. CASE SaveJournal(p)
        BY <2>1, <3>4, JournalKeeps
      <3>5. CASE ApplyConfig(p) \/ RemoveOldConfig(p) \/ ImportIdentity(p)
        BY <2>1, <3>5, FilesKeep
      <3>6. CASE IdentitiesImported(p) \/ ImportRow(p) \/ RowsImported(p)
        BY <2>1, <3>6, ImportKeeps
      <3>14. CASE ImportFails(p)
        BY <2>1, <3>14, GivesUp DEF ImportFails, Fail
      <3>7. CASE OpenForImport(p) \/ EnsureForImport(p) \/ EnsureTarget(p)
        BY <2>1, <3>7, FirstStepKeeps
      <3>8. CASE ApplyV4(p) \/ CreateDatabase(p) \/ EnsureRebuilt(p)
        BY <2>1, <3>8, LastStepKeeps
      <3>9. CASE RemoveDatabase(p)
        BY <2>1, <3>9, RemoveKeeps
      <3>10. CASE Validate(p)
        BY <2>1, <3>10, ValidateKeeps
      <3>11. CASE SaveMeta(p)
        BY <2>1, <3>11, MetaKeeps
      <3>12. CASE ClearJournal(p)
        BY <2>1, <3>12, ClearKeeps
      <3>13. CASE Use(p)
        BY <2>1, <3>13, UseKeeps
      <3> QED BY <2>2, <3>1, <3>2, <3>3, <3>4, <3>5, <3>6, <3>7, <3>8, <3>9, <3>10, <3>11, <3>12, <3>13,
                 <3>14
              DEF Upgrade
    <2>3. CASE OldLockEnds \/ Tick \/ UNCHANGED vars
      BY <2>1, <2>3, StillnessKeeps
    <2> QED BY <2>2, <2>3 DEF Next
  <1> QED BY <1>1, <1>2, PTL DEF Spec

\* No row is lost: a row ever committed is in the database or in the whole
\* backup that the journal or meta.json names, and that backup is whole,
\* although 3 -> 4 deletes the database
\* (rebuild_clean_identity_owned_database).
THEOREM DataIsSafe == Spec => []DataSafe
PROOF
  <1>1. IInv => DataSafe
    BY DEF IInv, Global, DataSafe
  <1> QED BY <1>1, Invariant, PTL

\* The version in meta.json is honest: 1 and above means that configuration and
\* identities were imported and the legacy rows are in the database or, after
\* the rebuild of 3 -> 4, in the backup; the newest one, once this upgrader
\* saved it, that the database is current or only just created, and sound.
THEOREM HonestVersion == Spec => []VersionHonest
PROOF
  <1>1. IInv => VersionHonest
    BY DEF IInv, Global, Imported, LegacyWritten, Current, Fine, DataKept, VersionHonest
  <1> QED BY <1>1, Invariant, PTL

\* While a process deletes and recreates the database no other one was let
\* through to use it, although those that are let through hold no lock.
THEOREM AloneAtRebuild == Spec => []RebuildIsAlone
PROOF
  <1>1. IInv => RebuildIsAlone
    BY DEF IInv
  <1> QED BY <1>1, Invariant, PTL

\* The journal is removed only at the newest version, so that a retry always
\* finds the first backup (clear_journal).
THEOREM JournalStays == Spec => JournalKept
PROOF
  <1>1. IInv /\ [Next]_vars => [journal # None /\ journal' = None => meta.version = Latest]_vars
    <2> SUFFICES ASSUME IInv, [Next]_vars, journal # None, journal' = None
                 PROVE  meta.version = Latest
      OBVIOUS
    <2>1. ASSUME NEW p \in Processes, Start(p) \/ Upgrade(p) \/ Die(p) \/ Use(p)
          PROVE  meta.version = Latest
      <3>0. ProcOK(p)
        BY Parts
      <3>1. CASE ClearJournal(p)
        BY <3>0, <3>1 DEF ClearJournal, At, ProcOK
      <3>2. CASE SaveJournal(p)
        <4>1. proc[p].pc = "journal" /\ journal' = proc[p].backup
          BY <3>2 DEF SaveJournal, At
        <4> QED BY <3>0, <4>1 DEF ProcOK, PlanOK, Plan
      <3>3. CASE ~ClearJournal(p) /\ ~SaveJournal(p)
        <4>1. journal' = journal
          BY <2>1, <3>3
          DEF Start, Upgrade, Die, Use, AcquireFileLock, FileLocked, Inspect, CreateBackup, BackupDone,
              ApplyConfig, RemoveOldConfig, ImportIdentity, IdentitiesImported, OpenForImport,
              EnsureForImport, ImportRow, ImportFails, Fail, RowsImported, EnsureTarget, ApplyV4, RemoveDatabase,
              CreateDatabase, EnsureRebuilt, Validate, SaveMeta, UseConfig, UseOpen, UseEnsure, UseWrite,
              EnsureSchema, DbStep, control
        <4> QED BY <4>1
      <3> QED BY <3>1, <3>2, <3>3
    <2>2. CASE OldLockEnds \/ Tick \/ UNCHANGED vars
      BY <2>2 DEF OldLockEnds, Tick, vars
    <2> QED BY <2>1, <2>2 DEF Next
  <1> QED BY <1>1, Invariant, PTL DEF Spec, JournalKept

=============================================================================
