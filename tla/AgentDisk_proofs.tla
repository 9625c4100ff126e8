-------------------------- MODULE AgentDisk_proofs ---------------------------
(*****************************************************************************)
(* What the agent promises of the files it writes.  Of write and patch, for  *)
(* every set of paths and every length of the patch; of the key pair, the    *)
(* gateway file and the bearers of this machine, for every number of         *)
(* provisionings and rotations and wherever a command is killed.             *)
(*****************************************************************************)
EXTENDS AgentFiles, AgentState, SequenceTheorems, TLAPS
-----------------------------------------------------------------------------
(* Write and patch (agent/internal/files) *)

(* A file that was written whole: some edits and the text of the write.      *)
Whole == (SUBSET (Entries \cup {0})) \cup {Absent}
Steps == Ends \cup {"idle", "plan", "backup", "replace", "rollback"}
Undoing == step = "rollback"
Replacing == step \in {"backup", "replace"}

FilesTypeOK ==
    /\ file \in [Paths -> Whole]
    /\ keeps \in [Paths -> SUBSET Whole]
    /\ step \in Steps /\ entry \in Entries
    /\ restore \subseteq Entries /\ unrestored \subseteq Paths /\ disturbed \subseteq Paths
    /\ patchTmp \in Tmp /\ writeTmp \in Tmp
    /\ patch = <<>> \/ patch \in [Entries -> Paths]
    /\ step \in {"idle"} => patch = <<>>
    /\ plans \in Seq(SUBSET {0})

(* The patch is planned before it is applied: one original for each path,    *)
(* without an edit of the patch in it.                                      *)
PlanInv ==
    /\ step \notin {"idle", "refused", "lost"} =>
         patch \in [Entries -> Paths] /\ IsInjective(patch)
    /\ step = "idle" => plans = <<>> /\ entry = 1
    /\ step = "plan" => Len(plans) = entry - 1
    /\ step \in {"backup", "replace", "rollback"} => Len(plans) = PatchLength
    /\ step \in {"idle", "plan", "backup"} => patchTmp = "none"
    /\ step \in {"idle", "plan"} => \A p \in Paths : file[p] \cap Entries = {}
    /\ step \in {"idle", "plan", "backup", "replace"} => unrestored = {}

(* Which edits are in the files, and which are not.                          *)
AppliedInv ==
    /\ \A e \in Entries :
         (Replacing /\ (e < entry \/ (e = entry /\ patchTmp = "renamed"))) \/ step = "ok" =>
            patch[e] \in disturbed \/ e \in file[patch[e]]
    /\ \A e \in Entries :
         Replacing /\ (e > entry \/ (e = entry /\ patchTmp # "renamed")) =>
            e \notin file[patch[e]]

RestoredInv ==
    /\ \A e \in Entries :
         Undoing /\ (e \notin restore \/ (patchTmp = "renamed" /\ \A j \in restore : e <= j)) =>
            e \notin file[patch[e]] \/ patch[e] \in unrestored
    /\ \A e \in DOMAIN patch :
         step \in {"undone", "incomplete"} =>
            patch[e] \in disturbed \/ e \notin file[patch[e]] \/ patch[e] \in unrestored

FilesInv == FilesTypeOK /\ PlanInv /\ AppliedInv /\ RestoredInv

-----------------------------------------------------------------------------
LEMMA EntryBounds == Entries \subseteq Nat \ {0} /\ PatchLength \in Entries /\ 1 \in Entries
  BY FilesBound DEF Entries

LEMMA ReplacedEntries ==
    \A i \in Entries : Replaced(i) \subseteq Entries /\ \A e \in Entries : e \in Replaced(i) <=> e < i
  BY EntryBounds DEF Entries, Replaced

(* No version is torn, and the text of the write holds no edit.              *)
LEMMA Versions0 ==
    /\ Torn \notin Whole /\ Written \in Whole /\ {} \in Whole /\ Absent \in Whole
    /\ \A v \in SUBSET {0} : v \in Whole /\ \A e \in Entries : e \notin v /\ v \cup {e} \in Whole
    /\ \A v \in Whole : v # Absent /\ v \cap Entries = {} => v \in SUBSET {0}
  <1>1. 0 \notin Entries /\ -1 \notin Entries /\ -2 \notin Entries
    BY EntryBounds
  <1>2. Torn \notin Whole
    BY <1>1 DEF Torn, Whole, Absent
  <1>. QED BY <1>1, <1>2 DEF Written, Whole

LEMMA FilesStart == FilesInit => FilesInv
  <1>. SUFFICES ASSUME FilesInit PROVE FilesInv
    OBVIOUS
  <1>1. FilesTypeOK
    <2>1. file \in [Paths -> Whole] /\ keeps \in [Paths -> SUBSET Whole]
      BY Versions0 DEF FilesInit
    <2>. QED BY <2>1, EntryBounds DEF FilesInit, FilesTypeOK, Steps, Ends, Tmp
  <1>2. PlanInv
    <2>1. \A p \in Paths : file[p] \cap Entries = {}
      BY EntryBounds DEF FilesInit, Absent
    <2>. QED BY <2>1 DEF FilesInit, PlanInv
  <1>3. AppliedInv /\ RestoredInv
    BY DEF FilesInit, AppliedInv, RestoredInv, Replacing, Undoing
  <1>. QED BY <1>1, <1>2, <1>3 DEF FilesInv

(* What a rename of a synced file leaves: one path changed.                   *)
LEMMA RenameKeeps ==
    ASSUME FilesTypeOK, NEW p \in Paths, NEW v \in Whole, NEW tmp, Rename(p, v, tmp)
    PROVE  /\ file' \in [Paths -> Whole] /\ keeps' \in [Paths -> SUBSET Whole]
           /\ file'[p] = v /\ \A q \in Paths \ {p} : file'[q] = file[q]
           /\ tmp = "synced"
  BY DEF FilesTypeOK, Rename, MayRename

LEMMA SyncKeeps ==
    ASSUME FilesTypeOK, NEW p \in Paths, DirSynced(p) \/ UNCHANGED keeps
    PROVE  keeps' \in [Paths -> SUBSET Whole]
  BY DEF FilesTypeOK, DirSynced

LEMMA TmpSteps ==
    ASSUME NEW tmp, NEW next, Prepares(tmp, next)
    PROVE  next \in Tmp /\ next # "renamed" /\ tmp # "renamed"
  BY DEF Prepares, Tmp

(* Every original of a planned entry is an old version, without an edit.      *)
LEMMA Originals ==
    ASSUME FilesInv, step \in {"backup", "replace", "rollback"}, NEW e \in Entries
    PROVE  plans[e] \in SUBSET {0} /\ e \notin plans[e]
           /\ plans[e] \in Whole /\ plans[e] \cup {e} \in Whole
  <1>1. plans \in Seq(SUBSET {0}) /\ Len(plans) = PatchLength
    BY DEF FilesInv, FilesTypeOK, PlanInv
  <1>2. plans[e] \in SUBSET {0}
    BY <1>1, ElementOfSeq DEF Entries
  <1>. QED BY <1>2, Versions0

-----------------------------------------------------------------------------
LEMMA FilesTypeStep == FilesInv /\ [FilesNext]_filesVars => FilesTypeOK'
  <1>. SUFFICES ASSUME FilesInv, [FilesNext]_filesVars PROVE FilesTypeOK'
    OBVIOUS
  <1>. USE DEF Steps, Ends
  <1>t. FilesTypeOK
    BY DEF FilesInv
  <1>1. CASE WriteBegins
    BY <1>1, <1>t DEF WriteBegins, FilesTypeOK, patching
  <1>2. CASE WritePrepares
    BY <1>2, <1>t, TmpSteps DEF WritePrepares, FilesTypeOK, patching
  <1>3. CASE WriteRenames
    <2>1. file' \in [Paths -> Whole] /\ keeps' \in [Paths -> SUBSET Whole]
      BY <1>3, <1>t, RenameKeeps, Versions0 DEF WriteRenames
    <2>. QED BY <1>3, <1>t, <2>1 DEF WriteRenames, FilesTypeOK, patching, Tmp
  <1>4. CASE WriteEnd
    <2>1. keeps' \in [Paths -> SUBSET Whole]
      BY <1>4, <1>t, SyncKeeps DEF WriteEnd
    <2>. QED BY <1>4, <1>t, <2>1 DEF WriteEnd, FilesTypeOK, patching, Tmp
  <1>5. CASE PatchBegins
    BY <1>5, <1>t DEF PatchBegins, FilesTypeOK, writing
  <1>6. CASE PatchPlans
    <2>1. patch \in [Entries -> Paths] /\ entry \in Entries
      BY <1>6 DEF PatchPlans, FilesInv, FilesTypeOK, PlanInv
    <2>2. plans' \in Seq(SUBSET {0})
      <3>1. file[patch[entry]] \in Whole /\ file[patch[entry]] \cap Entries = {}
        BY <1>6, <1>t, <2>1 DEF PatchPlans, FilesInv, FilesTypeOK, PlanInv
      <3>2. file[patch[entry]] # Absent => file[patch[entry]] \in SUBSET {0}
        BY <3>1, Versions0
      <3>3. plans \in Seq(SUBSET {0})
        BY <1>t DEF FilesTypeOK
      <3>. QED BY <1>6, <3>2, <3>3 DEF PatchPlans
    <2>3. entry' \in Entries
      BY <1>6, <2>1, EntryBounds DEF PatchPlans, Entries
    <2>. QED BY <1>6, <1>t, <2>1, <2>2, <2>3 DEF PatchPlans, FilesTypeOK, writing
  <1>7. CASE BackupWrites
    BY <1>7, <1>t, ReplacedEntries DEF BackupWrites, RollsBack, FilesTypeOK, writing, Tmp
  <1>8. CASE ReplaceStep
    <2>. DEFINE p == patch[entry]
    <2>1. p \in Paths /\ entry \in Entries
      BY <1>8 DEF ReplaceStep, FilesInv, FilesTypeOK, PlanInv
    <2>2. CASE Prepares(patchTmp, patchTmp') /\ UNCHANGED <<file, keeps, step, entry, restore>>
      BY <1>8, <1>t, <2>2, TmpSteps DEF ReplaceStep, FilesTypeOK, writing
    <2>3. CASE /\ Rename(p, plans[entry] \cup {entry}, patchTmp)
               /\ patchTmp' = "renamed" /\ UNCHANGED <<step, entry, restore>>
      <3>1. plans[entry] \cup {entry} \in Whole
        BY <1>8, <2>1, Originals DEF ReplaceStep
      <3>2. file' \in [Paths -> Whole] /\ keeps' \in [Paths -> SUBSET Whole]
        BY <1>t, <2>1, <2>3, <3>1, RenameKeeps
      <3>. QED BY <1>8, <1>t, <2>3, <3>2 DEF ReplaceStep, FilesTypeOK, writing, Tmp
    <2>4. CASE /\ patchTmp = "renamed" /\ patchTmp' = "none"
               /\ DirSynced(p) \/ UNCHANGED keeps
               /\ entry' = IF entry = PatchLength THEN entry ELSE entry + 1
               /\ step' = IF entry = PatchLength THEN "ok" ELSE "backup"
               /\ UNCHANGED <<file, restore>>
      <3>1. keeps' \in [Paths -> SUBSET Whole]
        BY <1>t, <2>1, <2>4, SyncKeeps
      <3>2. entry' \in Entries
        BY <2>1, <2>4, EntryBounds DEF Entries
      <3>. QED BY <1>8, <1>t, <2>4, <3>1, <3>2 DEF ReplaceStep, FilesTypeOK, writing, Tmp
    <2>5. CASE patchTmp # "renamed" /\ RollsBack /\ UNCHANGED <<file, keeps, entry>>
      BY <1>8, <1>t, <2>5, ReplacedEntries DEF ReplaceStep, RollsBack, FilesTypeOK, writing, Tmp
    <2>. QED BY <1>8, <2>2, <2>3, <2>4, <2>5 DEF ReplaceStep
  <1>9. CASE RollbackStep
    <2>0. PICK e \in restore : Restores(e, patch[e])
      BY <1>9 DEF RollbackStep
    <2>1. e \in Entries /\ patch[e] \in Paths
      BY <1>9, <2>0 DEF RollbackStep, FilesInv, FilesTypeOK, PlanInv
    <2>2. file' \in [Paths -> Whole] /\ keeps' \in [Paths -> SUBSET Whole]
      <3>1. plans[e] \in Whole
        BY <1>9, <2>1, Originals DEF RollbackStep
      <3>2. CASE Rename(patch[e], plans[e], patchTmp)
        BY <1>t, <2>1, <3>1, <3>2, RenameKeeps
      <3>3. CASE file' = file /\ (DirSynced(patch[e]) \/ UNCHANGED keeps)
        BY <1>t, <2>1, <3>3, SyncKeeps DEF FilesTypeOK
      <3>. QED BY <2>0, <3>2, <3>3 DEF Restores
    <2>3. patchTmp' \in Tmp
      BY <2>0, TmpSteps DEF Restores, Tmp
    <2>4. restore' \subseteq Entries /\ unrestored' \subseteq Paths
      BY <1>t, <2>0, <2>1 DEF Restores, FilesTypeOK
    <2>. QED BY <1>9, <1>t, <2>2, <2>3, <2>4 DEF RollbackStep, FilesTypeOK, writing
  <1>10. CASE RollbackEnds
    BY <1>10, <1>t DEF RollbackEnds, FilesTypeOK, writing
  <1>11. CASE Cleanup
    BY <1>11, <1>t DEF Cleanup, FilesTypeOK, writing
  <1>12. CASE Kill
    BY <1>12, <1>t DEF Kill, CallsGone, FilesTypeOK, Tmp
  <1>13. CASE PowerLoss
    <2>1. file' \in [Paths -> Whole] /\ keeps' \in [Paths -> SUBSET Whole]
      BY <1>13, <1>t DEF PowerLoss, FilesTypeOK
    <2>. QED BY <1>13, <1>t, <2>1 DEF PowerLoss, CallsGone, FilesTypeOK, Tmp
  <1>14. CASE UNCHANGED filesVars
    BY <1>14, <1>t DEF filesVars, patching, writing, FilesTypeOK
  <1>. QED
    BY <1>1, <1>2, <1>3, <1>4, <1>5, <1>6, <1>7, <1>8, <1>9, <1>10, <1>11, <1>12, <1>13, <1>14
    DEF FilesNext

-----------------------------------------------------------------------------
LEMMA PlanStep == FilesInv /\ [FilesNext]_filesVars => PlanInv'
  <1>. SUFFICES ASSUME FilesInv, [FilesNext]_filesVars PROVE PlanInv'
    OBVIOUS
  <1>t. FilesTypeOK /\ PlanInv
    BY DEF FilesInv
  <1>1. CASE WriteBegins \/ WritePrepares \/ WriteEnd
    BY <1>1, <1>t DEF WriteBegins, WritePrepares, WriteEnd, PlanInv, patching
  <1>2. CASE WriteRenames
    <2>1. step' \in {"idle", "plan"} => \A p \in Paths : file'[p] \cap Entries = {}
      <3>1. target \in Paths /\ Rename(target, Written, writeTmp) /\ UNCHANGED patching
        BY <1>2 DEF WriteRenames
      <3>2. file'[target] = Written /\ \A q \in Paths \ {target} : file'[q] = file[q]
        BY <1>t, <3>1, RenameKeeps, Versions0
      <3>3. Written \cap Entries = {}
        BY EntryBounds DEF Written
      <3>. QED BY <1>t, <3>1, <3>2, <3>3 DEF PlanInv, patching
    <2>. QED BY <1>2, <1>t, <2>1 DEF WriteRenames, PlanInv, patching
  <1>3. CASE PatchBegins
    BY <1>3, <1>t DEF PatchBegins, HasDuplicate, PlanInv
  <1>4. CASE PatchPlans
    <2>1. CASE step' = "refused" /\ UNCHANGED <<plans, disturbed, entry>>
      BY <1>4, <2>1, <1>t DEF PatchPlans, PlanInv
    <2>2. CASE plans' = Append(plans, file[patch[entry]]) /\ step' \in {"backup", "plan"}
               /\ entry' = (IF entry = PatchLength THEN 1 ELSE entry + 1)
               /\ step' = (IF entry = PatchLength THEN "backup" ELSE "plan")
      <3>1. plans \in Seq(SUBSET {0}) /\ Len(plans) = entry - 1 /\ entry \in Nat
        BY <1>4, <1>t, EntryBounds DEF PatchPlans, PlanInv, FilesTypeOK
      <3>2. Len(plans') = entry
        BY <2>2, <3>1
      <3>. QED BY <1>4, <2>2, <3>1, <3>2, <1>t DEF PatchPlans, PlanInv
    <2>. QED BY <1>4, <2>1, <2>2 DEF PatchPlans
  <1>5. CASE BackupWrites
    BY <1>5, <1>t DEF BackupWrites, RollsBack, PlanInv
  <1>6. CASE ReplaceStep
    <2>1. step' \in {"replace", "backup", "ok", "rollback"} /\ UNCHANGED <<patch, plans, unrestored>>
      BY <1>6 DEF ReplaceStep, RollsBack
    <2>2. step' = "backup" => patchTmp' = "none"
      BY <1>6 DEF ReplaceStep, RollsBack
    <2>3. step = "replace"
      BY <1>6 DEF ReplaceStep
    <2>. QED BY <2>1, <2>2, <2>3, <1>t DEF PlanInv
  <1>7. CASE RollbackStep \/ RollbackEnds \/ Cleanup
    BY <1>7, <1>t DEF RollbackStep, RollbackEnds, Cleanup, PlanInv
  <1>8. CASE Kill \/ PowerLoss
    <2>1. step' = (IF step \in Ends THEN step ELSE "lost") /\ UNCHANGED <<patch, plans>>
      BY <1>8 DEF Kill, PowerLoss, CallsGone
    <2>. QED BY <2>1, <1>t DEF PlanInv, Ends
  <1>9. CASE UNCHANGED filesVars
    BY <1>9, <1>t DEF filesVars, patching, PlanInv
  <1>. QED BY <1>1, <1>2, <1>3, <1>4, <1>5, <1>6, <1>7, <1>8, <1>9 DEF FilesNext

(* Steps that leave the patch and its entries alone keep what is in the      *)
(* files, if they change a file only to say so.                              *)
LEMMA BesidePatch ==
    ASSUME FilesInv, UNCHANGED patching,
           \A p \in Paths : file'[p] = file[p] \/ (p \in disturbed' /\ file'[p] = Written),
           disturbed \subseteq disturbed'
    PROVE  AppliedInv' /\ RestoredInv'
  <1>1. FilesTypeOK /\ PlanInv /\ AppliedInv /\ RestoredInv
    BY DEF FilesInv
  <1>2. \A e \in Entries : e \notin Written
    BY EntryBounds DEF Written
  <1>3. \A e \in Entries : step \notin {"idle", "refused", "lost"} =>
          /\ patch[e] \in Paths /\ DOMAIN patch = Entries
          /\ file'[patch[e]] = file[patch[e]]
             \/ (patch[e] \in disturbed' /\ e \notin file'[patch[e]])
    BY <1>1, <1>2 DEF PlanInv
  <1>4. AppliedInv'
    BY <1>1, <1>3 DEF AppliedInv, Replacing, patching
  <1>5. RestoredInv'
    <2>1. UNCHANGED <<patch, step, restore, unrestored, patchTmp>>
      BY DEF patching
    <2>2. ASSUME NEW e \in Entries, Undoing,
                 e \notin restore \/ (patchTmp = "renamed" /\ \A j \in restore : e <= j)
          PROVE  e \notin file'[patch[e]] \/ patch[e] \in unrestored
      <3>1. e \notin file[patch[e]] \/ patch[e] \in unrestored
        BY <1>1, <2>2 DEF RestoredInv
      <3>. QED BY <1>3, <2>2, <3>1 DEF Undoing
    <2>3. step \in {"undone", "incomplete"} => DOMAIN patch = Entries
      BY <1>1 DEF PlanInv
    <2>4. ASSUME NEW e \in DOMAIN patch, step \in {"undone", "incomplete"}
          PROVE  patch[e] \in disturbed' \/ e \notin file'[patch[e]] \/ patch[e] \in unrestored
      <3>1. patch[e] \in disturbed \/ e \notin file[patch[e]] \/ patch[e] \in unrestored
        BY <1>1, <2>4 DEF RestoredInv
      <3>. QED BY <1>3, <2>3, <2>4, <3>1
    <2>. QED BY <2>1, <2>2, <2>4 DEF RestoredInv, Undoing
  <1>. QED BY <1>4, <1>5

LEMMA AppliedStep == FilesInv /\ [FilesNext]_filesVars => AppliedInv' /\ RestoredInv'
  <1>. SUFFICES ASSUME FilesInv, [FilesNext]_filesVars PROVE AppliedInv' /\ RestoredInv'
    OBVIOUS
  <1>t. FilesTypeOK /\ PlanInv /\ AppliedInv /\ RestoredInv
    BY DEF FilesInv
  <1>1. CASE WriteBegins \/ WritePrepares \/ WriteEnd
    <2>1. UNCHANGED <<file, patching, disturbed>>
      BY <1>1 DEF WriteBegins, WritePrepares, WriteEnd
    <2>. QED BY <2>1, BesidePatch
  <1>2. CASE WriteRenames
    <2>1. target \in Paths /\ Rename(target, Written, writeTmp) /\ UNCHANGED patching
          /\ disturbed' = disturbed \cup {target}
      BY <1>2 DEF WriteRenames
    <2>2. file'[target] = Written /\ \A q \in Paths \ {target} : file'[q] = file[q]
      BY <1>t, <2>1, RenameKeeps, Versions0
    <2>. QED BY <2>1, <2>2, BesidePatch
  <1>3. CASE PatchBegins
    BY <1>3 DEF PatchBegins, AppliedInv, RestoredInv, Replacing, Undoing
  <1>4. CASE PatchPlans
    <2>1. step = "plan" /\ step' \in {"plan", "backup", "refused"} /\ UNCHANGED <<file, patch>>
      BY <1>4 DEF PatchPlans
    <2>2. step' = "backup" => entry' = 1
      BY <1>4 DEF PatchPlans
    <2>3. patch \in [Entries -> Paths] /\ \A p \in Paths : file[p] \cap Entries = {}
      BY <1>t, <2>1 DEF PlanInv
    <2>4. \A e \in Entries : e \notin file[patch[e]]
      BY <2>3
    <2>5. patchTmp' = "none"
      BY <1>4, <1>t DEF PatchPlans, PlanInv
    <2>6. step' = "backup" => \A e \in Entries : ~(e < entry')
      BY <2>2, EntryBounds
    <2>7. AppliedInv'
      BY <2>1, <2>4, <2>5, <2>6 DEF AppliedInv, Replacing
    <2>. QED BY <2>1, <2>7 DEF RestoredInv, Undoing
  <1>5. CASE BackupWrites
    <2>1. step = "backup" /\ UNCHANGED <<file, patch, entry, disturbed, unrestored>> /\ patchTmp = "none"
      BY <1>5, <1>t DEF BackupWrites, PlanInv
    <2>2. CASE step' = "replace" /\ UNCHANGED <<restore, patchTmp>>
      BY <2>1, <2>2, <1>t DEF AppliedInv, RestoredInv, Replacing, Undoing
    <2>3. CASE RollsBack
      <3>1. \A e \in Entries : e \notin restore' => e \notin file[patch[e]]
        <4>1. \A e \in Entries : e \notin Replaced(entry) => e > entry \/ e = entry
          BY <1>t, ReplacedEntries, EntryBounds DEF FilesTypeOK
        <4>. QED BY <2>1, <2>3, <4>1, <1>t DEF AppliedInv, Replacing, RollsBack
      <3>. QED BY <2>1, <2>3, <3>1 DEF RollsBack, AppliedInv, RestoredInv, Replacing, Undoing
    <2>. QED BY <1>5, <2>2, <2>3 DEF BackupWrites
  <1>6. CASE ReplaceStep
    <2>. DEFINE p == patch[entry]
    <2>0. step = "replace" /\ UNCHANGED <<patch, plans, unrestored, disturbed>>
          /\ patch \in [Entries -> Paths] /\ IsInjective(patch) /\ entry \in Entries /\ p \in Paths
      BY <1>6, <1>t DEF ReplaceStep, FilesTypeOK, PlanInv
    <2>1. \A e \in Entries : e # entry => patch[e] # p
      BY <2>0 DEF IsInjective
    <2>2. CASE Prepares(patchTmp, patchTmp') /\ UNCHANGED <<file, keeps, step, entry, restore>>
      BY <2>0, <2>2, <1>t, TmpSteps DEF AppliedInv, RestoredInv, Replacing, Undoing
    <2>3. CASE /\ Rename(p, plans[entry] \cup {entry}, patchTmp)
               /\ patchTmp' = "renamed" /\ UNCHANGED <<step, entry, restore>>
      <3>1. plans[entry] \cup {entry} \in Whole
        BY <2>0, Originals
      <3>2. /\ file'[p] = plans[entry] \cup {entry}
            /\ \A q \in Paths \ {p} : file'[q] = file[q]
            /\ patchTmp = "synced"
        BY <2>0, <2>3, <3>1, <1>t, RenameKeeps
      <3>3. entry \in file'[p] /\ \A e \in Entries : e # entry => file'[patch[e]] = file[patch[e]]
        BY <2>0, <2>1, <3>2
      <3>4. \A e \in Entries : (e < entry => e # entry) /\ (e > entry => e # entry)
        BY EntryBounds, <2>0
      <3>5. AppliedInv'
        BY <2>0, <2>3, <3>2, <3>3, <3>4, <1>t DEF AppliedInv, Replacing
      <3>. QED BY <2>0, <2>3, <3>5 DEF RestoredInv, Undoing
    <2>4. CASE /\ patchTmp = "renamed" /\ patchTmp' = "none"
               /\ entry' = (IF entry = PatchLength THEN entry ELSE entry + 1)
               /\ step' = (IF entry = PatchLength THEN "ok" ELSE "backup")
               /\ UNCHANGED <<file, restore>>
      <3>1. \A e \in Entries : e < entry \/ e = entry \/ e > entry
        BY <2>0, EntryBounds
      <3>2. CASE entry = PatchLength
        <4>1. \A e \in Entries : ~(e > entry)
          BY <3>2, FilesBound DEF Entries
        <4>. QED BY <2>0, <2>4, <3>1, <3>2, <4>1, <1>t DEF AppliedInv, RestoredInv, Replacing, Undoing
      <3>3. CASE entry # PatchLength
        <4>1. \A e \in Entries : (e < entry' <=> (e < entry \/ e = entry))
                                /\ (e > entry' \/ e = entry' => e > entry)
          BY <2>0, <2>4, <3>3, EntryBounds
        <4>. QED BY <2>0, <2>4, <3>3, <4>1, <1>t DEF AppliedInv, RestoredInv, Replacing, Undoing
      <3>. QED BY <3>2, <3>3
    <2>5. CASE patchTmp # "renamed" /\ RollsBack /\ UNCHANGED <<file, keeps, entry>>
      <3>1. \A e \in Entries : e \notin Replaced(entry) => e > entry \/ e = entry
        BY <2>0, ReplacedEntries, EntryBounds
      <3>2. \A e \in Entries : e \notin restore' => e \notin file[patch[e]]
        BY <2>0, <2>5, <3>1, <1>t DEF AppliedInv, Replacing, RollsBack
      <3>. QED BY <2>0, <2>5, <3>2 DEF RollsBack, AppliedInv, RestoredInv, Replacing, Undoing
    <2>. QED BY <1>6, <2>2, <2>3, <2>4, <2>5 DEF ReplaceStep
  <1>7. CASE RollbackStep
    <2>0. PICK e \in restore : (\A j \in restore : e <= j) /\ Restores(e, patch[e])
      BY <1>7 DEF RollbackStep
    <2>1. /\ step = "rollback" /\ UNCHANGED <<patch, plans, step, disturbed>>
          /\ patch \in [Entries -> Paths] /\ IsInjective(patch)
          /\ e \in Entries /\ patch[e] \in Paths /\ restore \subseteq Entries
      BY <1>7, <1>t, <2>0 DEF RollbackStep, FilesTypeOK, PlanInv
    <2>2. \A i \in Entries : i # e => patch[i] # patch[e]
      BY <2>1 DEF IsInjective
    <2>3. \A i \in Entries : i \in restore /\ (\A j \in restore : i <= j) => i = e
      BY <2>0, <2>1, EntryBounds
    <2>4. ASSUME NEW i \in Entries,
                 i \notin restore' \/ (patchTmp' = "renamed" /\ \A j \in restore' : i <= j)
          PROVE  i \notin file'[patch[i]] \/ patch[i] \in unrestored'
      <3>1. CASE Prepares(patchTmp, patchTmp') /\ UNCHANGED <<file, keeps, restore, unrestored>>
        BY <2>1, <2>4, <3>1, <1>t, TmpSteps DEF RestoredInv, Undoing
      <3>2. CASE Rename(patch[e], plans[e], patchTmp) /\ patchTmp' = "renamed"
                 /\ UNCHANGED <<restore, unrestored>>
        <4>1. plans[e] \in Whole /\ e \notin plans[e]
          BY <2>1, Originals
        <4>2. file'[patch[e]] = plans[e] /\ \A q \in Paths \ {patch[e]} : file'[q] = file[q]
          BY <2>1, <3>2, <4>1, <1>t, RenameKeeps
        <4>3. CASE i = e
          BY <4>1, <4>2, <4>3
        <4>4. CASE i # e
          <5>1. i \notin restore
            BY <2>3, <2>4, <3>2, <4>4
          <5>2. file'[patch[i]] = file[patch[i]]
            BY <2>1, <2>2, <4>2, <4>4
          <5>. QED BY <2>1, <3>2, <5>1, <5>2, <1>t DEF RestoredInv, Undoing
        <4>. QED BY <4>3, <4>4
      <3>3. CASE patchTmp = "renamed" /\ restore' = restore \ {e} /\ patchTmp' = "none"
                 /\ UNCHANGED <<file, unrestored>>
        <4>1. i \notin restore \/ i = e
          BY <2>4, <3>3
        <4>. QED BY <2>0, <2>1, <3>3, <4>1, <1>t DEF RestoredInv, Undoing
      <3>4. CASE restore' = restore \ {e} /\ patchTmp' = "none"
                 /\ unrestored' = unrestored \cup {patch[e]} /\ UNCHANGED file
        <4>1. i \notin restore \/ i = e
          BY <2>4, <3>4
        <4>. QED BY <2>1, <3>4, <4>1, <1>t DEF RestoredInv, Undoing
      <3>. QED BY <2>0, <3>1, <3>2, <3>3, <3>4 DEF Restores
    <2>. QED BY <2>1, <2>4 DEF AppliedInv, RestoredInv, Replacing, Undoing
  <1>8. CASE RollbackEnds
    <2>1. /\ step = "rollback" /\ restore = {} /\ step' \in {"undone", "incomplete"}
          /\ UNCHANGED <<file, patch, unrestored, disturbed>>
      BY <1>8 DEF RollbackEnds
    <2>2. DOMAIN patch = Entries
      BY <2>1, <1>t DEF PlanInv
    <2>. QED BY <2>1, <2>2, <1>t DEF AppliedInv, RestoredInv, Replacing, Undoing
  <1>9. CASE Cleanup
    BY <1>9, <1>t DEF Cleanup, AppliedInv, RestoredInv, Replacing, Undoing
  <1>10. CASE Kill
    BY <1>10, <1>t DEF Kill, CallsGone, Ends, AppliedInv, RestoredInv, Replacing, Undoing
  <1>11. CASE PowerLoss
    <2>1. step' = (IF step \in Ends THEN step ELSE "lost") /\ patch' = patch /\ disturbed' = Paths
      BY <1>11 DEF PowerLoss, CallsGone
    <2>2. step \in Ends \ {"refused", "lost"} => patch \in [Entries -> Paths]
      BY <1>t DEF PlanInv, Ends
    <2>. QED BY <2>1, <2>2 DEF Ends, AppliedInv, RestoredInv, Replacing, Undoing
  <1>12. CASE UNCHANGED filesVars
    <2>1. UNCHANGED <<file, patching, disturbed>>
      BY <1>12 DEF filesVars
    <2>. QED BY <2>1, BesidePatch
  <1>. QED BY <1>1, <1>2, <1>3, <1>4, <1>5, <1>6, <1>7, <1>8, <1>9, <1>10, <1>11, <1>12 DEF FilesNext

-----------------------------------------------------------------------------
LEMMA FilesInvariant == FilesSpec => []FilesInv
  <1>1. FilesInit => FilesInv
    BY FilesStart
  <1>2. FilesInv /\ [FilesNext]_filesVars => FilesInv'
    BY FilesTypeStep, PlanStep, AppliedStep DEF FilesInv
  <1>. QED BY <1>1, <1>2, PTL DEF FilesSpec

(* Whatever the power loss and whoever writes, no path ever names a file     *)
(* whose data did not reach the disk: replaceFile syncs before it renames.    *)
THEOREM NeverTornAnywhere == FilesSpec => []NeverTorn
  <1>1. FilesInv => NeverTorn
    BY Versions0 DEF FilesInv, FilesTypeOK, NeverTorn
  <1>. QED BY <1>1, FilesInvariant, PTL

(* A patch that says it succeeded holds every edit, one that was undone      *)
(* none, but for the files it names and those that others changed.           *)
THEOREM PatchAllOrNothing == FilesSpec => []PatchIsAllOrNothing
  <1>1. FilesInv => PatchIsAllOrNothing
    <2>1. FilesInv /\ step = "ok" => DOMAIN patch = Entries
      BY DEF FilesInv, PlanInv
    <2>. QED BY <2>1 DEF FilesInv, AppliedInv, RestoredInv, PatchIsAllOrNothing
  <1>. QED BY <1>1, FilesInvariant, PTL
-----------------------------------------------------------------------------
(* Read *)

\* A slice is what the sequence has from there on, as far as it goes.
LEMMA SliceIs ==
    ASSUME NEW S, NEW s \in Seq(S), NEW from \in Nat, NEW n \in Nat
    PROVE  /\ Len(Slice(s, from, n)) \in 0 .. n
           /\ Len(s) <= from => Len(Slice(s, from, n)) = 0
           /\ from < Len(s) /\ Len(s) < from + n => Len(Slice(s, from, n)) = Len(s) - from
           /\ from < Len(s) /\ from + n <= Len(s) => Len(Slice(s, from, n)) = n
           /\ \A i \in 1 .. Len(Slice(s, from, n)) : Slice(s, from, n)[i] = s[from + i]
<1> DEFINE to == IF from + n > Len(s) THEN Len(s) ELSE from + n
<1>1. Len(s) \in Nat /\ to \in Nat /\ to <= Len(s) /\ from + 1 \in Nat /\ from + 1 >= 1
  BY LenProperties
<1>2. Slice(s, from, n) = SubSeq(s, from + 1, to)
  BY DEF Slice
<1>3. Len(SubSeq(s, from + 1, to)) = IF from + 1 <= to THEN to - from ELSE 0
  BY <1>1
<1>4. \A i \in 1 .. Len(SubSeq(s, from + 1, to)) : SubSeq(s, from + 1, to)[i] = s[from + i]
  <2> HIDE DEF to
  <2>1. ASSUME NEW i \in 1 .. Len(SubSeq(s, from + 1, to))
        PROVE  SubSeq(s, from + 1, to)[i] = s[from + i]
    BY <1>1, <2>1
  <2> QED BY <2>1
<1>5. /\ Len(Slice(s, from, n)) \in 0 .. n
      /\ Len(s) <= from => Len(Slice(s, from, n)) = 0
      /\ from < Len(s) /\ Len(s) < from + n => Len(Slice(s, from, n)) = Len(s) - from
      /\ from < Len(s) /\ from + n <= Len(s) => Len(Slice(s, from, n)) = n
  BY <1>1, <1>2, <1>3
<1> QED BY <1>2, <1>4, <1>5

\* Who reads a file that does not change gets what is there, and is told that
\* there is more exactly when there is; going on after what was read skips
\* nothing, and gets somewhere.  No limit that was asked for is ever exceeded
\* (Service.Read, agent/internal/files).
THEOREM ReadGoesOn ==
    ASSUME NEW S, NEW content \in Seq(S), NEW offset \in Nat, NEW limit \in Nat \cup {NoLimit},
           NEW default \in Nat \ {0}, NEW max \in Nat \ {0}, default <= max
    PROVE  LET r == Read(content, Len(content), offset, limit, default, max) IN
           /\ \A i \in 1 .. Len(r.data) : r.data[i] = content[offset + i]
           /\ Len(r.data) <= max /\ (limit # NoLimit => Len(r.data) <= limit)
           /\ r.truncated <=> \E i \in 1 .. Len(content) : i > offset + Len(r.data)
           /\ r.truncated /\ limit # 0 => Len(r.data) > 0
           /\ r.code => r.truncated /\ limit \notin 0 .. max
<1> DEFINE most == IF limit = NoLimit THEN default ELSE IF limit > max THEN max ELSE limit
           data == Slice(content, offset, most)
           r == Read(content, Len(content), offset, limit, default, max)
<1>1. /\ most \in Nat /\ most <= max /\ (limit # NoLimit => most <= limit)
      /\ limit # 0 => most > 0
  BY DEF NoLimit
<1>2. /\ r.data = data /\ (r.truncated <=> offset + Len(data) < Len(content))
      /\ r.code <=> offset + Len(data) < Len(content) /\ (limit = NoLimit \/ limit > max)
  BY DEF Read
<1>3. Len(content) \in Nat
  BY LenProperties
<1> HIDE DEF most
<1>4. /\ Len(data) \in 0 .. most
      /\ Len(content) <= offset => Len(data) = 0
      /\ offset < Len(content) /\ Len(content) < offset + most => Len(data) = Len(content) - offset
      /\ offset < Len(content) /\ offset + most <= Len(content) => Len(data) = most
      /\ \A i \in 1 .. Len(data) : data[i] = content[offset + i]
  <2>1. most \in Nat
    BY <1>1
  <2> QED BY <2>1, SliceIs, Zenon
<1> HIDE DEF data, r
<1>5. Len(data) \in Nat /\ Len(data) <= most
  BY <1>1, <1>4
<1>6. \A i \in 1 .. Len(r.data) : r.data[i] = content[offset + i]
  BY <1>2, <1>4
<1>7. Len(r.data) <= max /\ (limit # NoLimit => Len(r.data) <= limit)
  BY <1>1, <1>2, <1>5
<1>8. r.truncated <=> \E i \in 1 .. Len(content) : i > offset + Len(r.data)
  <2>1. offset + Len(data) < Len(content) => Len(content) \in 1 .. Len(content)
    BY <1>3, <1>5
  <2> QED BY <1>2, <1>3, <1>5, <2>1
<1>9. r.truncated /\ limit # 0 => Len(r.data) > 0
  BY <1>1, <1>2, <1>3, <1>4, <1>5
<1>10. r.code => r.truncated /\ limit \notin 0 .. max
  BY <1>2 DEF NoLimit
<1> QED BY <1>6, <1>7, <1>8, <1>9, <1>10 DEF r

-----------------------------------------------------------------------------
(* The state of the agent on disk (agent/internal/provision, agent/internal/auth) *)

(* The files of the machine, and sequences of writes to them. *)
Files == {"crt", "key", "gateway", "root", "token"}
Contents(f) ==
    CASE f \in {"crt", "key"} -> Certificates
      [] f = "gateway" -> GatewayFiles
      [] f = "root" -> Rotations \cup {NoFile}
      [] f = "token" -> BearerDigests
Disks == [crt : Certificates, key : Certificates, gateway : GatewayFiles \cup {NoFile},
          root : Rotations \cup {NoFile}, token : BearerDigests]
Puts == UNION {[file : {f}, value : Contents(f)] : f \in Files}

\* Files are written in one order, each at most once.
Rank(f) ==
    CASE f = "crt" -> 1 [] f = "key" -> 2 [] f = "gateway" -> 3 [] f = "root" -> 4 [] f = "token" -> 5
Plan(s) == s \in Seq(Puts) /\ \A i, j \in DOMAIN s : i < j => Rank(s[i].file) < Rank(s[j].file)

\* What the disk d holds when the writes of s have been made.
Writes(s, f) == \E i \in DOMAIN s : s[i].file = f
After(d, s) ==
    [f \in Files |-> IF Writes(s, f) THEN s[CHOOSE i \in DOMAIN s : s[i].file = f].value ELSE d[f]]

\* A put has a file, and a value that may be in it.
LEMMA PutIs ==
    ASSUME NEW w \in Puts
    PROVE  w.file \in Files /\ w.value \in Contents(w.file)
BY DEF Puts, Files, Contents

LEMMA IsPut ==
    ASSUME NEW f \in Files, NEW v \in Contents(f)
    PROVE  Put(f, v) \in Puts /\ Put(f, v).file = f /\ Put(f, v).value = v
BY DEF Puts, Put

\* The order of the files is one.
LEMMA RankIs == /\ \A f \in Files : Rank(f) \in Nat
                /\ \A f, g \in Files : Rank(f) = Rank(g) => f = g
<1>1. /\ Rank("crt") = 1 /\ Rank("key") = 2 /\ Rank("gateway") = 3
      /\ Rank("root") = 4 /\ Rank("token") = 5
  BY DEF Rank
<1> QED BY <1>1 DEF Files

\* A put leaves a disk.
LEMMA PlacedIs ==
    ASSUME NEW d \in Disks, NEW w \in Puts
    PROVE  [d EXCEPT ![w.file] = w.value] \in Disks
<1>1. \A f \in Files : \A v \in Contents(f) : [d EXCEPT ![f] = v] \in Disks
  BY DEF Disks, Files, Contents
<1> QED BY <1>1, PutIs

\* What a plan writes is what it leaves.
LEMMA Holds ==
    ASSUME NEW d, NEW s, Plan(s), NEW i \in DOMAIN s
    PROVE  /\ s[i].file \in Files /\ Writes(s, s[i].file)
           /\ After(d, s)[s[i].file] = s[i].value
<1>1. \A j \in DOMAIN s : s[j] \in Puts /\ j \in Int
  BY DEF Plan
<1>2. \A j \in DOMAIN s : s[j].file \in Files
  BY <1>1, PutIs
<1>3. \A j \in DOMAIN s : s[j].file = s[i].file => j = i
  BY <1>1, <1>2, RankIs DEF Plan
<1>4. (CHOOSE j \in DOMAIN s : s[j].file = s[i].file) = i
  BY <1>3
<1> QED BY <1>2, <1>4 DEF After, Writes

\* What a plan does not write it leaves alone.
LEMMA Keeps ==
    ASSUME NEW d, NEW s, NEW f \in Files, ~Writes(s, f)
    PROVE  After(d, s)[f] = d[f]
BY DEF After

LEMMA DiskIs ==
    ASSUME NEW d \in Disks
    PROVE  d = [f \in Files |-> d[f]]
BY DEF Disks, Files

\* The plan that has ended changes nothing.
LEMMA NothingWritten ==
    /\ Plan(<<>>) /\ \A f : ~Writes(<<>>, f)
    /\ \A d \in Disks : After(d, <<>>) = d
<1>1. Plan(<<>>) /\ \A f : ~Writes(<<>>, f)
  BY DEF Plan, Writes
<1>2. ASSUME NEW d \in Disks PROVE After(d, <<>>) = d
  <2>1. After(d, <<>>) = [f \in Files |-> d[f]]
    BY <1>1 DEF After
  <2> QED BY <2>1, DiskIs
<1> QED BY <1>1, <1>2

\* The first write of a plan brings the disk nearer to what the plan leaves:
\* after it, the rest of the plan leaves the same. No file is written twice.
LEMMA FirstWritten ==
    ASSUME NEW d \in Disks, NEW s, Plan(s), s # <<>>
    PROVE  /\ Head(s) \in Puts /\ Plan(Tail(s)) /\ Writes(s, Head(s).file)
           /\ \A f : Writes(s, f) <=> f = Head(s).file \/ Writes(Tail(s), f)
           /\ \A f : Writes(Tail(s), f) => f \in Files /\ Rank(Head(s).file) < Rank(f)
           /\ After(d, s)[Head(s).file] = Head(s).value
           /\ After([d EXCEPT ![Head(s).file] = Head(s).value], Tail(s)) = After(d, s)
<1> DEFINE h == Head(s)
           t == Tail(s)
           e == [d EXCEPT ![h.file] = h.value]
<1>1. /\ s \in Seq(Puts) /\ Len(s) \in Nat /\ Len(s) > 0 /\ h = s[1] /\ 1 \in DOMAIN s
      /\ t \in Seq(Puts) /\ Len(t) = Len(s) - 1
      /\ DOMAIN s = 1 .. Len(s) /\ DOMAIN t = 1 .. Len(t)
      /\ \A i \in DOMAIN t : i + 1 \in DOMAIN s /\ t[i] = s[i + 1]
  BY DEF Plan
<1>2. \A i \in DOMAIN s : i = 1 \/ (i - 1 \in DOMAIN t /\ t[i - 1] = s[i])
  BY <1>1
<1>3. Plan(t)
  BY <1>1 DEF Plan
<1>4. \A f : Writes(s, f) <=> f = h.file \/ Writes(t, f)
  <2>1. ASSUME NEW f, Writes(t, f) PROVE Writes(s, f)
    BY <2>1, <1>1 DEF Writes
  <2>2. ASSUME NEW f, Writes(s, f) PROVE f = h.file \/ Writes(t, f)
    BY <2>2, <1>1, <1>2 DEF Writes
  <2> QED BY <2>1, <2>2, <1>1 DEF Writes
<1>5. \A f : Writes(t, f) => f \in Files /\ Rank(h.file) < Rank(f)
  <2> SUFFICES ASSUME NEW f, Writes(t, f) PROVE f \in Files /\ Rank(h.file) < Rank(f)
    OBVIOUS
  <2>1. PICK i \in DOMAIN t : t[i].file = f
    BY DEF Writes
  <2> QED BY <2>1, <1>1, PutIs DEF Plan
<1>6. h.file \in Files
  BY <1>1, PutIs
<1>7. ~Writes(t, h.file)
  BY <1>5, <1>6, RankIs
<1>8. After(d, s)[h.file] = h.value
  BY <1>1, Holds
<1>9. ASSUME NEW f \in Files PROVE After(e, t)[f] = After(d, s)[f]
  <2>1. CASE f = h.file
    <3>1. After(e, t)[f] = e[f]
      BY <2>1, <1>7, Keeps
    <3>2. e[f] = h.value
      BY <2>1, DiskIs
    <3> QED BY <3>1, <3>2, <1>8, <2>1
  <2>2. CASE f # h.file /\ Writes(t, f)
    <3>1. PICK i \in DOMAIN t : t[i].file = f
      BY <2>2 DEF Writes
    <3>a. After(e, t)[t[i].file] = t[i].value
      <4> HIDE DEF h, t, e
      <4> QED BY Holds, <1>3
    <3>2. After(e, t)[f] = t[i].value
      BY <3>1, <3>a
    <3>3. After(d, s)[f] = s[i + 1].value
      BY <3>1, Holds, <1>1
    <3> QED BY <3>1, <3>2, <3>3, <1>1
  <2>3. CASE f # h.file /\ ~Writes(t, f)
    <3>1. After(e, t)[f] = e[f] /\ After(d, s)[f] = d[f]
      BY <2>3, <1>4, Keeps
    <3>2. e[f] = d[f]
      BY <2>3, DiskIs
    <3> QED BY <3>1, <3>2
  <2> QED BY <2>1, <2>2, <2>3
<1>10. After(e, t) = After(d, s)
  BY <1>9 DEF After
<1> QED BY <1>1, <1>3, <1>4, <1>5, <1>8, <1>10

\* What was in a file that a plan will write makes no difference to what the
\* plan leaves.
LEMMA Rewritten ==
    ASSUME NEW d \in Disks, NEW s, NEW f \in Files, Writes(s, f), NEW v
    PROVE  After([d EXCEPT ![f] = v], s) = After(d, s)
<1>1. ASSUME NEW g \in Files, ~Writes(s, g) PROVE [d EXCEPT ![f] = v][g] = d[g]
  BY <1>1, DiskIs
<1> QED BY <1>1 DEF After

LEMMA AsWritten ==
    ASSUME NEW d \in Disks, NEW f \in Files, NEW v
    PROVE  /\ [d EXCEPT ![f] = v][f] = v
           /\ \A g \in Files : g # f => [d EXCEPT ![f] = v][g] = d[g]
           /\ d[f] = v => [d EXCEPT ![f] = v] = d
BY DiskIs

-----------------------------------------------------------------------------
(* The writes of a command *)

LEMMA RanksAre ==
    /\ Rank("crt") = 1 /\ Rank("key") = 2 /\ Rank("gateway") = 3
    /\ Rank("root") = 4 /\ Rank("token") = 5
BY DEF Rank

LEMMA ContentsAre ==
    /\ Contents("crt") = Certificates /\ Contents("key") = Certificates
    /\ Contents("gateway") = GatewayFiles
    /\ Contents("root") = Rotations \cup {NoFile} /\ Contents("token") = BearerDigests
BY DEF Contents

\* A plan has a put.
Has(s, w) == \E i \in DOMAIN s : s[i] = w

\* What a put of a sequence writes.
LEMMA PlanHas ==
    ASSUME NEW s, Plan(s)
    PROVE  /\ \A d, w : Has(s, w) => Writes(s, w.file) /\ After(d, s)[w.file] = w.value
           /\ \A f : Writes(s, f) <=> \E w : Has(s, w) /\ w.file = f
<1>1. ASSUME NEW d, NEW w, Has(s, w) PROVE Writes(s, w.file) /\ After(d, s)[w.file] = w.value
  <2>1. PICK i \in DOMAIN s : s[i] = w
    BY <1>1 DEF Has
  <2> QED BY <2>1, Holds
<1> QED BY <1>1 DEF Has, Writes

\* What a plan has is a put.
LEMMA HasPut ==
    ASSUME NEW s, Plan(s), NEW w, Has(s, w)
    PROVE  w \in Puts /\ w.file \in Files /\ w.value \in Contents(w.file)
BY PutIs DEF Plan, Has

\* A plan has its first put, and all that its rest has.
LEMMA HasFirst ==
    ASSUME NEW s, Plan(s), s # <<>>
    PROVE  Has(s, Head(s)) /\ \A w : Has(Tail(s), w) => Has(s, w)
<1>1. /\ s \in Seq(Puts) /\ 1 \in DOMAIN s /\ Head(s) = s[1]
      /\ \A i \in DOMAIN Tail(s) : i + 1 \in DOMAIN s /\ Tail(s)[i] = s[i + 1]
  BY DEF Plan
<1> QED BY <1>1 DEF Has

\* Plans are built by writes to later and later files.
LEMMA PlanOne ==
    ASSUME NEW w \in Puts
    PROVE  Plan(<<w>>) /\ \A x : Has(<<w>>, x) <=> x = w
BY DEF Plan, Has

\* One more put, to a later file than those before it, gives a plan.
LEMMA PlanMore ==
    ASSUME NEW s, Plan(s), NEW w \in Puts,
           \A x : Has(s, x) => Rank(x.file) < Rank(w.file)
    PROVE  Plan(s \o <<w>>) /\ \A x : Has(s \o <<w>>, x) <=> Has(s, x) \/ x = w
<1> DEFINE t == s \o <<w>>
<1>1. s \in Seq(Puts)
  BY DEF Plan
<1>2. t = Append(s, w)
  BY <1>1, AppendIsConcat
<1>3. /\ t \in Seq(Puts) /\ Len(t) = Len(s) + 1 /\ t[Len(s) + 1] = w
      /\ \A i \in 1 .. Len(s) : t[i] = s[i]
  BY <1>1, <1>2, AppendProperties
<1>4. Len(s) \in Nat /\ DOMAIN s = 1 .. Len(s) /\ DOMAIN t = 1 .. Len(s) + 1
  BY <1>1, <1>3
<1> HIDE DEF t
<1>5. ASSUME NEW i \in DOMAIN t, NEW j \in DOMAIN t, i < j
      PROVE  Rank(t[i].file) < Rank(t[j].file)
  <2>1. CASE j \in DOMAIN s
    BY <2>1, <1>3, <1>4, <1>5 DEF Plan
  <2>2. CASE j = Len(s) + 1
    <3>1. i \in DOMAIN s /\ t[i] = s[i] /\ t[j] = w
      BY <2>2, <1>3, <1>4, <1>5
    <3> QED BY <3>1 DEF Has
  <2> QED BY <2>1, <2>2, <1>4
<1>6. ASSUME NEW x PROVE Has(t, x) <=> Has(s, x) \/ x = w
  <2>1. \A i \in DOMAIN t : i \in DOMAIN s \/ i = Len(s) + 1
    BY <1>4
  <2>2. DOMAIN s \subseteq DOMAIN t /\ Len(s) + 1 \in DOMAIN t
    BY <1>4
  <2> QED BY <2>1, <2>2, <1>3, <1>4 DEF Has
<1>7. Plan(t)
  BY <1>3, <1>5 DEF Plan
<1> QED BY <1>6, <1>7 DEF t

LEMMA PlanSame ==
    ASSUME NEW s, Plan(s)
    PROVE  s \o <<>> = s
BY ConcatEmptySeq DEF Plan

LEMMA PlanThree ==
    ASSUME NEW v \in Puts, NEW w \in Puts, NEW x \in Puts,
           Rank(v.file) < Rank(w.file), Rank(w.file) < Rank(x.file), Rank(v.file) < Rank(x.file)
    PROVE  Plan(<<v, w, x>>) /\ \A y : Has(<<v, w, x>>, y) <=> y \in {v, w, x}
BY DEF Plan, Has

\* The writes of a provision, and of a rotation.
ProvisionWrites(crt, key, g, noRoot, r, token, b) ==
    <<Put("crt", crt), Put("key", key), Put("gateway", g)>>
        \o (IF noRoot THEN <<>> ELSE <<Put("root", r)>>)
        \o (IF token THEN <<Put("token", b)>> ELSE <<>>)

\* The writes of a provision are a plan, whatever the seed says and whether
\* this is the first boot.
LEMMA ProvisionPlan ==
    ASSUME NEW crt \in Certificates, NEW key \in Certificates, NEW g \in GatewayFiles,
           NEW r \in Rotations, NEW b \in BearerDigests,
           NEW noRoot \in BOOLEAN, NEW token \in BOOLEAN
    PROVE  /\ Plan(ProvisionWrites(crt, key, g, noRoot, r, token, b))
           /\ \A w : Has(ProvisionWrites(crt, key, g, noRoot, r, token, b), w) <=>
                \/ w \in {Put("crt", crt), Put("key", key), Put("gateway", g)}
                \/ ~noRoot /\ w = Put("root", r)
                \/ token /\ w = Put("token", b)
<1> DEFINE a1 == Put("crt", crt)
           a2 == Put("key", key)
           a3 == Put("gateway", g)
           a4 == Put("root", r)
           a5 == Put("token", b)
           s == ProvisionWrites(crt, key, g, noRoot, r, token, b)
<1>1. /\ a1 \in Puts /\ a1.file = "crt" /\ a2 \in Puts /\ a2.file = "key"
      /\ a3 \in Puts /\ a3.file = "gateway" /\ a4 \in Puts /\ a4.file = "root"
      /\ a5 \in Puts /\ a5.file = "token"
  BY IsPut, ContentsAre DEF Files
<1>2. s = <<a1, a2, a3>> \o (IF noRoot THEN <<>> ELSE <<a4>>) \o (IF token THEN <<a5>> ELSE <<>>)
  BY DEF ProvisionWrites
<1> HIDE DEF s
<1>0. /\ a1 = Put("crt", crt) /\ a2 = Put("key", key) /\ a3 = Put("gateway", g)
      /\ a4 = Put("root", r) /\ a5 = Put("token", b)
  OBVIOUS
<1> HIDE DEF a1, a2, a3, a4, a5
<1> DEFINE s3 == <<a1, a2, a3>>
           s4 == s3 \o (IF noRoot THEN <<>> ELSE <<a4>>)
<1>3. Plan(s3) /\ \A w : Has(s3, w) <=> w \in {a1, a2, a3}
  BY <1>1, RanksAre, PlanThree
<1>4. s = s4 \o (IF token THEN <<a5>> ELSE <<>>)
  BY <1>2
<1> HIDE DEF s3
<1>5. Plan(s4) /\ \A w : Has(s4, w) <=> w \in {a1, a2, a3} \/ (~noRoot /\ w = a4)
  <2>1. CASE noRoot
    BY <2>1, <1>3, PlanSame
  <2>2. CASE ~noRoot
    <3>1. \A x : Has(s3, x) => Rank(x.file) < Rank(a4.file)
      BY <1>3, <1>1, RanksAre
    <3>2. Plan(s3 \o <<a4>>) /\ \A x : Has(s3 \o <<a4>>, x) <=> Has(s3, x) \/ x = a4
      BY <3>1, <1>3, <1>1, PlanMore
    <3> QED BY <2>2, <1>3, <3>2
  <2> QED BY <2>1, <2>2
<1> HIDE DEF s4
<1>6. CASE ~token
  <2>1. s = s4
    BY <1>6, <1>4, <1>5, PlanSame
  <2>2. \A w : Has(s, w) <=> w \in {a1, a2, a3} \/ (~noRoot /\ w = a4) \/ (token /\ w = a5)
    BY <2>1, <1>5, <1>6
  <2>3. Plan(s)
    BY <2>1, <1>5
  <2> QED BY <2>3, <2>2, <1>0, Zenon DEF s
<1>7. CASE token
  <2>1. \A x : Has(s4, x) => Rank(x.file) < Rank(a5.file)
    BY <1>5, <1>1, RanksAre
  <2>2. Plan(s4 \o <<a5>>) /\ \A x : Has(s4 \o <<a5>>, x) <=> Has(s4, x) \/ x = a5
    BY <2>1, <1>5, <1>1, PlanMore
  <2>3. s = s4 \o <<a5>>
    BY <1>4, <1>7
  <2>4. \A w : Has(s, w) <=> w \in {a1, a2, a3} \/ (~noRoot /\ w = a4) \/ (token /\ w = a5)
    BY <2>2, <2>3, <1>5, <1>7
  <2>5. Plan(s)
    BY <2>2, <2>3
  <2> QED BY <2>5, <2>4, <1>0, Zenon DEF s
<1> QED BY <1>6, <1>7

RotationWrites(g, root, r) ==
    <<Put("gateway", g)>> \o (IF root THEN <<Put("root", r)>> ELSE <<>>)

\* So are those of a rotation, and its snapshots.
LEMMA RotationPlan ==
    ASSUME NEW g \in GatewayFiles, NEW r \in Rotations \cup {NoFile}, NEW root \in BOOLEAN
    PROVE  /\ Plan(RotationWrites(g, root, r))
           /\ \A w : Has(RotationWrites(g, root, r), w) <=>
                w = Put("gateway", g) \/ (root /\ w = Put("root", r))
<1> DEFINE a1 == Put("gateway", g)
           a2 == Put("root", r)
           s == RotationWrites(g, root, r)
<1>1. a1 \in Puts /\ a1.file = "gateway" /\ a2 \in Puts /\ a2.file = "root"
  BY IsPut, ContentsAre DEF Files
<1>2. s = <<a1>> \o (IF root THEN <<a2>> ELSE <<>>)
  BY DEF RotationWrites
<1> HIDE DEF a1, a2, s
<1> DEFINE s1 == <<a1>>
<1>3. Plan(s1) /\ \A w : Has(s1, w) <=> w = a1
  BY <1>1, PlanOne
<1>4. s = s1 \o (IF root THEN <<a2>> ELSE <<>>)
  BY <1>2
<1> HIDE DEF s1
<1>5. CASE ~root
  BY <1>5, <1>4, <1>3, PlanSame DEF a1, a2, s
<1>6. CASE root
  <2>1. \A x : Has(s1, x) => Rank(x.file) < Rank(a2.file)
    BY <1>3, <1>1, RanksAre
  <2>2. Plan(s1 \o <<a2>>) /\ \A x : Has(s1 \o <<a2>>, x) <=> Has(s1, x) \/ x = a2
    BY <2>1, <1>3, <1>1, PlanMore
  <2> QED BY <1>6, <1>4, <1>3, <2>2 DEF a1, a2, s
<1> QED BY <1>5, <1>6

-----------------------------------------------------------------------------
(* What the commands begin with *)

(* What the variables are: every command has a plan of its writes left. *)
StateTypeOK ==
    /\ oem \in Seeds /\ fresh \in Nat /\ clock \in Nat
    /\ command \in {"none", "provision", "rotate", "rollback"}
    /\ disk \in Disks /\ Plan(writes) /\ Plan(snaps)

\* What a service can be given: the current bearer is of the seed or of a
\* generation, the outgoing one another, and for no longer than allowed.
UsableAt(r, last, now) ==
    /\ r.current \in Nat => r.current <= last
    /\ r.previous # NoDigest => r.previous # r.current /\ r.until <= now + MaxOverlap
FileUsableAt(f, v, last, now) ==
    /\ f = "gateway" /\ v # NoFile => UsableAt(v.user, last, now) /\ UsableAt(v.admin, last, now)
    /\ f = "root" /\ v # NoFile => UsableAt(v, last, now)
\* Every rotation on the disk, to be written or in a snapshot can be used.
RotationsInv ==
    /\ \A f \in Files : FileUsableAt(f, disk[f], fresh, clock)
    /\ \A w : Has(writes, w) \/ Has(snaps, w) => FileUsableAt(w.file, w.value, fresh, clock)

\* What a provision that begins will write.
NewUser == UserRotation(Load(oem), disk.gateway, fresh + 1)
NewAdmin == AdminRotation(Load(oem), disk.gateway)
IsFirst == Load(oem).user = NoDigest /\ disk.gateway = NoFile
NewGateway(crt) == [user |-> NewUser, admin |-> NewAdmin, fingerprint |-> crt]

\* The steps, as far as the files and the commands go.
LEMMA StateSteps ==
    ASSUME StateTypeOK, [StateNext]_stateVars
    PROVE  /\ oem' \in Seeds
           /\ fresh' \in Nat /\ fresh <= fresh' /\ clock' \in Nat /\ clock <= clock'
           /\ \/ UNCHANGED <<disk, commandVars, agreed>>
              \/ ProvisionBegins /\ command' = "provision"
              \/ \E o \in OverlapAsked : RotateUser(o) \/ RotateAdmin(o)
              \/ WriteSucceeds \/ WriteFails \/ Completes \/ CommandKilled \/ MachineBoots
<1>1. CASE UNCHANGED stateVars
  BY <1>1 DEF stateVars, StateTypeOK
<1>2. CASE ProvisionBegins
  <2>1. /\ command = "none" /\ oem' = oem /\ clock' = clock /\ UNCHANGED disk
        /\ IF Load(oem).enabled THEN command' = "provision" ELSE UNCHANGED <<fresh, commandVars, agreed>>
        /\ fresh' = fresh \/ fresh' = fresh + 1
    BY <1>2 DEF ProvisionBegins
  <2> QED BY <1>2, <2>1 DEF StateTypeOK
<1>3. CASE \E o \in OverlapAsked : RotateUser(o) \/ RotateAdmin(o)
  BY <1>3 DEF RotateUser, RotateAdmin, Rotates, StateTypeOK
<1>4. CASE WriteSucceeds \/ WriteFails \/ Completes \/ CommandKilled \/ MachineBoots
  <2>1. UNCHANGED <<oem, fresh, clock>>
    BY <1>4 DEF WriteSucceeds, WriteFails, Completes, CommandKilled, MachineBoots
  <2> QED BY <1>4, <2>1 DEF StateTypeOK
<1>5. CASE GatewayStarts \/ HelperStarts \/ ServiceEnds \/ SeedChanges \/ TimePasses
  BY <1>5 DEF GatewayStarts, HelperStarts, ServiceEnds, SeedChanges, TimePasses, commandVars,
              StateTypeOK
<1> QED BY <1>1, <1>2, <1>3, <1>4, <1>5 DEF StateNext

\* What a seed gives is named apart from the absence of a digest.
LEMMA SeedRead ==
    ASSUME oem \in Seeds
    PROVE  /\ Load(oem).user \in {NoDigest} \cup SeedDigests
           /\ Load(oem).admin \in {NoDigest} \cup SeedAdmins
           /\ NoDigest \notin SeedDigests /\ NoDigest \notin SeedAdmins
<1>1. \A S : Secret(S) = NoDigest \/ Secret(S) \in S
  BY DEF Secret
<1>2. Users(oem) \subseteq SeedDigests /\ Admins(oem) \subseteq SeedAdmins
  BY DEF SeedDigests, SeedAdmins
<1>3. NoDigest \notin SeedDigests /\ NoDigest \notin SeedAdmins
  BY SeedsApart DEF NoDigest
<1> QED BY <1>1, <1>2, <1>3 DEF Load

\* The pair of a seed that is not refused: both files of it, or neither.
LEMMA PairRead ==
    ASSUME oem \in Seeds, ~Invalid(oem)
    PROVE  /\ Load(oem).crt \in {NoDigest} \cup SeedPairs
           /\ Load(oem).crt # NoDigest => Load(oem).key \in SeedPairs
<1>1. ASSUME NEW field \in {"crt", "key"}, NEW d, d = Secret(LastSet(oem, field, NoDigest))
      PROVE  d \in {NoDigest} \cup SeedPairs
  <2>1. \A S : Secret(S) = NoDigest \/ Secret(S) \in S
    BY DEF Secret
  <2>2. LastSet(oem, field, NoDigest) \subseteq Secrets(oem, field) \cup {NoDigest}
    BY DEF LastSet, Secrets
  <2>3. Secrets(oem, "crt") \cup Secrets(oem, "key") \subseteq SeedPairs \cup {NoDigest}
    BY DEF SeedPairs
  <2>4. Secrets(oem, field) \subseteq SeedPairs \cup {NoDigest}
    BY <2>3
  <2> QED BY <1>1, <2>1, <2>2, <2>4
<1>2. /\ Load(oem).crt = Secret(LastSet(oem, "crt", NoDigest))
      /\ Load(oem).key = Secret(LastSet(oem, "key", NoDigest))
  BY DEF Load
<1>3. Load(oem).crt # NoDigest => Load(oem).key # NoDigest
  BY DEF Invalid, HalfPair
<1> QED BY <1>1, <1>2, <1>3

\* What a provision writes are rotations; it keeps the user bearer that is on
\* the disk, or takes the one of the seed.
LEMMA NewRotations ==
    ASSUME StateTypeOK
    PROVE  /\ NewUser \in Rotations /\ NewAdmin \in Rotations
           /\ \A crt \in Certificates : NewGateway(crt) \in GatewayFiles
           /\ disk.gateway # NoFile => NewUser.current \in {disk.gateway.user.current} \cup SeedDigests
<1>1. /\ Load(oem).user \in {NoDigest} \cup SeedDigests
      /\ Load(oem).admin \in {NoDigest} \cup SeedAdmins
  BY SeedRead DEF StateTypeOK
<1>2. \A d \in BearerDigests : Only(d) \in Rotations /\ Only(d).current = d
  BY DEF Only, Rotations, BearerDigests, NoDigest
<1>3. NoDigest \in BearerDigests /\ fresh + 1 \in BearerDigests
  BY DEF BearerDigests, NoDigest, StateTypeOK
<1>4. disk.gateway # NoFile => disk.gateway.user \in Rotations /\ disk.gateway.admin \in Rotations
  BY DEF StateTypeOK, Disks, GatewayFiles
<1>5. NewUser \in Rotations
  BY <1>1, <1>2, <1>3, <1>4 DEF NewUser, UserRotation, BearerDigests
<1>6. NewAdmin \in Rotations
  BY <1>1, <1>2, <1>3, <1>4 DEF NewAdmin, AdminRotation, NoAdmin, BearerDigests
<1>7. disk.gateway # NoFile => NewUser.current \in {disk.gateway.user.current} \cup SeedDigests
  BY <1>1, <1>2 DEF NewUser, UserRotation, BearerDigests
<1> QED BY <1>5, <1>6, <1>7 DEF NewGateway, GatewayFiles

\* The pair is of the seed, on the disk or generated.
LEMMA Provisions ==
    ASSUME StateTypeOK, ProvisionBegins, command' = "provision"
    PROVE  /\ command = "none" /\ UNCHANGED disk /\ snaps' = <<>> /\ ~agreed'
           /\ IsFirst => fresh' = fresh + 1
           /\ \E crt, key \in Certificates :
                /\ Plan(writes')
                /\ \A w : Has(writes', w) <=>
                     \/ w \in {Put("crt", crt), Put("key", key), Put("gateway", NewGateway(crt))}
                     \/ NewAdmin.current # NoDigest /\ w = Put("root", NewAdmin)
                     \/ IsFirst /\ w = Put("token", NewUser.current)
<1>1. command = "none" /\ Load(oem).enabled
  BY DEF ProvisionBegins, commandVars
<1>2. /\ UNCHANGED disk /\ snaps' = <<>> /\ agreed' = FALSE
      /\ \E pair \in Pairs(Load(oem), fresh + 1) :
           /\ writes' = <<Put("crt", pair.crt), Put("key", pair.key),
                          Put("gateway", NewGateway(pair.crt))>>
                \o (IF NewAdmin.current = NoDigest THEN <<>> ELSE <<Put("root", NewAdmin)>>)
                \o (IF IsFirst THEN <<Put("token", NewUser.current)>> ELSE <<>>)
           /\ IsFirst => fresh' = fresh + 1
  BY <1>1 DEF ProvisionBegins, GatewayRead, NewUser, NewAdmin, NewGateway, IsFirst
<1>3. PICK pair \in Pairs(Load(oem), fresh + 1) :
           /\ writes' = <<Put("crt", pair.crt), Put("key", pair.key),
                          Put("gateway", NewGateway(pair.crt))>>
                \o (IF NewAdmin.current = NoDigest THEN <<>> ELSE <<Put("root", NewAdmin)>>)
                \o (IF IsFirst THEN <<Put("token", NewUser.current)>> ELSE <<>>)
           /\ IsFirst => fresh' = fresh + 1
  BY <1>2
<1>4. pair.crt \in Certificates /\ pair.key \in Certificates
  <2>1. /\ Load(oem).crt \in {NoDigest} \cup SeedPairs
        /\ Load(oem).crt # NoDigest => Load(oem).key \in SeedPairs
    BY PairRead DEF ProvisionBegins, StateTypeOK
  <2>2. fresh + 1 \in Nat /\ disk.crt \in Certificates /\ disk.key \in Certificates
    BY DEF StateTypeOK, Disks
  <2> QED BY <1>3, <2>1, <2>2 DEF Pairs, Certificates
<1>5. /\ NewAdmin \in Rotations /\ NewUser.current \in BearerDigests
      /\ NewGateway(pair.crt) \in GatewayFiles
  BY <1>4, NewRotations DEF Rotations
<1>6. PICK noRoot \in BOOLEAN : noRoot <=> NewAdmin.current = NoDigest
  OBVIOUS
<1>7. PICK token \in BOOLEAN : token <=> IsFirst
  OBVIOUS
<1> DEFINE all == ProvisionWrites(pair.crt, pair.key, NewGateway(pair.crt), noRoot, NewAdmin,
                                  token, NewUser.current)
<1>8. writes' = all
  BY <1>3, <1>6, <1>7 DEF ProvisionWrites
<1>9. Plan(all)
      /\ \A w : Has(all, w) <=>
            \/ w \in {Put("crt", pair.crt), Put("key", pair.key), Put("gateway", NewGateway(pair.crt))}
            \/ ~noRoot /\ w = Put("root", NewAdmin)
            \/ token /\ w = Put("token", NewUser.current)
  BY <1>4, <1>5, ProvisionPlan
<1> HIDE DEF all
<1>10. Plan(writes')
       /\ \A w : Has(writes', w) <=>
            \/ w \in {Put("crt", pair.crt), Put("key", pair.key), Put("gateway", NewGateway(pair.crt))}
            \/ NewAdmin.current # NoDigest /\ w = Put("root", NewAdmin)
            \/ IsFirst /\ w = Put("token", NewUser.current)
  BY <1>6, <1>7, <1>8, <1>9
<1> QED BY <1>1, <1>2, <1>3, <1>4, <1>10

\* A rotation that can be used can be used later.
LEMMA UsableLater ==
    ASSUME StateTypeOK, fresh' \in Nat, fresh <= fresh', clock' \in Nat, clock <= clock'
    PROVE  /\ \A r \in Rotations : UsableAt(r, fresh, clock) => UsableAt(r, fresh', clock')
           /\ \A f, v : v \in Contents(f) /\ f \in Files /\ FileUsableAt(f, v, fresh, clock) =>
                  FileUsableAt(f, v, fresh', clock')
           /\ \A v \in GatewayFiles : UsableAt(v.user, fresh', clock') /\ UsableAt(v.admin, fresh', clock') =>
                  FileUsableAt("gateway", v, fresh', clock')
<1>1. ASSUME NEW r \in Rotations, UsableAt(r, fresh, clock) PROVE UsableAt(r, fresh', clock')
  BY <1>1, StateBounds DEF UsableAt, Rotations, StateTypeOK
<1>2. \A v \in GatewayFiles : v.user \in Rotations /\ v.admin \in Rotations
  BY DEF GatewayFiles
<1>3. ASSUME NEW f \in Files, NEW v \in Contents(f), FileUsableAt(f, v, fresh, clock)
      PROVE  FileUsableAt(f, v, fresh', clock')
  BY <1>1, <1>2, <1>3, ContentsAre DEF FileUsableAt
<1> QED BY <1>1, <1>3 DEF FileUsableAt

\* A rotation within the overlap that may be asked for can be used.
LEMMA RotatedIs ==
    ASSUME StateTypeOK, NEW old \in Rotations, UsableAt(old, fresh, clock), NEW overlap \in OverlapAsked,
           fresh' = fresh + 1, clock' = clock
    PROVE  Rotated(old, overlap) \in Rotations /\ UsableAt(Rotated(old, overlap), fresh', clock')
<1>1. overlap \in Nat /\ overlap <= MaxOverlap
  BY OverlapsValid, StateBounds
<1>2. old.current \in BearerDigests /\ NoDigest \in BearerDigests /\ fresh + 1 \in BearerDigests
  BY DEF Rotations, BearerDigests, StateTypeOK, NoDigest
<1>3. old.current # fresh + 1 /\ fresh \in Nat /\ clock \in Nat
  BY DEF UsableAt, StateTypeOK
<1>4. CASE overlap > 0 /\ old.current # NoDigest
  <2> DEFINE new == [current |-> fresh + 1, previous |-> old.current, until |-> clock + overlap]
  <2>1. Rotated(old, overlap) = new
    BY <1>4 DEF Rotated
  <2>2. new \in Rotations
    BY <1>1, <1>2, <1>3 DEF Rotations
  <2>3. (new.current \in Nat => new.current <= fresh + 1) /\ new.previous # new.current
        /\ new.until <= clock + MaxOverlap
    BY <1>1, <1>3, StateBounds
  <2>4. Rotated(old, overlap) \in Rotations
    BY <2>1, <2>2
  <2>5. UsableAt(Rotated(old, overlap), fresh', clock')
    BY <1>3, <1>4, StateBounds, <1>1 DEF UsableAt, Rotated
  <2> QED BY <2>4, <2>5
<1>5. CASE ~(overlap > 0 /\ old.current # NoDigest)
  <2>1. Rotated(old, overlap) = Only(fresh + 1)
    BY <1>5 DEF Rotated
  <2>2. Only(fresh + 1) \in Rotations
    BY <1>2 DEF Only, Rotations, NoDigest
  <2>3. UsableAt(Only(fresh + 1), fresh', clock')
    BY <1>3 DEF UsableAt, Only, NoDigest
  <2> QED BY <2>1, <2>2, <2>3
<1> QED BY <1>4, <1>5

\* A rotation writes another gateway config for the same certificate, with the
\* root config of its admin where that changes, and keeps what it replaces.
LEMMA RotationBegins ==
    ASSUME StateTypeOK, RotationsInv, NEW o \in OverlapAsked, RotateUser(o) \/ RotateAdmin(o)
    PROVE  /\ command = "none" /\ command' = "rotate" /\ UNCHANGED <<disk, agreed>>
           /\ disk.gateway # NoFile
           /\ Plan(writes') /\ Plan(snaps')
           /\ \E g \in GatewayFiles, root \in BOOLEAN :
                /\ FileUsableAt("gateway", g, fresh', clock')
                /\ g.fingerprint = disk.gateway.fingerprint
                /\ ~root => g.admin = disk.gateway.admin
                /\ \A w : Has(writes', w) <=>
                     w = Put("gateway", g) \/ (root /\ w = Put("root", g.admin))
                /\ \A w : Has(snaps', w) <=>
                     w = Put("gateway", disk.gateway) \/ (root /\ w = Put("root", disk.root))
<1> DEFINE old == disk.gateway
<1>1. /\ command = "none" /\ command' = "rotate" /\ UNCHANGED <<disk, agreed>>
      /\ old # NoFile /\ fresh' = fresh + 1 /\ clock' = clock
  BY DEF RotateUser, RotateAdmin, Rotates
<1>2. old \in GatewayFiles /\ disk.root \in Rotations \cup {NoFile}
  BY <1>1 DEF StateTypeOK, Disks
<1>3. /\ old.user \in Rotations /\ old.admin \in Rotations /\ old.fingerprint \in Certificates
      /\ old = [user |-> old.user, admin |-> old.admin, fingerprint |-> old.fingerprint]
  BY <1>2 DEF GatewayFiles
<1>4. UsableAt(old.user, fresh, clock) /\ UsableAt(old.admin, fresh, clock)
  BY <1>1 DEF RotationsInv, FileUsableAt, Files
<1>5. /\ Rotated(old.user, o) \in Rotations /\ UsableAt(Rotated(old.user, o), fresh', clock')
      /\ Rotated(old.admin, o) \in Rotations /\ UsableAt(Rotated(old.admin, o), fresh', clock')
      /\ UsableAt(old.user, fresh', clock') /\ UsableAt(old.admin, fresh', clock')
  <2>1. fresh' \in Nat /\ fresh <= fresh' /\ clock' \in Nat /\ clock <= clock'
    BY <1>1 DEF StateTypeOK
  <2> QED BY <1>1, <1>3, <1>4, <2>1, RotatedIs, UsableLater
<1>6. ASSUME NEW g \in GatewayFiles, NEW root \in BOOLEAN,
             UsableAt(g.user, fresh', clock'), UsableAt(g.admin, fresh', clock'),
             g.fingerprint = old.fingerprint, ~root => g.admin = old.admin, Rotates(g, root)
      PROVE  /\ Plan(writes') /\ Plan(snaps')
             /\ FileUsableAt("gateway", g, fresh', clock')
             /\ \A w : Has(writes', w) <=>
                     w = Put("gateway", g) \/ (root /\ w = Put("root", g.admin))
             /\ \A w : Has(snaps', w) <=>
                     w = Put("gateway", disk.gateway) \/ (root /\ w = Put("root", disk.root))
  <2>1. g.admin \in Rotations \cup {NoFile}
    BY DEF GatewayFiles
  <2>2. writes' = RotationWrites(g, root, g.admin) /\ snaps' = RotationWrites(old, root, disk.root)
    BY <1>6 DEF Rotates, RotationWrites
  <2>3. FileUsableAt("gateway", g, fresh', clock')
    BY <1>6 DEF FileUsableAt
  <2>4. /\ Plan(RotationWrites(g, root, g.admin))
        /\ \A w : Has(RotationWrites(g, root, g.admin), w) <=>
             w = Put("gateway", g) \/ (root /\ w = Put("root", g.admin))
    BY <2>1, RotationPlan
  <2>5. /\ Plan(RotationWrites(old, root, disk.root))
        /\ \A w : Has(RotationWrites(old, root, disk.root), w) <=>
             w = Put("gateway", old) \/ (root /\ w = Put("root", disk.root))
    BY <1>2, RotationPlan
  <2> QED BY <2>2, <2>3, <2>4, <2>5
<1>7. CASE RotateUser(o)
  <2> DEFINE g == [old EXCEPT !.user = Rotated(@, o)]
  <2>1. /\ g \in GatewayFiles /\ g.user = Rotated(old.user, o)
        /\ g.admin = old.admin /\ g.fingerprint = old.fingerprint
    BY <1>3, <1>5 DEF GatewayFiles
  <2>2. Rotates(g, FALSE)
    BY <1>7 DEF RotateUser
  <2> HIDE DEF g
  <2>3. UsableAt(g.user, fresh', clock') /\ UsableAt(g.admin, fresh', clock')
    BY <2>1, <1>5 DEF UsableAt
  <2> QED BY <2>1, <2>2, <2>3, <1>1, <1>6
<1>8. CASE RotateAdmin(o)
  <2> DEFINE g == [old EXCEPT !.admin = Rotated(@, o)]
  <2>1. /\ g \in GatewayFiles /\ g.user = old.user
        /\ g.admin = Rotated(old.admin, o) /\ g.fingerprint = old.fingerprint
    BY <1>3, <1>5 DEF GatewayFiles
  <2>2. Rotates(g, TRUE)
    BY <1>8 DEF RotateAdmin
  <2> HIDE DEF g
  <2>3. UsableAt(g.user, fresh', clock') /\ UsableAt(g.admin, fresh', clock')
    BY <2>1, <1>5 DEF UsableAt
  <2> QED BY <2>1, <2>2, <2>3, <1>1, <1>6
<1> QED BY <1>7, <1>8

-----------------------------------------------------------------------------
(* The invariants *)

\* Which files a command writes: a rotation only those it has a snapshot of.
CommandInv ==
    /\ command = "none" => writes = <<>>
    /\ Writes(writes, "token") => command = "provision"
    /\ command = "rotate" => \A f \in Files : Writes(writes, f) => Writes(snaps, f)
    /\ command \in {"rotate", "rollback"} =>
         \A s \in {writes, snaps} : ~Writes(s, "crt") /\ ~Writes(s, "key") /\ ~Writes(s, "token")

\* The bearer a provision is about to persist, and the one it is about to hand out.
BearerInv ==
    /\ command = "provision" /\ Writes(writes, "gateway") /\ disk.gateway # NoFile =>
         After(disk, writes).gateway.user.current \in {disk.gateway.user.current} \cup SeedDigests
    /\ Writes(writes, "token") =>
         /\ After(disk, writes).gateway # NoFile
         /\ After(disk, writes).token = After(disk, writes).gateway.user.current

\* Every command leaves files that agree, as long as they agreed before it.
Agree(d) ==
    d.gateway # NoFile =>
        /\ d.crt = d.gateway.fingerprint
        /\ d.gateway.admin.current # NoDigest => d.root = d.gateway.admin
AgreedInv ==
    /\ command = "provision" \/ agreed => Agree(After(disk, writes))
    /\ command = "rotate" /\ agreed => Agree(After(disk, snaps))

StateInv == StateTypeOK /\ RotationsInv /\ CommandInv /\ BearerInv /\ AgreedInv

\* The step of a write, and how a command goes on after it.
Placing == [disk EXCEPT ![Head(writes).file] = Head(writes).value]
LEMMA WriteSteps ==
    ASSUME StateTypeOK, CommandInv, WriteSucceeds \/ WriteFails
    PROVE  /\ writes # <<>> /\ disk' \in {disk, Placing}
           /\ UNCHANGED <<oem, fresh, clock>>
           /\ \/ /\ disk' = Placing /\ writes' = Tail(writes) /\ UNCHANGED <<command, snaps>>
                 /\ agreed' => agreed
              \/ /\ command = "rollback" /\ writes' = Tail(writes) /\ UNCHANGED <<command, snaps>>
                 /\ ~agreed'
              \/ /\ command = "provision" /\ command' = "none" /\ writes' = <<>> /\ snaps' = <<>>
                 /\ ~agreed'
              \/ /\ command = "rotate" /\ command' = "rollback" /\ writes' = snaps
                 /\ UNCHANGED <<snaps, agreed>>
<1>1. CASE WriteSucceeds
  BY <1>1 DEF WriteSucceeds, Placed, Placing
<1>2. CASE WriteFails
  <2>1. writes # <<>> /\ disk' \in {disk, Placing} /\ UNCHANGED <<oem, fresh, clock>>
    BY <1>2 DEF WriteFails, Placed, Placing
  <2>2. CASE command = "provision"
    BY <1>2, <2>1, <2>2 DEF WriteFails
  <2>3. CASE command = "rotate"
    BY <1>2, <2>1, <2>3 DEF WriteFails, RestoredFiles
  <2>4. CASE command = "rollback"
    <3>1. /\ writes' = Tail(writes) /\ UNCHANGED <<command, snaps>>
          /\ agreed' = (agreed /\ disk'[Head(writes).file] = Head(writes).value)
      BY <1>2, <2>4 DEF WriteFails
    <3>2. CASE disk' = Placing
      BY <3>1, <3>2, <2>1
    <3>3. CASE disk' = disk /\ disk[Head(writes).file] = Head(writes).value
      <4>1. Head(writes).file \in Files
        BY <2>1, FirstWritten, PutIs DEF StateTypeOK
      <4>2. Placing = disk
        BY <4>1, <3>3, AsWritten DEF Placing, StateTypeOK
      <4> QED BY <4>2, <3>1, <3>3, <2>1
    <3>4. CASE disk' = disk /\ disk[Head(writes).file] # Head(writes).value
      BY <3>1, <3>4, <2>1, <2>4
    <3> QED BY <3>2, <3>3, <3>4, <2>1
  <2>5. command # "none"
    BY <2>1 DEF CommandInv
  <2> QED BY <2>2, <2>3, <2>4, <2>5 DEF StateTypeOK
<1> QED BY <1>1, <1>2

\* What a write does to the plan that it is the first of.
LEMMA PlacingIs ==
    ASSUME StateTypeOK, writes # <<>>
    PROVE  /\ Placing \in Disks /\ Plan(Tail(writes)) /\ Has(writes, Head(writes))
           /\ Head(writes) \in Puts /\ Head(writes).file \in Files
           /\ Writes(writes, Head(writes).file)
           /\ Placing[Head(writes).file] = Head(writes).value
           /\ \A f \in Files : f # Head(writes).file => Placing[f] = disk[f]
           /\ \A w : Has(Tail(writes), w) => Has(writes, w)
           /\ \A f : Writes(writes, f) <=> f = Head(writes).file \/ Writes(Tail(writes), f)
           /\ \A f : Writes(Tail(writes), f) => Rank(Head(writes).file) < Rank(f)
           /\ After(disk, writes)[Head(writes).file] = Head(writes).value
           /\ After(Placing, Tail(writes)) = After(disk, writes)
           /\ \A s : Writes(s, Head(writes).file) => After(Placing, s) = After(disk, s)
<1>1. disk \in Disks /\ Plan(writes)
  BY DEF StateTypeOK
<1>2. /\ Head(writes) \in Puts /\ Plan(Tail(writes)) /\ Writes(writes, Head(writes).file)
      /\ \A f : Writes(writes, f) <=> f = Head(writes).file \/ Writes(Tail(writes), f)
      /\ \A f : Writes(Tail(writes), f) => Rank(Head(writes).file) < Rank(f)
      /\ After(disk, writes)[Head(writes).file] = Head(writes).value
      /\ After(Placing, Tail(writes)) = After(disk, writes)
  BY <1>1, FirstWritten DEF Placing
<1>3. Head(writes).file \in Files
  BY <1>2, PutIs
<1>4. /\ Has(writes, Head(writes))
      /\ \A w : Has(Tail(writes), w) => Has(writes, w)
  BY <1>1, HasFirst
<1>5. /\ Placing \in Disks /\ Placing[Head(writes).file] = Head(writes).value
      /\ \A f \in Files : f # Head(writes).file => Placing[f] = disk[f]
  <2>1. Placing \in Disks
    BY <1>1, <1>2, PlacedIs DEF Placing
  <2>2. /\ Placing[Head(writes).file] = Head(writes).value
        /\ \A f \in Files : f # Head(writes).file => Placing[f] = disk[f]
    BY <1>1, <1>3, AsWritten DEF Placing
  <2> QED BY <2>1, <2>2
<1>6. \A s : Writes(s, Head(writes).file) => After(Placing, s) = After(disk, s)
  BY <1>1, <1>3, Rewritten DEF Placing
<1> QED BY <1>2, <1>3, <1>4, <1>5, <1>6

\* The variables keep their types, and every command writes a plan.
LEMMA StateTypeStep ==
    ASSUME StateTypeOK, RotationsInv, CommandInv, [StateNext]_stateVars
    PROVE  StateTypeOK'
<1> USE DEF StateTypeOK
<1>1. oem' \in Seeds /\ fresh' \in Nat /\ clock' \in Nat
  BY StateSteps
<1>2. CASE UNCHANGED <<disk, commandVars, agreed>>
  BY <1>1, <1>2 DEF commandVars
<1>3. CASE ProvisionBegins /\ command' = "provision"
  BY <1>1, <1>3, Provisions, NothingWritten
<1>4. CASE \E o \in OverlapAsked : RotateUser(o) \/ RotateAdmin(o)
  BY <1>1, <1>4, RotationBegins
<1>5. CASE WriteSucceeds \/ WriteFails
  BY <1>1, <1>5, WriteSteps, PlacingIs, NothingWritten
<1>6. CASE Completes \/ CommandKilled
  BY <1>1, <1>6, NothingWritten DEF Completes, CommandKilled
<1>7. CASE MachineBoots
  <2>1. [disk EXCEPT !.token = NoDigest] \in Disks
    BY DEF Disks, BearerDigests, NoDigest
  <2> QED BY <1>1, <1>7, <2>1, NothingWritten DEF MachineBoots
<1> QED BY <1>2, <1>3, <1>4, <1>5, <1>6, <1>7, StateSteps

\* A boot changes nothing but /run.
LEMMA BootIs ==
    ASSUME StateTypeOK, MachineBoots
    PROVE  \A f \in Files : f # "token" => disk'[f] = disk[f]
<1>1. "token" \in Files /\ disk' = [disk EXCEPT !["token"] = NoDigest] /\ disk \in Disks
  BY DEF MachineBoots, Files, StateTypeOK
<1> QED BY <1>1, AsWritten

\* No file, and no write to come, holds a rotation that validate refuses.
LEMMA RotationsStep ==
    ASSUME StateTypeOK, RotationsInv, CommandInv, [StateNext]_stateVars
    PROVE  RotationsInv'
<1> DEFINE Ok(f, v) == FileUsableAt(f, v, fresh, clock)
           Ok1(f, v) == FileUsableAt(f, v, fresh', clock')
<1>1. \A f \in Files : disk[f] \in Contents(f) \cup {NoFile}
  BY ContentsAre DEF StateTypeOK, Disks, Files
<1>2. /\ \A f \in Files : \A v \in Contents(f) : Ok(f, v) => Ok1(f, v)
      /\ \A f : Ok1(f, NoFile)
  BY StateSteps, UsableLater DEF FileUsableAt
<1>3. /\ \A f \in Files : Ok1(f, disk[f])
      /\ \A w : Has(writes, w) \/ Has(snaps, w) => Ok1(w.file, w.value)
  BY <1>1, <1>2, HasPut DEF RotationsInv, StateTypeOK
<1> HIDE DEF Ok, Ok1
<1>4. SUFFICES /\ \A f \in Files : Ok1(f, disk'[f])
               /\ \A w : Has(writes', w) \/ Has(snaps', w) => Ok1(w.file, w.value)
  BY DEF RotationsInv, Ok1
<1>5. \A w : ~Has(<<>>, w)
  BY DEF Has
<1>6. CASE UNCHANGED <<disk, commandVars, agreed>>
  BY <1>3, <1>6 DEF commandVars
<1>7. CASE ProvisionBegins /\ command' = "provision"
  <2>1. PICK crt, key \in Certificates :
                /\ Plan(writes')
                /\ \A w : Has(writes', w) <=>
                     \/ w \in {Put("crt", crt), Put("key", key), Put("gateway", NewGateway(crt))}
                     \/ NewAdmin.current # NoDigest /\ w = Put("root", NewAdmin)
                     \/ IsFirst /\ w = Put("token", NewUser.current)
    BY <1>7, Provisions
  <2>2. Ok1("crt", crt) /\ Ok1("key", key) /\ Ok1("token", NewUser.current)
    BY DEF Ok1, FileUsableAt
  <2>3. UsableAt(NewUser, fresh', clock') /\ UsableAt(NewAdmin, fresh', clock')
    <3>1. \A d \in BearerDigests : d \notin Nat \/ d <= fresh' => UsableAt(Only(d), fresh', clock')
      BY DEF UsableAt, Only
    <3>2. fresh' \in Nat /\ (IsFirst => fresh' = fresh + 1)
      BY <1>7, Provisions, StateSteps
    <3>3. disk.gateway # NoFile =>
            UsableAt(disk.gateway.user, fresh', clock') /\ UsableAt(disk.gateway.admin, fresh', clock')
      BY <1>3 DEF Ok1, FileUsableAt, Files
    <3>4. /\ Load(oem).user \in {NoDigest} \cup SeedDigests
          /\ Load(oem).admin \in {NoDigest} \cup SeedAdmins
          /\ \A d \in SeedDigests \cup SeedAdmins : d \in BearerDigests /\ d \notin Nat
      BY SeedRead, SeedsApart DEF StateTypeOK, BearerDigests
    <3>5. UsableAt(Only(fresh + 1), fresh', clock') \/ ~IsFirst
      BY <3>1, <3>2 DEF BearerDigests, StateTypeOK
    <3>6. UsableAt(NoAdmin, fresh', clock')
      BY <3>1, <3>2 DEF NoAdmin, BearerDigests, NoDigest
    <3>7. UsableAt(NewUser, fresh', clock')
      BY <3>1, <3>3, <3>4, <3>5 DEF NewUser, UserRotation, IsFirst
    <3>8. UsableAt(NewAdmin, fresh', clock')
      BY <3>1, <3>3, <3>4, <3>6 DEF NewAdmin, AdminRotation
    <3> QED BY <3>7, <3>8
  <2>4. Ok1("gateway", NewGateway(crt)) /\ Ok1("root", NewAdmin)
    BY <2>3 DEF Ok1, FileUsableAt, NewGateway
  <2>5. \A w : Has(writes', w) => Ok1(w.file, w.value)
    BY <2>1, <2>2, <2>4 DEF Put
  <2> QED BY <1>3, <1>5, <1>7, <2>5, Provisions
<1>8. CASE \E o \in OverlapAsked : RotateUser(o) \/ RotateAdmin(o)
  <2>1. disk' = disk
    BY <1>8, RotationBegins
  <2>2. PICK g \in GatewayFiles, root \in BOOLEAN :
                /\ FileUsableAt("gateway", g, fresh', clock')
                /\ \A w : Has(writes', w) <=>
                     w = Put("gateway", g) \/ (root /\ w = Put("root", g.admin))
                /\ \A w : Has(snaps', w) <=>
                     w = Put("gateway", disk.gateway) \/ (root /\ w = Put("root", disk.root))
    BY <1>8, RotationBegins
  <2>3. Ok1("gateway", g) /\ Ok1("root", g.admin)
    BY <2>2, NoFileApart DEF Ok1, FileUsableAt
  <2>4. Ok1("gateway", disk.gateway) /\ Ok1("root", disk.root)
    BY <1>3 DEF Files
  <2> QED BY <1>3, <2>1, <2>2, <2>3, <2>4 DEF Put
<1>9. CASE WriteSucceeds \/ WriteFails
  <2>1. \A f \in Files : Placing[f] \in {disk[f]} \/ (f = Head(writes).file /\ Placing[f] = Head(writes).value)
    BY <1>9, WriteSteps, PlacingIs
  <2>2. Ok1(Head(writes).file, Head(writes).value)
    BY <1>3, <1>9, WriteSteps, PlacingIs
  <2>3. \A f \in Files : Ok1(f, disk'[f])
    BY <2>1, <2>2, <1>3, <1>9, WriteSteps
  <2>4. \A w : Has(writes', w) \/ Has(snaps', w) => Ok1(w.file, w.value)
    BY <1>3, <1>5, <1>9, WriteSteps, PlacingIs
  <2> QED BY <2>3, <2>4
<1>10. CASE Completes \/ CommandKilled
  BY <1>3, <1>5, <1>10 DEF Completes, CommandKilled
<1>11. CASE MachineBoots
  <2>1. \A f \in Files : disk'[f] = disk[f] \/ f = "token"
    BY <1>11, BootIs
  <2>2. \A v : Ok1("token", v)
    BY DEF Ok1, FileUsableAt
  <2> QED BY <1>3, <1>5, <1>11, <2>1, <2>2 DEF MachineBoots
<1> QED BY <1>6, <1>7, <1>8, <1>9, <1>10, <1>11, StateSteps

\* What the plan of a provision makes of the disk.
LEMMA ProvisionAfter ==
    ASSUME StateTypeOK, ProvisionBegins, command' = "provision"
    PROVE  \E crt, key \in Certificates :
             /\ After(disk', writes').crt = crt /\ After(disk', writes').key = key
             /\ After(disk', writes').gateway = NewGateway(crt)
             /\ NewAdmin.current # NoDigest => After(disk', writes').root = NewAdmin
             /\ Writes(writes', "token") =>
                  IsFirst /\ After(disk', writes').token = NewUser.current
<1>1. PICK crt, key \in Certificates :
                /\ Plan(writes')
                /\ \A w : Has(writes', w) <=>
                     \/ w \in {Put("crt", crt), Put("key", key), Put("gateway", NewGateway(crt))}
                     \/ NewAdmin.current # NoDigest /\ w = Put("root", NewAdmin)
                     \/ IsFirst /\ w = Put("token", NewUser.current)
  BY Provisions
<1>2. \A w : Has(writes', w) => After(disk', writes')[w.file] = w.value
  BY <1>1, PlanHas
<1>3. \A f, v : Has(writes', Put(f, v)) => After(disk', writes')[f] = v
  BY <1>2 DEF Put
<1>4. Writes(writes', "token") => IsFirst
  BY <1>1, PlanHas DEF Put
<1>5. IsFirst => After(disk', writes').token = NewUser.current
  BY <1>1, <1>3
<1>6. NewAdmin.current # NoDigest => After(disk', writes').root = NewAdmin
  BY <1>1, <1>3
<1>7. /\ After(disk', writes').crt = crt /\ After(disk', writes').key = key
      /\ After(disk', writes').gateway = NewGateway(crt)
  BY <1>1, <1>3
<1> QED BY <1>1, <1>4, <1>5, <1>6, <1>7

LEMMA SameAfter ==
    ASSUME UNCHANGED <<disk, commandVars, agreed>>
    PROVE  /\ UNCHANGED <<disk, command, writes, snaps, agreed>>
           /\ After(disk', writes') = After(disk, writes)
           /\ After(disk', snaps') = After(disk, snaps)
BY DEF commandVars

\* A command keeps to its files.
LEMMA CommandStep ==
    ASSUME StateTypeOK, RotationsInv, CommandInv, [StateNext]_stateVars
    PROVE  CommandInv'
<1>1. \A f : ~Writes(<<>>, f)
  BY NothingWritten
<1>2. CASE UNCHANGED <<disk, commandVars, agreed>>
  BY <1>2 DEF commandVars, CommandInv, Writes
<1>3. CASE ProvisionBegins /\ command' = "provision"
  BY <1>3 DEF CommandInv
<1>4. CASE \E o \in OverlapAsked : RotateUser(o) \/ RotateAdmin(o)
  <2>1. command' = "rotate"
    BY <1>4, RotationBegins
  <2>2. PICK g \in GatewayFiles, root \in BOOLEAN :
                /\ Plan(writes') /\ Plan(snaps')
                /\ \A w : Has(writes', w) <=>
                     w = Put("gateway", g) \/ (root /\ w = Put("root", g.admin))
                /\ \A w : Has(snaps', w) <=>
                     w = Put("gateway", disk.gateway) \/ (root /\ w = Put("root", disk.root))
    BY <1>4, RotationBegins
  <2>3. /\ \A f : Writes(writes', f) <=> f = "gateway" \/ (root /\ f = "root")
        /\ \A f : Writes(snaps', f) <=> f = "gateway" \/ (root /\ f = "root")
    <3>1. /\ \A f : Writes(writes', f) <=> \E w : Has(writes', w) /\ w.file = f
          /\ \A f : Writes(snaps', f) <=> \E w : Has(snaps', w) /\ w.file = f
      BY <2>2, PlanHas
    <3>2. \A f, v : Put(f, v).file = f
      BY DEF Put
    <3> QED BY <2>2, <3>1, <3>2
  <2> QED BY <2>1, <2>3 DEF CommandInv
<1>5. CASE WriteSucceeds \/ WriteFails
  <2>1. \A f : Writes(Tail(writes), f) => Writes(writes, f)
    BY <1>5, WriteSteps, PlacingIs
  <2> QED BY <1>1, <2>1, <1>5, WriteSteps DEF CommandInv
<1>6. CASE Completes \/ CommandKilled \/ MachineBoots
  BY <1>1, <1>6 DEF Completes, CommandKilled, MachineBoots, CommandInv
<1> QED BY <1>2, <1>3, <1>4, <1>5, <1>6, StateSteps

\* The bearer to be persisted is the persisted one or the seed's, and the
\* token to be handed out is the bearer to be persisted.
LEMMA BearerStep ==
    ASSUME StateTypeOK, RotationsInv, CommandInv, BearerInv, [StateNext]_stateVars
    PROVE  BearerInv'
<1>1. \A f : ~Writes(<<>>, f)
  BY NothingWritten
<1>2. CASE UNCHANGED <<disk, commandVars, agreed>>
  BY <1>2, SameAfter DEF BearerInv
<1>3. CASE ProvisionBegins /\ command' = "provision"
  <2>1. UNCHANGED disk
    BY <1>3, Provisions
  <2>2. PICK crt \in Certificates :
           /\ After(disk', writes').gateway = NewGateway(crt)
           /\ Writes(writes', "token") =>
                  IsFirst /\ After(disk', writes').token = NewUser.current
    BY <1>3, ProvisionAfter
  <2>3. /\ NewGateway(crt).user = NewUser /\ NewGateway(crt) # NoFile
        /\ disk.gateway # NoFile => NewUser.current \in {disk.gateway.user.current} \cup SeedDigests
    BY NewRotations, NoFileApart DEF NewGateway
  <2>4. SeedDigests' = SeedDigests
    BY DEF SeedDigests
  <2> QED BY <2>1, <2>2, <2>3, <2>4 DEF BearerInv
<1>4. CASE \E o \in OverlapAsked : RotateUser(o) \/ RotateAdmin(o)
  BY <1>4, RotationBegins, CommandStep DEF BearerInv, CommandInv
<1>5. CASE WriteSucceeds \/ WriteFails
  <2> DEFINE h == Head(writes)
  <2>1. CASE command \in {"rotate", "rollback"}
    <3>1. command' \in {"rotate", "rollback"}
      BY <1>5, <2>1, WriteSteps
    <3> QED BY <3>1, CommandStep DEF BearerInv, CommandInv
  <2>2. CASE command = "provision" /\ command' = "none" /\ writes' = <<>>
    BY <2>2, <1>1 DEF BearerInv
  <2>3. CASE command = "provision" /\ disk' = Placing /\ writes' = Tail(writes)
    <3>1. After(disk', writes') = After(disk, writes)
      BY <1>5, <2>3, WriteSteps, PlacingIs
    <3>2. \A f : Writes(writes', f) => Writes(writes, f)
      BY <1>5, <2>3, WriteSteps, PlacingIs
    <3>3. Writes(writes', "gateway") => disk'.gateway = disk.gateway
      <4>1. Writes(writes', "gateway") => Rank(h.file) < Rank("gateway")
        BY <1>5, <2>3, WriteSteps, PlacingIs
      <4>2. Writes(writes', "gateway") => h.file # "gateway"
        BY <4>1, RanksAre
      <4> QED BY <4>2, <1>5, <2>3, WriteSteps, PlacingIs DEF Files
    <3> QED BY <3>1, <3>2, <3>3, <2>3 DEF BearerInv
  <2> QED BY <1>5, <2>1, <2>2, <2>3, WriteSteps DEF CommandInv, StateTypeOK
<1>6. CASE Completes \/ CommandKilled \/ MachineBoots
  <2>1. command' = "none" /\ writes' = <<>>
    BY <1>6 DEF Completes, CommandKilled, MachineBoots
  <2> QED BY <1>1, <2>1 DEF BearerInv
<1> QED BY <1>2, <1>3, <1>4, <1>5, <1>6, StateSteps

\* What a command, or its rollback, is about to leave agrees.
LEMMA AgreedStep ==
    ASSUME StateInv, [StateNext]_stateVars
    PROVE  AgreedInv'
<1> USE DEF StateInv
<1>1. \A d \in Disks : After(d, <<>>) = d
  BY NothingWritten
<1>2. CASE UNCHANGED <<disk, commandVars, agreed>>
  BY <1>2, SameAfter DEF AgreedInv, Agree
<1>3. CASE ProvisionBegins /\ command' = "provision"
  <2>1. ~agreed' /\ UNCHANGED disk
    BY <1>3, Provisions
  <2>2. PICK crt, key \in Certificates :
           /\ After(disk', writes').crt = crt /\ After(disk', writes').key = key
           /\ After(disk', writes').gateway = NewGateway(crt)
           /\ NewAdmin.current # NoDigest => After(disk', writes').root = NewAdmin
    BY <1>3, ProvisionAfter
  <2>3. NewGateway(crt).fingerprint = crt /\ NewGateway(crt).admin = NewAdmin
    BY DEF NewGateway
  <2>5. Agree(After(disk', writes'))
    BY <2>2, <2>3 DEF Agree
  <2> QED BY <2>1, <2>5 DEF AgreedInv, Agree
<1>4. CASE \E o \in OverlapAsked : RotateUser(o) \/ RotateAdmin(o)
  <2>1. /\ command = "none" /\ command' = "rotate" /\ UNCHANGED <<disk, agreed>>
        /\ disk.gateway # NoFile
    BY <1>4, RotationBegins
  <2> SUFFICES ASSUME agreed
               PROVE  Agree(After(disk', writes')) /\ Agree(After(disk', snaps'))
    BY <2>1 DEF AgreedInv, Agree
  <2>2. Agree(disk)
    <3>1. After(disk, writes) = disk
      BY <2>1, <1>1 DEF CommandInv, StateTypeOK
    <3> QED BY <3>1 DEF AgreedInv
  <2>3. PICK g \in GatewayFiles, root \in BOOLEAN :
                /\ Plan(writes') /\ Plan(snaps')
                /\ g.fingerprint = disk.gateway.fingerprint
                /\ ~root => g.admin = disk.gateway.admin
                /\ \A w : Has(writes', w) <=>
                     w = Put("gateway", g) \/ (root /\ w = Put("root", g.admin))
                /\ \A w : Has(snaps', w) <=>
                     w = Put("gateway", disk.gateway) \/ (root /\ w = Put("root", disk.root))
    BY <1>4, RotationBegins
  <2>4. \A f, v : /\ Has(writes', Put(f, v)) => After(disk, writes')[f] = v
                  /\ Has(snaps', Put(f, v)) => After(disk, snaps')[f] = v
    BY <2>3, PlanHas DEF Put
  <2>5. \A f : /\ Writes(writes', f) => f = "gateway" \/ (root /\ f = "root")
               /\ Writes(snaps', f) => f = "gateway" \/ (root /\ f = "root")
    BY <2>3, PlanHas DEF Put
  <2>6. /\ After(disk, writes').gateway = g /\ After(disk, snaps').gateway = disk.gateway
        /\ After(disk, writes').root = IF root THEN g.admin ELSE disk.root
        /\ After(disk, snaps').root = disk.root
    BY <2>3, <2>4, <2>5, Keeps DEF Files
  <2>7. /\ After(disk, writes').crt = disk.crt /\ After(disk, writes').key = disk.key
        /\ After(disk, snaps').crt = disk.crt /\ After(disk, snaps').key = disk.key
    BY <2>5, Keeps DEF Files
  <2> QED BY <2>1, <2>2, <2>3, <2>6, <2>7 DEF Agree
<1>5. CASE WriteSucceeds \/ WriteFails
  <2> DEFINE h == Head(writes)
  <2>1. CASE ~agreed' /\ command' # "provision"
    BY <2>1 DEF AgreedInv
  <2>2. CASE disk' = Placing /\ writes' = Tail(writes) /\ UNCHANGED <<command, snaps>> /\ (agreed' => agreed)
    <3>1. After(disk', writes') = After(disk, writes)
      BY <1>5, <2>2, WriteSteps, PlacingIs
    <3>2. command = "rotate" => Writes(snaps, h.file)
      BY <1>5, <2>2, WriteSteps, PlacingIs DEF CommandInv
    <3>3. command = "rotate" => After(disk', snaps') = After(disk, snaps)
      BY <3>2, <1>5, <2>2, WriteSteps, PlacingIs
    <3> QED BY <3>1, <3>3, <2>2 DEF AgreedInv, Agree
  <2>3. CASE command = "rotate" /\ command' = "rollback" /\ writes' = snaps /\ UNCHANGED <<snaps, agreed>>
    <3>1. Writes(snaps, h.file)
      BY <1>5, <2>3, WriteSteps, PlacingIs DEF CommandInv
    <3>2. After(disk', snaps) = After(disk, snaps)
      BY <3>1, <1>5, WriteSteps, PlacingIs
    <3> QED BY <3>2, <2>3 DEF AgreedInv, Agree
  <2> QED BY <1>5, <2>1, <2>2, <2>3, WriteSteps
<1>6. CASE Completes
  <2>1. writes = <<>> /\ writes' = <<>> /\ disk' = disk /\ command' = "none"
        /\ (agreed' => agreed \/ command = "provision")
    BY <1>6 DEF Completes
  <2> QED BY <2>1 DEF AgreedInv, Agree, After, Writes
<1>7. CASE CommandKilled
  BY <1>7 DEF CommandKilled, AgreedInv
<1>8. CASE MachineBoots
  <2>1. writes' = <<>> /\ command' = "none" /\ (agreed' => agreed /\ command = "none")
    BY <1>8 DEF MachineBoots
  <2> SUFFICES ASSUME agreed' PROVE Agree(After(disk', writes'))
    BY <2>1 DEF AgreedInv, Agree
  <2>2. After(disk, writes) = disk /\ Agree(disk)
    BY <2>1, <1>1 DEF AgreedInv, CommandInv, StateTypeOK
  <2>3. After(disk', writes') = disk'
    BY <2>1, <1>1, StateTypeStep DEF StateTypeOK
  <2>4. disk'.crt = disk.crt /\ disk'.key = disk.key /\ disk'.gateway = disk.gateway /\ disk'.root = disk.root
    BY <1>8, BootIs DEF Files
  <2> QED BY <2>2, <2>3, <2>4 DEF Agree
<1> QED BY <1>2, <1>3, <1>4, <1>5, <1>6, <1>7, <1>8, StateSteps

\* A machine that was never provisioned is sound.
LEMMA StateBegins ==
    ASSUME StateInit PROVE StateInv
<1> USE DEF StateInit
<1>1. disk \in Disks
  BY DEF Disks, BearerDigests, Certificates, NoDigest
<1>2. Plan(<<>>) /\ (\A f : ~Writes(<<>>, f)) /\ (\A w : ~Has(<<>>, w)) /\ After(disk, <<>>) = disk
  BY <1>1, NothingWritten DEF Has
<1>3. StateTypeOK
  BY <1>1, <1>2 DEF StateTypeOK
<1>4. RotationsInv
  BY <1>2 DEF RotationsInv, FileUsableAt, Files
<1>5. CommandInv /\ BearerInv
  BY <1>2 DEF CommandInv, BearerInv
<1>6. AgreedInv
  BY DEF AgreedInv
<1> QED BY <1>3, <1>4, <1>5, <1>6 DEF StateInv

\* Wherever a command is killed, whichever write fails, before or after its
\* rename, and whatever the seed becomes, the disk and the writes to come are
\* sound.
THEOREM StateIsSound == StateSpec => []StateInv
<1>1. StateInit => StateInv
  BY StateBegins
<1>2. StateInv /\ [StateNext]_stateVars => StateInv'
  BY StateTypeStep, RotationsStep, CommandStep, BearerStep, AgreedStep DEF StateInv
<1> QED BY <1>1, <1>2, PTL DEF StateSpec

\* What is on the disk a service can be given.
LEMMA OnDiskIsValid ==
    ASSUME StateInv, disk.gateway # NoFile
    PROVE  Valid(disk.gateway.user) /\ Valid(disk.gateway.admin)
<1>1. disk.gateway \in GatewayFiles /\ UsableAt(disk.gateway.user, fresh, clock)
      /\ UsableAt(disk.gateway.admin, fresh, clock)
  BY DEF StateInv, StateTypeOK, RotationsInv, FileUsableAt, Files, Disks
<1>2. ASSUME NEW r \in Rotations, UsableAt(r, fresh, clock) PROVE Valid(r)
  BY <1>2, StateBounds DEF UsableAt, Valid, Rotations, StateInv, StateTypeOK
<1> QED BY <1>1, <1>2 DEF GatewayFiles

\* When no write is to come, the disk is what the writes leave.
LEMMA DiskAgrees ==
    ASSUME StateInv PROVE FilesAgree
<1> SUFFICES ASSUME agreed, command = "none", disk.gateway # NoFile
             PROVE  /\ disk.crt = disk.gateway.fingerprint
                    /\ disk.gateway.admin.current # NoDigest => disk.root = disk.gateway.admin
                    /\ Valid(disk.gateway.user) /\ Valid(disk.gateway.admin)
  BY DEF FilesAgree
<1>1. After(disk, writes) = disk
  BY NothingWritten DEF StateInv, StateTypeOK, CommandInv
<1>2. Agree(disk)
  BY <1>1 DEF StateInv, AgreedInv
<1> QED BY <1>2, OnDiskIsValid DEF Agree

\* Between commands, when a provision has completed and no rotation was
\* killed or left half rolled back: both services expect the same admin
\* bearer, the fingerprint is that of the certificate, and both rotations
\* pass validate, for every seed, with a pair of its own or without, and
\* whatever a read of the persisted pair gives (state.go, Materialize and
\* rotate).
THEOREM AdminsAlwaysAgree == StateSpec => []FilesAgree
<1>1. StateInv => FilesAgree
  BY DiskAgrees
<1> QED BY <1>1, StateIsSound, PTL

\* The persisted user bearer changes only by a rotation or by the seed, and
\* the token of the first run is the persisted bearer's, on every path
\* through a failed, killed or repeated provision (Materialize, state.go).
THEOREM BearersAreKept == StateSpec => UserBearerIsKept
<1>1. StateInv /\ [StateNext]_stateVars =>
        [/\ disk.gateway # NoFile =>
            /\ disk'.gateway # NoFile
            /\ \/ disk'.gateway.user.current = disk.gateway.user.current
               \/ disk'.gateway.user.current \in SeedDigests
               \/ command \in {"rotate", "rollback"}
         /\ disk'.token # disk.token /\ disk'.token # NoDigest =>
            disk'.token = disk'.gateway.user.current]_stateVars
  <2> SUFFICES ASSUME StateInv, [StateNext]_stateVars
        PROVE
         /\ disk.gateway # NoFile =>
            /\ disk'.gateway # NoFile
            /\ \/ disk'.gateway.user.current = disk.gateway.user.current
               \/ disk'.gateway.user.current \in SeedDigests
               \/ command \in {"rotate", "rollback"}
         /\ disk'.token # disk.token /\ disk'.token # NoDigest =>
            disk'.token = disk'.gateway.user.current
    OBVIOUS
  <2> USE DEF StateInv
  <2>1. CASE disk' = disk
    BY <2>1
  <2>2. CASE MachineBoots
    <3>1. disk'.gateway = disk.gateway
      BY <2>2, BootIs DEF Files
    <3>2. disk'.token = NoDigest
      BY <2>2 DEF MachineBoots, StateTypeOK, Disks
    <3> QED BY <3>1, <3>2
  <2>3. CASE (WriteSucceeds \/ WriteFails) /\ disk' = Placing
    <3> DEFINE h == Head(writes)
    <3>0. writes # <<>> /\ command # "none"
      BY <2>3, WriteSteps DEF CommandInv
    <3>1. CASE h.file = "gateway"
      <4>1. /\ disk'.gateway = h.value /\ h.value = After(disk, writes).gateway
            /\ disk'.token = disk.token /\ Writes(writes, "gateway")
        BY <2>3, <3>0, <3>1, PlacingIs DEF Files
      <4>2. disk'.gateway # NoFile
        BY <4>1, <3>0, <3>1, PlacingIs, PutIs, ContentsAre, NoFileApart
      <4> QED BY <4>1, <4>2, <3>0 DEF BearerInv, StateTypeOK
    <3>2. CASE h.file = "token"
      <4>1. /\ disk'.token = After(disk, writes).token /\ Writes(writes, "token")
            /\ disk'.gateway = disk.gateway
        BY <2>3, <3>0, <3>2, PlacingIs DEF Files
      <4>2. ~Writes(writes, "gateway")
        BY <3>0, <3>2, PlacingIs, RanksAre
      <4>3. After(disk, writes).gateway = disk.gateway
        BY <4>2, Keeps DEF Files
      <4> QED BY <4>1, <4>3 DEF BearerInv
    <3>3. CASE h.file \notin {"gateway", "token"}
      <4>1. disk'.gateway = disk.gateway /\ disk'.token = disk.token
        BY <2>3, <3>0, <3>3, PlacingIs DEF Files
      <4> QED BY <4>1
    <3> QED BY <3>1, <3>2, <3>3
  <2>4. disk' = disk \/ MachineBoots \/ ((WriteSucceeds \/ WriteFails) /\ disk' = Placing)
    BY StateSteps, Provisions, RotationBegins, WriteSteps DEF Completes, CommandKilled
  <2> QED BY <2>1, <2>2, <2>3, <2>4
<1> QED BY <1>1, StateIsSound, PTL DEF StateSpec, UserBearerIsKept
===============================================================================
