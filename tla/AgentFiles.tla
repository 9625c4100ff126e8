------------------------------ MODULE AgentFiles ------------------------------
(***************************************************************************)
(* The file tools of the agent (agent/internal/files/service.go): one      *)
(* patch of several files beside one write, on a disk that may lose power. *)
(* Read and Search change nothing and are operators.                       *)
(*                                                                         *)
(* A version of a file is the set of edits it holds: the entry numbers of  *)
(* the patch, or the text of the write.  Planning sees what the disk holds *)
(* then; whether the old text is found in it is left open.                 *)
(***************************************************************************)
EXTENDS Integers, Sequences, SequencesExt, FiniteSets

CONSTANTS Paths,
          PatchLength   \* bound: entries of the patch

ASSUME FilesBound == PatchLength \in Nat \ {0}

Entries == 1 .. PatchLength
Written == {0}                          \* the text of the write
Torn == {-1}                            \* an inode whose data never reached the disk
Absent == {-2}
Versions == (SUBSET Entries) \cup {Written, Torn, Absent}

VARIABLES
    file,       \* what each path names
    keeps,      \* what a power loss may leave there
    patch,      \* PatchInput.Files: the path of each entry
    plans,      \* the original of each entry planned so far
    step,       \* where Patch is
    entry,      \* the entry it is at
    restore,    \* entries that rollbackPatch still has to restore
    unrestored, \* failedRestores
    backups,    \* entries whose backup file is on disk
    patchTmp, writeTmp,  \* the temporary files of the two calls
    target,     \* WriteFileInput.Path, or none
    disturbed   \* paths changed by others since Patch planned them

patching == <<patch, plans, step, entry, restore, unrestored, backups, patchTmp>>
writing == <<target, writeTmp>>
filesVars == <<file, keeps, patching, writing, disturbed>>

Tmp == {"none", "dirty", "synced", "renamed"}
Ends == {"ok", "refused", "undone", "incomplete", "lost"}

FilesInit ==
    /\ file \in [Paths -> {{}, Absent}] /\ keeps = [p \in Paths |-> {file[p]}]
    /\ patch = <<>> /\ plans = <<>> /\ step = "idle" /\ entry = 1
    /\ restore = {} /\ unrestored = {} /\ backups = {} /\ patchTmp = "none"
    /\ target = "none" /\ writeTmp = "none" /\ disturbed = {}

-----------------------------------------------------------------------------
(* replaceFile: the temporary file is written, synced, renamed; then the   *)
(* directory is synced.  A failure before the rename removes it.           *)

\* Chmod comes between the write and the sync, Chown after it.
MayRename_unsynced(tmp) == tmp \in {"dirty", "synced"}
MayRename(tmp) == tmp = "synced"

Prepares(tmp, next) ==
    \/ tmp = "none" /\ next = "dirty"
    \/ tmp = "dirty" /\ next = "synced"

\* The name changes at once, on the disk maybe only later.
Rename(p, v, tmp) ==
    /\ MayRename(tmp)
    /\ file' = [file EXCEPT ![p] = v]
    /\ keeps' = [keeps EXCEPT ![p] = @ \cup {IF tmp = "synced" THEN v ELSE Torn}]

\* The best-effort sync of the directory, when it works.
DirSynced(p) == keeps' = [keeps EXCEPT ![p] = {file[p]}]

-----------------------------------------------------------------------------
(* Write *)

\* A directory or a symlink is no path here: the call is refused.
WriteBegins ==
    /\ target = "none"
    /\ target' \in Paths
    /\ UNCHANGED <<file, keeps, patching, writeTmp, disturbed>>

WritePrepares ==
    /\ target \in Paths /\ Prepares(writeTmp, writeTmp')
    /\ UNCHANGED <<file, keeps, patching, target, disturbed>>

WriteRenames ==
    /\ target \in Paths /\ Rename(target, Written, writeTmp)
    /\ writeTmp' = "renamed" /\ disturbed' = disturbed \cup {target}
    /\ UNCHANGED <<patching, target>>

WriteEnd ==
    /\ target \in Paths /\ target' = "done" /\ writeTmp' = "none"
    /\ (writeTmp = "renamed" /\ DirSynced(target)) \/ UNCHANGED keeps
    /\ UNCHANGED <<file, patching, disturbed>>

-----------------------------------------------------------------------------
(* Patch *)

HasDuplicate(s) == ~IsInjective(s)

PatchBegins ==
    /\ step = "idle"
    /\ patch' \in [Entries -> Paths]
    /\ step' = IF HasDuplicate(patch') THEN "refused" ELSE "plan"
    /\ UNCHANGED <<file, keeps, plans, entry, restore, unrestored, backups, patchTmp, writing, disturbed>>

\* One entry is read and edited in memory; the text may not be found, be
\* ambiguous or too large, and an absent file is refused.
PatchPlans ==
    /\ step = "plan"
    /\ LET p == patch[entry] IN
       \/ /\ file[p] # Absent
          /\ plans' = Append(plans, file[p])
          /\ disturbed' = disturbed \ {p}
          /\ entry' = IF entry = PatchLength THEN 1 ELSE entry + 1
          /\ step' = IF entry = PatchLength THEN "backup" ELSE "plan"
       \/ step' = "refused" /\ UNCHANGED <<plans, disturbed, entry>>
    /\ UNCHANGED <<file, keeps, patch, restore, unrestored, backups, patchTmp, writing>>

\* Entries that were replaced before a failure at entry i.
Replaced_oneShort(i) == 1 .. (i - 2)
Replaced(i) == 1 .. (i - 1)

RollsBack == step' = "rollback" /\ restore' = Replaced(entry) /\ patchTmp' = "none"

\* os.WriteFile of the backup; a failed one may leave a file nobody removes.
BackupWrites ==
    /\ step = "backup"
    /\ \/ backups' = backups \cup {entry} /\ step' = "replace" /\ UNCHANGED <<restore, patchTmp>>
       \/ RollsBack /\ UNCHANGED backups
    /\ UNCHANGED <<file, keeps, patch, plans, entry, unrestored, writing, disturbed>>

ReplaceStep ==
    /\ step = "replace"
    /\ \/ /\ Prepares(patchTmp, patchTmp') /\ UNCHANGED <<file, keeps, step, entry, restore>>
       \/ /\ Rename(patch[entry], plans[entry] \cup {entry}, patchTmp)
          /\ patchTmp' = "renamed" /\ UNCHANGED <<step, entry, restore>>
       \/ /\ patchTmp = "renamed" /\ patchTmp' = "none"
          /\ DirSynced(patch[entry]) \/ UNCHANGED keeps
          /\ entry' = IF entry = PatchLength THEN entry ELSE entry + 1
          /\ step' = IF entry = PatchLength THEN "ok" ELSE "backup"
          /\ UNCHANGED <<file, restore>>
       \/ /\ patchTmp # "renamed" /\ RollsBack
          /\ UNCHANGED <<file, keeps, entry>>
    /\ UNCHANGED <<patch, plans, unrestored, backups, writing, disturbed>>

\* rollbackPatch, one file after the other; a failure goes on to the next.
Restores(e, p) ==
    LET goesOn == restore' = restore \ {e} /\ patchTmp' = "none"
    IN  \/ /\ Prepares(patchTmp, patchTmp') /\ UNCHANGED <<file, keeps, restore, unrestored>>
        \/ /\ Rename(p, plans[e], patchTmp)
           /\ patchTmp' = "renamed" /\ UNCHANGED <<restore, unrestored>>
        \/ /\ patchTmp = "renamed" /\ goesOn
           /\ DirSynced(p) \/ UNCHANGED keeps
           /\ UNCHANGED <<file, unrestored>>
        \/ /\ patchTmp # "renamed" /\ goesOn
           /\ unrestored' = unrestored \cup {p} /\ UNCHANGED <<file, keeps>>

RollbackStep ==
    /\ step = "rollback"
    /\ \E e \in restore : (\A j \in restore : e <= j) /\ Restores(e, patch[e])
    /\ UNCHANGED <<patch, plans, step, entry, backups, writing, disturbed>>

RollbackEnds ==
    /\ step = "rollback" /\ restore = {}
    /\ step' = IF unrestored = {} THEN "undone" ELSE "incomplete"
    /\ UNCHANGED <<file, keeps, patch, plans, entry, restore, unrestored, backups, patchTmp, writing, disturbed>>

\* cleanupBackups, whatever the result, and whether a restore failed or not.
Cleanup ==
    /\ step \in {"ok", "undone", "incomplete"} /\ backups # {}
    /\ backups' = {}
    /\ UNCHANGED <<file, keeps, patch, plans, step, entry, restore, unrestored, patchTmp, writing, disturbed>>

-----------------------------------------------------------------------------
(* The process is killed, or the power is lost *)

CallsGone ==
    /\ step # "lost" /\ step' = IF step \in Ends THEN step ELSE "lost"
    /\ target' = "done" /\ writeTmp' = "none" /\ patchTmp' = "none"
    /\ UNCHANGED <<patch, plans, entry, restore, unrestored, backups>>

Kill == CallsGone /\ UNCHANGED <<file, keeps, disturbed>>

PowerLoss ==
    /\ CallsGone
    /\ \E f \in [Paths -> UNION {keeps[p] : p \in Paths}] :
         /\ \A p \in Paths : f[p] \in keeps[p]
         /\ file' = f /\ keeps' = [p \in Paths |-> {f[p]}]
    /\ disturbed' = Paths

FilesNext ==
    \/ WriteBegins \/ WritePrepares \/ WriteRenames \/ WriteEnd
    \/ PatchBegins \/ PatchPlans \/ BackupWrites \/ ReplaceStep
    \/ RollbackStep \/ RollbackEnds \/ Cleanup \/ Kill \/ PowerLoss

FilesSpec == FilesInit /\ [][FilesNext]_filesVars

-----------------------------------------------------------------------------
(* Read and Search *)

\* Read from offset: at most the limit, DefaultReadBytes when there is none, and
\* never more than MaxReadBytes.  size is what Stat said before Open; a cut that
\* the caller did not ask for is also a code.
NoLimit == -1
Slice(s, from, n) == SubSeq(s, from + 1, IF from + n > Len(s) THEN Len(s) ELSE from + n)

Read(content, size, offset, limit, default, max) ==
    LET clamped == limit > max
        most == IF limit = NoLimit THEN default ELSE IF clamped THEN max ELSE limit
        data == Slice(content, offset, most)
        cut == offset + Len(data) < size
    IN  [data |-> data, truncated |-> cut, code |-> cut /\ (limit = NoLimit \/ clamped)]

\* Search walks the files in order; hits[f] are the lines of f that match (at
\* most one, by name).  It stops as soon as it has max of them.
Search(walk, hits, max) ==
    LET Visit(found, f) == IF Len(found) = max THEN found ELSE Slice(found \o hits[f], 0, max)
        matches == FoldLeft(Visit, <<>>, walk)
    IN  [matches |-> matches, truncated |-> Len(matches) = max]

-----------------------------------------------------------------------------
(* Properties *)

\* Whoever reads a path, also after a power loss at any step of a write, a
\* patch or a rollback, sees a version somebody wrote.
NeverTorn == \A p \in Paths : file[p] # Torn

\* A patch that answers has applied every edit, or, unless it names a file it
\* could not restore, none; in files nobody else has touched meanwhile.
PatchIsAllOrNothing ==
    \A e \in DOMAIN patch :
        patch[e] \notin disturbed =>
            /\ step = "ok" => e \in file[patch[e]]
            /\ step \in {"undone", "incomplete"} =>
                  (e \notin file[patch[e]] \/ patch[e] \in unrestored)
=============================================================================
