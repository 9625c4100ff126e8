---------------------------- MODULE UpdateDaemon ----------------------------
(***************************************************************************)
(* The one update job of the machine (update/daemon.go): the Daemon        *)
(* object, the files it keeps, the kairos-agent run it starts, and the     *)
(* machine that reboots under it.                                          *)
(*                                                                         *)
(* A thread is a goroutine: a D-Bus call (Check, Reboot, RebootPrevious)   *)
(* or the job that Apply starts.  One action is one critical section of    *)
(* Daemon.mu, or one call made while no lock is held.  The job pointer     *)
(* d.job is the thread that owns it.  Calls that finish under one lock     *)
(* (Apply, Cancel) take no thread of their own.                            *)
(*                                                                         *)
(* A definition X_bug just before X is X with a plausible mistake.  Nothing *)
(* uses it; with it in X's place, a property named in the README fails.    *)
(***************************************************************************)
EXTENDS Integers, FiniteSets

CONSTANTS Threads,     \* goroutines alive at one time (a bound)
          NoThread,    \* d.job = nil
          Images,      \* images, named by their version
          Tags,        \* versions the release list may start with
          MaxBoots,    \* bound: boots after the first
          MaxReboots   \* bound: Reboot and RebootPrevious calls per boot

Missing == -1          \* no image; also "no tag is known"

ASSUME ImagesAssumption == Images \subseteq Nat /\ Tags \subseteq Images
ASSUME ThreadsAssumption == NoThread \notin Threads
ASSUME BoundsAssumption == MaxBoots \in Nat /\ MaxReboots \in Nat

VARIABLES
    \* the Daemon object, lost when its process ends
    up, managed, state, pending, latest, job, rebooting,
    \* what a thread does next, and its local variables
    pc, prev, reviewed, source,
    \* files: the first two in a tmpfs, the pin on disk
    marker, latestFile, pinned,
    \* the machine
    active, passive, running, fellBack, oneShot, shutting,
    \* kairos-agent runs since the boot, and what the bounds count
    runs, boots, reboots

daemon == <<up, managed, state, pending, latest, job, rebooting>>
locals == <<pc, prev, reviewed, source>>
files == <<marker, latestFile, pinned>>
slots == <<active, passive, running, fellBack>>
counters == <<runs, boots, reboots>>
vars == <<daemon, locals, files, slots, oneShot, shutting, counters>>

Words == {"started", "installed", "failed"}
Quiet == {"idle", "up-to-date", "update-available", "error", "unmanaged"}
States == Quiet \cup {"checking", "inspecting", "applying", "reboot-pending"}

\* The pcs of a thread whose kairos-agent child runs, and of one that has
\* written the marker and not yet reported how the install ended.
AgentRuns == {"upgrade", "swapped", "written"}
Installing == AgentRuns \cup {"arm", "failed", "failEnd", "done", "marked", "noted"}
NetSlot == {"fetch", "peek"}
PCs == {"idle", "eval", "reboot", "select", "restart"} \cup NetSlot \cup Installing

DaemonOK ==
    /\ up \in BOOLEAN /\ managed \in BOOLEAN /\ rebooting \in BOOLEAN
    /\ state \in States
    /\ pending \in Words \cup {""}
    /\ latest \in Tags \cup {Missing}
    /\ job \in Threads \cup {NoThread}

LocalsOK ==
    /\ pc \in [Threads -> PCs]
    /\ prev \in [Threads -> Quiet]
    /\ reviewed \in [Threads -> Images \cup {Missing}]
    /\ source \in [Threads -> Images \cup {Missing}]

FilesOK ==
    /\ marker \in Words \cup {"none"}
    /\ latestFile \in Tags \cup {Missing}
    /\ pinned \in BOOLEAN

MachineOK ==
    /\ active \in Images \cup {Missing}
    /\ passive \in Images
    /\ running \in Images
    /\ fellBack \in BOOLEAN /\ oneShot \in BOOLEAN /\ shutting \in BOOLEAN
    /\ runs \in Nat /\ boots \in Nat /\ reboots \in Nat

(* Every variable is in its set.                                            *)
TypeOK == DaemonOK /\ LocalsOK /\ FilesOK /\ MachineOK

-----------------------------------------------------------------------------
(* Helpers *)

busy == state \in {"checking", "inspecting", "applying"}

\* The job is over.
JobDone_kept == UNCHANGED job
JobDone == job' = NoThread

\* Thread t goes on at pc p, or starts there.
Goto(t, p) == pc' = [pc EXCEPT ![t] = p]

\* Thread t returns; its locals are gone.
Return(t) ==
    /\ Goto(t, "idle")
    /\ prev' = [prev EXCEPT ![t] = "idle"]
    /\ reviewed' = [reviewed EXCEPT ![t] = Missing]
    /\ source' = [source EXCEPT ![t] = Missing]

\* setLatestLocked: a failed write only costs the file.
SetLatest(tag) ==
    /\ latest' = tag
    /\ latestFile' \in IF tag = latest THEN {latestFile} ELSE {latestFile, tag}

\* The newest tag of the list a fetch returned, if it has one.
Fetched == Tags \cup {Missing}

\* writeRebootMarker goes through a rename: all or nothing, and it may fail.
TryMark(word) == marker' \in {marker, word}

\* The daemon's process and every goroutine are gone.  kairos-agent goes with
\* them: systemd kills the rest of the unit's cgroup.
AllThreadsGone ==
    /\ pc' = [t \in Threads |-> "idle"]
    /\ prev' = [t \in Threads |-> "idle"]
    /\ reviewed' = [t \in Threads |-> Missing]
    /\ source' = [t \in Threads |-> Missing]

\* The zero value of a Daemon that no process holds.
NoDaemon ==
    /\ up' = FALSE
    /\ state' = "idle"
    /\ pending' = ""
    /\ latest' = Missing
    /\ job' = NoThread
    /\ rebooting' = FALSE
    /\ AllThreadsGone

-----------------------------------------------------------------------------
Init ==
    /\ up = FALSE /\ managed \in BOOLEAN
    /\ state = "idle" /\ pending = "" /\ latest = Missing
    /\ job = NoThread /\ rebooting = FALSE
    /\ pc = [t \in Threads |-> "idle"]
    /\ prev = [t \in Threads |-> "idle"]
    /\ reviewed = [t \in Threads |-> Missing]
    /\ source = [t \in Threads |-> Missing]
    /\ marker = "none" /\ latestFile = Missing /\ pinned = FALSE
    /\ active \in Images /\ passive \in Images
    /\ running = active /\ fellBack = FALSE
    /\ oneShot = FALSE /\ shutting = FALSE
    /\ runs = 0 /\ boots = 0 /\ reboots = 0

(* NewDaemon, in the process a D-Bus call activates.  A marker that cannot  *)
(* be read, or read as no known word, is "started".                         *)
ReadMarker_verbatim == IF marker = "none" THEN {"none"} ELSE {marker, "unknown"}
ReadMarker_trusting == IF marker = "none" THEN {"none"} ELSE {marker, "none"}

ReadMarker == IF marker = "none" THEN {"none"} ELSE {marker, "started"}

Start ==
    /\ ~up /\ ~shutting
    /\ up' = TRUE
    /\ IF managed
       THEN \E word \in ReadMarker :
               /\ latest' = latestFile
               /\ state' = IF word = "none" THEN "idle" ELSE "reboot-pending"
               /\ pending' = IF word = "none" THEN "" ELSE word
       ELSE state' = "unmanaged" /\ UNCHANGED <<latest, pending>>
    /\ UNCHANGED <<managed, job, rebooting, locals, files, slots, oneShot, shutting, counters>>

(* The process ends: a crash, a kill, the idle exit, the stop that a        *)
(* shutdown asks for.                                                       *)
Die ==
    /\ up
    /\ NoDaemon
    /\ UNCHANGED <<managed, files, slots, oneShot, shutting, counters>>

-----------------------------------------------------------------------------
(* Check.  The bus service admits one network call at a time.              *)

\* While an install waits for its reboot, a check only learns the newest tag.
Peeks_never == FALSE
Peeks == state = "reboot-pending"

Check(t) ==
    /\ up /\ managed /\ pc[t] = "idle"
    /\ \A u \in Threads : pc[u] \notin NetSlot
    /\ ~busy
    /\ IF Peeks
       THEN Goto(t, "peek") /\ UNCHANGED <<prev, job, state>>
       ELSE /\ Goto(t, "fetch")
            /\ prev' = [prev EXCEPT ![t] = state]
            /\ job' = t
            /\ state' = "checking"
    /\ UNCHANGED <<up, managed, pending, latest, rebooting, reviewed, source>>
    /\ UNCHANGED <<files, slots, oneShot, shutting, counters>>

\* The answer while a reboot is pending touches nothing but the newest tag.
PeekEnds(t) ==
    /\ pc[t] = "peek"
    /\ Return(t)
    /\ \/ UNCHANGED <<latest, latestFile>>
       \/ \E tag \in Fetched : SetLatest(tag)
    /\ UNCHANGED <<up, managed, state, pending, job, rebooting, marker, pinned>>
    /\ UNCHANGED <<slots, oneShot, shutting, counters>>

\* d.job # j: Cancel already restored the state before.
Abandoned_never(t) == FALSE
Abandoned(t) == job # t

\* A pin means the user chose this image: no update is announced.
Announces_any(tag) == ~pinned /\ tag # running
Announces(tag) == ~pinned /\ tag > running

CheckEnds(t) ==
    /\ pc[t] = "fetch"
    /\ Return(t)
    /\ IF Abandoned(t)
       THEN UNCHANGED <<job, state, latest, latestFile>>
       ELSE /\ JobDone
            /\ \/ state' = "error" /\ UNCHANGED <<latest, latestFile>>
               \/ \E tag \in Fetched :
                    /\ SetLatest(tag)
                    /\ state' = IF Announces(tag) THEN "update-available" ELSE "up-to-date"
    /\ UNCHANGED <<up, managed, pending, rebooting, marker, pinned>>
    /\ UNCHANGED <<slots, oneShot, shutting, counters>>

-----------------------------------------------------------------------------
(* Apply and the job it starts.                                             *)

ApplyRefused_overPending == ~managed \/ rebooting \/ busy
ApplyRefused == ~managed \/ rebooting \/ state = "reboot-pending" \/ busy

Apply(t, digest) ==
    /\ up /\ pc[t] = "idle"
    /\ ~ApplyRefused
    /\ Goto(t, "eval")
    /\ prev' = [prev EXCEPT ![t] = state]
    /\ reviewed' = [reviewed EXCEPT ![t] = digest]
    /\ job' = t
    /\ state' = "inspecting"
    /\ UNCHANGED <<up, managed, pending, latest, rebooting, source>>
    /\ UNCHANGED <<files, slots, oneShot, shutting, counters>>

\* run, when evaluate is back and the job was cancelled meanwhile.
RunAbandoned(t) ==
    /\ pc[t] = "eval"
    /\ Abandoned(t)
    /\ Return(t)
    /\ UNCHANGED <<daemon, files, slots, oneShot, shutting, counters>>

\* evaluate refused or failed, the tag moved, a reboot was asked, or the
\* marker could not be written: all of it before kairos-agent starts.
RunRefused(t) ==
    /\ pc[t] = "eval"
    /\ ~Abandoned(t)
    /\ Return(t)
    /\ JobDone
    /\ state' = "error"
    /\ UNCHANGED <<up, managed, pending, latest, rebooting>>
    /\ UNCHANGED <<files, slots, oneShot, shutting, counters>>

\* What evaluate resolved is the digest the user reviewed.
SameDigest_any(t, resolved) == TRUE
SameDigest(t, resolved) == resolved = reviewed[t]

\* The marker is written, under the lock, before kairos-agent starts.
WriteStarted_nothing == UNCHANGED marker
WriteStarted == marker' = "started"

RunCommits(t, resolved) ==
    /\ pc[t] = "eval"
    /\ ~Abandoned(t)
    /\ SameDigest(t, resolved)
    /\ ~rebooting
    /\ WriteStarted
    /\ source' = [source EXCEPT ![t] = resolved]
    /\ \/ UNCHANGED <<latest, latestFile>>
       \/ \E tag \in Tags : SetLatest(tag)
    /\ state' = "applying"
    /\ Goto(t, "arm")
    /\ UNCHANGED <<up, managed, pending, job, rebooting, prev, reviewed, pinned>>
    /\ UNCHANGED <<slots, oneShot, shutting, counters>>

\* backend.Upgrade starts kairos-agent, or cannot.
UpgradeStarts(t) ==
    /\ pc[t] = "arm"
    /\ Goto(t, "upgrade")
    /\ runs' = runs + 1
    /\ UNCHANGED <<daemon, prev, reviewed, source, files, slots, oneShot, shutting, boots, reboots>>

UpgradeFails(t) ==
    /\ pc[t] \in AgentRuns \cup {"arm"}
    /\ Goto(t, "failed")
    /\ UNCHANGED <<daemon, prev, reviewed, source, files, slots, oneShot, shutting, counters>>

(* kairos-agent upgrade (external).  From the active slot it moves the      *)
(* active image to the passive slot; from the passive slot it leaves that   *)
(* one alone.  Then it writes the new image to the active slot, selects     *)
(* the active entry, and runs a hook that may still fail.                   *)
AgentSwaps(t) ==
    /\ pc[t] = "upgrade"
    /\ Goto(t, "swapped")
    /\ passive' = IF fellBack THEN passive ELSE active
    /\ active' = Missing
    /\ UNCHANGED <<daemon, prev, reviewed, source, files, running, fellBack, oneShot, shutting, counters>>

AgentWrites(t) ==
    /\ pc[t] = "swapped"
    /\ Goto(t, "written")
    /\ active' = source[t]
    /\ UNCHANGED <<daemon, prev, reviewed, source, files, passive, running, fellBack>>
    /\ UNCHANGED <<oneShot, shutting, counters>>

AgentSucceeds(t) ==
    /\ pc[t] = "written"
    /\ Goto(t, "done")
    /\ oneShot' = FALSE
    /\ UNCHANGED <<daemon, prev, reviewed, source, files, slots, shutting, counters>>

\* run after an error: the marker stays whether or not the word is written.
MarkFailed(t) ==
    /\ pc[t] = "failed"
    /\ Goto(t, "failEnd")
    /\ TryMark("failed")
    /\ UNCHANGED <<daemon, prev, reviewed, source, latestFile, pinned>>
    /\ UNCHANGED <<slots, oneShot, shutting, counters>>

\* run after kairos-agent finished: the marker's word, then the pin, then the
\* state.  The pin is cleared for the newest release and written for any
\* other image.
MarkInstalled(t) ==
    /\ pc[t] = "done"
    /\ Goto(t, "marked")
    /\ TryMark("installed")
    /\ UNCHANGED <<daemon, prev, reviewed, source, latestFile, pinned>>
    /\ UNCHANGED <<slots, oneShot, shutting, counters>>

NotePin(t) ==
    /\ pc[t] = "marked"
    /\ Goto(t, "noted")
    /\ pinned' \in {pinned, TRUE} \cup (IF source[t] \in Tags THEN {FALSE} ELSE {})
    /\ UNCHANGED <<daemon, prev, reviewed, source, marker, latestFile>>
    /\ UNCHANGED <<slots, oneShot, shutting, counters>>

\* Every outcome of a kairos-agent run ends in reboot-pending.
OutcomeState_forgotten == "applying"
OutcomeState == "reboot-pending"

OutcomeWord_hopeful(t) == "installed"
OutcomeWord(t) == IF pc[t] = "noted" THEN "installed" ELSE "failed"

RunEnds(t) ==
    /\ pc[t] \in {"failEnd", "noted"}
    /\ Return(t)
    /\ JobDone
    /\ pending' = OutcomeWord(t)
    /\ state' = OutcomeState
    /\ UNCHANGED <<up, managed, latest, rebooting>>
    /\ UNCHANGED <<files, slots, oneShot, shutting, counters>>

-----------------------------------------------------------------------------
(* Cancel stops a check, or an install before its marker is written.        *)

Cancellable_always == busy
Cancellable == state \in {"checking", "inspecting"}

Cancel ==
    /\ up /\ Cancellable
    /\ JobDone
    /\ state' = IF prev[job] = "error" THEN "idle" ELSE prev[job]
    /\ UNCHANGED <<up, managed, pending, latest, rebooting, locals>>
    /\ UNCHANGED <<files, slots, oneShot, shutting, counters>>

-----------------------------------------------------------------------------
(* Reboot and RebootPrevious.                                               *)

RebootRefused_never == FALSE
RebootRefused == state \in {"inspecting", "applying"}

Reboot(t) ==
    /\ up /\ pc[t] = "idle" /\ reboots < MaxReboots
    /\ ~RebootRefused
    /\ rebooting' = TRUE
    /\ reboots' = reboots + 1
    /\ Goto(t, "reboot")
    /\ UNCHANGED <<up, managed, state, pending, latest, job, prev, reviewed, source>>
    /\ UNCHANGED <<files, slots, oneShot, shutting, runs, boots>>

PreviousRefused_overPending == rebooting \/ RebootRefused
PreviousRefused == rebooting \/ RebootRefused \/ state = "reboot-pending"

RebootPrevious(t) ==
    /\ up /\ pc[t] = "idle" /\ reboots < MaxReboots
    /\ ~PreviousRefused
    /\ rebooting' = TRUE
    /\ reboots' = reboots + 1
    /\ Goto(t, "select")
    /\ UNCHANGED <<up, managed, state, pending, latest, job, prev, reviewed, source>>
    /\ UNCHANGED <<files, slots, oneShot, shutting, runs, boots>>

\* kairos-agent bootentry --select fallback: for the next boot only.
SelectPrevious(t) ==
    /\ pc[t] = "select"
    /\ ~fellBack
    /\ oneShot' = TRUE
    /\ Goto(t, "restart")
    /\ UNCHANGED <<daemon, prev, reviewed, source, files, slots, shutting, counters>>

\* systemctl reboot is accepted; the call returns with rebooting still set.
ShutdownStarts(t) ==
    /\ pc[t] \in {"reboot", "restart"}
    /\ shutting' = TRUE
    /\ Return(t)
    /\ UNCHANGED <<daemon, files, slots, oneShot, counters>>

\* The backend failed: booted from passive, no such entry, or systemctl.
RebootFails(t) ==
    /\ pc[t] \in {"reboot", "select", "restart"}
    /\ rebooting' = FALSE
    /\ Return(t)
    /\ UNCHANGED <<up, managed, state, pending, latest, job>>
    /\ UNCHANGED <<files, slots, oneShot, shutting, counters>>

(* The machine boots: a shutdown has finished, or the power went.  GRUB     *)
(* takes the one-shot entry, else the active slot, and falls back to the    *)
(* passive one when that image does not boot.  The tmpfs is empty again.    *)
Boot ==
    /\ boots < MaxBoots
    /\ \/ active # Missing /\ ~oneShot /\ running' = active /\ fellBack' = FALSE
       \/ running' = passive /\ fellBack' = TRUE
    /\ NoDaemon
    /\ marker' = "none" /\ latestFile' = Missing
    /\ oneShot' = FALSE /\ shutting' = FALSE
    /\ runs' = 0 /\ reboots' = 0
    /\ boots' = boots + 1
    /\ UNCHANGED <<managed, active, passive, pinned>>

-----------------------------------------------------------------------------
Job(t) ==
    \/ PeekEnds(t) \/ CheckEnds(t)
    \/ RunAbandoned(t) \/ RunRefused(t) \/ \E d \in Images : RunCommits(t, d)
    \/ UpgradeStarts(t) \/ UpgradeFails(t)
    \/ AgentSwaps(t) \/ AgentWrites(t) \/ AgentSucceeds(t)
    \/ MarkFailed(t) \/ MarkInstalled(t) \/ NotePin(t) \/ RunEnds(t)

Call(t) ==
    \/ Check(t)
    \/ \E d \in Images : Apply(t, d)
    \/ Reboot(t) \/ RebootPrevious(t)

Restart(t) == SelectPrevious(t) \/ ShutdownStarts(t) \/ RebootFails(t)

Next ==
    \/ Start \/ Die \/ Cancel \/ Boot
    \/ \E t \in Threads : Call(t) \/ Job(t) \/ Restart(t)

Spec == Init /\ [][Next]_vars

(* Every HTTP request has a timeout, kairos-agent is assumed to end, and a  *)
(* goroutine that can run does.  Nothing makes a client call, the daemon    *)
(* start, or the machine boot.                                              *)
Fairness == \A t \in Threads : WF_vars(Job(t)) /\ WF_vars(Restart(t))

FairSpec == Spec /\ Fairness

-----------------------------------------------------------------------------
(* Properties *)

Writers == {t \in Threads : pc[t] \in AgentRuns}

(* The refinement mapping: a session is open while a kairos-agent runs.     *)
Session == IF runs = 0 THEN "fresh" ELSE IF Writers = {} THEN "closed" ELSE "open"

SlotPromise == INSTANCE SlotUpdate WITH session <- Session

(* Every behaviour of the daemon, with its crashes and restarts, keeps the  *)
(* promise of SlotUpdate: one writing session per boot (ErrRebootPending).  *)
ImplementsSlotUpdate == SlotPromise!Spec

(* The running system stays in a slot, whatever crashed and whoever called: *)
(* no second install pushes the never-booted image over it.                 *)
KnownGoodKept == SlotPromise!KnownGoodKept

(* From the first write of a slot until the next boot the marker exists, so *)
(* a daemon started again refuses a second install; and a live daemon of a  *)
(* managed system shows an install exactly while the marker exists.         *)
MarkerTellsTheInstall ==
    /\ runs > 0 => marker # "none"
    /\ up /\ managed => (marker # "none" <=> state \in {"applying", "reboot-pending"})

(* ErrBusy: two kairos-agent runs would race on the same partitions.  The   *)
(* one that writes belongs to the job, and Cancel refuses it.               *)
OneWriter ==
    \A t \in Threads : pc[t] \in Installing => job = t /\ state = "applying"

(* Cancel dereferences d.job in the cancellable states, and Busy keeps the  *)
(* process alive for it: the job is there exactly while a busy state is     *)
(* shown, and its goroutine still works on what the state says.             *)
JobBehindState ==
    /\ busy <=> job # NoThread
    /\ state = "checking" => pc[job] = "fetch"
    /\ state = "inspecting" => pc[job] = "eval"
    /\ state = "applying" => pc[job] \in Installing

(* "Only `installed` means the new system is ready": the word, in memory or *)
(* in the marker after any restart, is there only over a whole image.       *)
InstalledMeansReady ==
    "installed" \in {pending, marker} => active # Missing /\ runs > 0

(* The slot gets the digest the user reviewed, although the tag may have    *)
(* moved and another job been started and cancelled in between.             *)
ReviewedOnly ==
    [][active' \in {active, Missing} \/ \E t \in Threads : pc[t] = "swapped" /\ active' = reviewed[t]]_active

(* A goroutine whose job was cancelled ends without a trace in the daemon   *)
(* or on disk, whatever job runs now.                                       *)
AbandonedLeavesNoTrace ==
    [][\A t \in Threads :
         pc[t] \in {"fetch", "eval"} /\ job # t /\ pc'[t] # pc[t] /\ up'
            => UNCHANGED <<daemon, files>>]_vars

(* Reboot-pending outlives everything but the process and the boot: only a  *)
(* restart of the machine makes the daemon accept an install again.         *)
PendingUntilBoot ==
    [][state = "reboot-pending" /\ boots' = boots /\ up' => state' = "reboot-pending" /\ pending' = pending]_vars

(* update-available is only shown for a version newer than the running one, *)
(* also when Cancel brings the state back.                                  *)
AnnouncedIsNewer == state = "update-available" => latest > running

(* ErrRebooting, and "Once it is asked, no install starts until the reboot  *)
(* fails" (Reboot): kairos-agent never runs under a system that shuts down. *)
NoInstallInShutdown == shutting => Writers = {}

(* RebootPrevious refuses an install that waits: the fallback entry is not  *)
(* selected once the slots may have been swapped, when it would boot the    *)
(* system the user runs now (errPreviousAfterInstall).                      *)
PreviousIsPrevious == [][oneShot' /\ ~oneShot => runs = 0]_vars

(* Every install that was accepted gets a verdict the user sees; and once   *)
(* kairos-agent was about to start, the verdict is that the machine waits   *)
(* for a restart, unless the daemon is gone.                                *)
EveryApplyEnds ==
    /\ (state = "inspecting") ~> (state \notin {"inspecting", "applying"})
    /\ (state = "applying") ~> (state = "reboot-pending" \/ ~up)
=============================================================================
