------------------------ MODULE UpdateDaemon_proofs ------------------------
(***************************************************************************)
(* The invariants of UpdateDaemon and its refinement of SlotUpdate, for    *)
(* every set of threads and images and every bound.                        *)
(*                                                                         *)
(* None of the properties is inductive alone.  That no second install      *)
(* starts rests on the marker, that the marker says what the state says    *)
(* rests on who holds the job, and that rests on where that thread is.     *)
(***************************************************************************)
EXTENDS UpdateDaemon, TLAPS

(* Who holds the job, and that a daemon with one is up and managed.         *)
JobInv ==
    /\ busy <=> job # NoThread
    /\ job # NoThread =>
         \/ state = "checking" /\ pc[job] = "fetch"
         \/ state = "inspecting" /\ pc[job] = "eval"
         \/ state = "applying" /\ pc[job] \in Installing
    /\ \A t \in Threads : pc[t] \in Installing => job = t
    /\ busy \/ state = "reboot-pending" => up /\ managed
    /\ ~up => state = "idle"

(* What the marker says, and what a job about to install may rely on.       *)
MarkerInv ==
    /\ MarkerTellsTheInstall
    /\ \A t \in Threads : pc[t] = "arm" => runs = 0
    /\ \A t \in Threads : pc[t] \in AgentRuns => runs > 0

(* Where the running image is while the slots are being rewritten.          *)
SlotInv ==
    /\ fellBack => running = passive
    /\ running \in {active, passive}
    /\ runs = 0 /\ ~fellBack => running = active
    /\ \A t \in Threads :
         /\ pc[t] = "upgrade" /\ ~fellBack => running = active
         /\ pc[t] \in {"swapped", "written"} => running = passive
         /\ pc[t] = "swapped" => active = Missing
         /\ pc[t] \in Installing => source[t] \in Images

IInv == TypeOK /\ JobInv /\ MarkerInv /\ SlotInv

-----------------------------------------------------------------------------
(* One lemma for each part of the invariant; in each, the actions that       *)
(* touch none of the part's variables share a step.                          *)

(* The fields of the Daemon object stay in their sets.                      *)
LEMMA DaemonStep == IInv /\ [Next]_vars => DaemonOK'
<1> SUFFICES ASSUME IInv, [Next]_vars PROVE DaemonOK'
  OBVIOUS
<1> USE ImagesAssumption, ThreadsAssumption
<1>1. CASE UNCHANGED vars
  BY <1>1 DEF vars, daemon, IInv, TypeOK, DaemonOK, LocalsOK, FilesOK, States,
         Quiet, Words
<1>2. ASSUME Start PROVE DaemonOK'
  BY <1>2 DEF Start, ReadMarker, daemon, IInv, TypeOK, DaemonOK, LocalsOK,
         FilesOK, States, Quiet, Words
<1>3. ASSUME Die PROVE DaemonOK'
  BY <1>3 DEF Die, NoDaemon, AllThreadsGone, daemon, IInv, TypeOK, DaemonOK,
         LocalsOK, FilesOK, States, Quiet, Words
<1>4. ASSUME Cancel PROVE DaemonOK'
  <2>1. job \in Threads
    BY <1>4 DEF Cancel, Cancellable, IInv, TypeOK, DaemonOK, JobInv, busy
  <2>2. state' \in States
    BY <2>1, <1>4 DEF Cancel, IInv, TypeOK, LocalsOK, States, Quiet
  <2> QED BY <2>2, <1>4 DEF Cancel, JobDone, IInv, TypeOK, DaemonOK
<1>5. ASSUME Boot PROVE DaemonOK'
  BY <1>5 DEF Boot, NoDaemon, AllThreadsGone, daemon, IInv, TypeOK, DaemonOK,
         LocalsOK, FilesOK, States, Quiet, Words
<1>6. ASSUME NEW t \in Threads, Check(t) PROVE DaemonOK'
  BY <1>6 DEF Check, Peeks, daemon, IInv, TypeOK, DaemonOK, LocalsOK, FilesOK,
         States, Quiet, Words
<1>7. ASSUME NEW t \in Threads, PeekEnds(t) PROVE DaemonOK'
  BY <1>7 DEF PeekEnds, SetLatest, Fetched, daemon, IInv, TypeOK, DaemonOK,
         LocalsOK, FilesOK, States, Quiet, Words
<1>8. ASSUME NEW t \in Threads, CheckEnds(t) PROVE DaemonOK'
  BY <1>8 DEF CheckEnds, SetLatest, Fetched, Abandoned, JobDone, daemon, IInv,
         TypeOK, DaemonOK, LocalsOK, FilesOK, States, Quiet, Words
<1>9. ASSUME NEW t \in Threads, RunRefused(t) PROVE DaemonOK'
  BY <1>9 DEF RunRefused, Abandoned, JobDone, daemon, IInv, TypeOK, DaemonOK,
         LocalsOK, FilesOK, States, Quiet, Words
<1>10. ASSUME NEW t \in Threads, RunEnds(t) PROVE DaemonOK'
  BY <1>10 DEF RunEnds, OutcomeState, OutcomeWord, JobDone, daemon, IInv,
         TypeOK, DaemonOK, LocalsOK, FilesOK, States, Quiet, Words
<1>11. ASSUME NEW t \in Threads, Reboot(t) PROVE DaemonOK'
  BY <1>11 DEF Reboot, RebootRefused, daemon, IInv, TypeOK, DaemonOK,
         LocalsOK, FilesOK, States, Quiet, Words
<1>12. ASSUME NEW t \in Threads, RebootPrevious(t) PROVE DaemonOK'
  BY <1>12 DEF RebootPrevious, PreviousRefused, RebootRefused, daemon, IInv,
         TypeOK, DaemonOK, LocalsOK, FilesOK, States, Quiet, Words
<1>13. ASSUME NEW t \in Threads, RebootFails(t) PROVE DaemonOK'
  BY <1>13 DEF RebootFails, daemon, IInv, TypeOK, DaemonOK, LocalsOK, FilesOK,
         States, Quiet, Words
<1>14. ASSUME NEW t \in Threads, NEW d \in Images, Apply(t, d) PROVE DaemonOK'
  BY <1>14 DEF Apply, ApplyRefused, daemon, IInv, TypeOK, DaemonOK, LocalsOK,
         FilesOK, States, Quiet, Words
<1>15. ASSUME NEW t \in Threads, NEW d \in Images, RunCommits(t, d) PROVE DaemonOK'
  BY <1>15 DEF RunCommits, Abandoned, SameDigest, WriteStarted, SetLatest,
         daemon, IInv, TypeOK, DaemonOK, LocalsOK, FilesOK, States, Quiet,
         Words
<1>16. ASSUME NEW t \in Threads,
            RunAbandoned(t) \/ UpgradeStarts(t) \/ UpgradeFails(t) \/
            AgentSwaps(t) \/ AgentWrites(t) \/ AgentSucceeds(t) \/
            MarkFailed(t) \/ MarkInstalled(t) \/ NotePin(t) \/
            SelectPrevious(t) \/ ShutdownStarts(t)
      PROVE DaemonOK'
  <2>1. UNCHANGED daemon
    BY <1>16 DEF RunAbandoned, UpgradeStarts, UpgradeFails, AgentSwaps,
           AgentWrites, AgentSucceeds, MarkFailed, MarkInstalled, NotePin,
           SelectPrevious, ShutdownStarts
  <2> QED BY <2>1 DEF daemon, IInv, TypeOK, DaemonOK
<1> QED BY <1>1, <1>2, <1>3, <1>4, <1>5, <1>6, <1>7, <1>8, <1>9, <1>10, <1>11,
           <1>12, <1>13, <1>14, <1>15, <1>16 DEF Next, Call, Job, Restart

(* The threads stay at a pc, with locals of their type.                     *)
LEMMA LocalsStep == IInv /\ [Next]_vars => LocalsOK'
<1> SUFFICES ASSUME IInv, [Next]_vars PROVE LocalsOK'
  OBVIOUS
<1> USE ThreadsAssumption, ImagesAssumption
<1>1. CASE UNCHANGED vars
  BY <1>1 DEF vars, locals, IInv, TypeOK, DaemonOK, LocalsOK, busy, PCs,
         NetSlot, Installing, AgentRuns, States, Quiet
<1>2. ASSUME Die PROVE LocalsOK'
  BY <1>2 DEF Die, NoDaemon, AllThreadsGone, locals, IInv, TypeOK, DaemonOK,
         LocalsOK, busy, PCs, NetSlot, Installing, AgentRuns, States, Quiet
<1>3. ASSUME Boot PROVE LocalsOK'
  BY <1>3 DEF Boot, NoDaemon, AllThreadsGone, locals, IInv, TypeOK, DaemonOK,
         LocalsOK, busy, PCs, NetSlot, Installing, AgentRuns, States, Quiet
<1>4. ASSUME NEW t \in Threads, Check(t) PROVE LocalsOK'
  BY <1>4 DEF Check, Goto, Peeks, locals, IInv, TypeOK, DaemonOK, LocalsOK,
         busy, PCs, NetSlot, Installing, AgentRuns, States, Quiet
<1>5. ASSUME NEW t \in Threads, PeekEnds(t) PROVE LocalsOK'
  BY <1>5 DEF PeekEnds, Return, Goto, locals, IInv, TypeOK, DaemonOK,
         LocalsOK, busy, PCs, NetSlot, Installing, AgentRuns, States, Quiet
<1>6. ASSUME NEW t \in Threads, CheckEnds(t) PROVE LocalsOK'
  BY <1>6 DEF CheckEnds, Return, Goto, Abandoned, JobDone, locals, IInv,
         TypeOK, DaemonOK, LocalsOK, busy, PCs, NetSlot, Installing,
         AgentRuns, States, Quiet
<1>7. ASSUME NEW t \in Threads, RunAbandoned(t) PROVE LocalsOK'
  BY <1>7 DEF RunAbandoned, Return, Goto, Abandoned, locals, IInv, TypeOK,
         DaemonOK, LocalsOK, busy, PCs, NetSlot, Installing, AgentRuns,
         States, Quiet
<1>8. ASSUME NEW t \in Threads, RunRefused(t) PROVE LocalsOK'
  BY <1>8 DEF RunRefused, Return, Goto, Abandoned, JobDone, locals, IInv,
         TypeOK, DaemonOK, LocalsOK, busy, PCs, NetSlot, Installing,
         AgentRuns, States, Quiet
<1>9. ASSUME NEW t \in Threads, UpgradeStarts(t) PROVE LocalsOK'
  BY <1>9 DEF UpgradeStarts, Goto, locals, IInv, TypeOK, DaemonOK, LocalsOK,
         busy, PCs, NetSlot, Installing, AgentRuns, States, Quiet
<1>10. ASSUME NEW t \in Threads, UpgradeFails(t) PROVE LocalsOK'
  BY <1>10 DEF UpgradeFails, Goto, locals, IInv, TypeOK, DaemonOK, LocalsOK,
         busy, PCs, NetSlot, Installing, AgentRuns, States, Quiet
<1>11. ASSUME NEW t \in Threads, AgentSwaps(t) PROVE LocalsOK'
  BY <1>11 DEF AgentSwaps, Goto, locals, IInv, TypeOK, DaemonOK, LocalsOK,
         busy, PCs, NetSlot, Installing, AgentRuns, States, Quiet
<1>12. ASSUME NEW t \in Threads, AgentWrites(t) PROVE LocalsOK'
  BY <1>12 DEF AgentWrites, Goto, locals, IInv, TypeOK, DaemonOK, LocalsOK,
         busy, PCs, NetSlot, Installing, AgentRuns, States, Quiet
<1>13. ASSUME NEW t \in Threads, AgentSucceeds(t) PROVE LocalsOK'
  BY <1>13 DEF AgentSucceeds, Goto, locals, IInv, TypeOK, DaemonOK, LocalsOK,
         busy, PCs, NetSlot, Installing, AgentRuns, States, Quiet
<1>14. ASSUME NEW t \in Threads, MarkFailed(t) PROVE LocalsOK'
  BY <1>14 DEF MarkFailed, Goto, locals, IInv, TypeOK, DaemonOK, LocalsOK,
         busy, PCs, NetSlot, Installing, AgentRuns, States, Quiet
<1>15. ASSUME NEW t \in Threads, MarkInstalled(t) PROVE LocalsOK'
  BY <1>15 DEF MarkInstalled, Goto, locals, IInv, TypeOK, DaemonOK, LocalsOK,
         busy, PCs, NetSlot, Installing, AgentRuns, States, Quiet
<1>16. ASSUME NEW t \in Threads, NotePin(t) PROVE LocalsOK'
  BY <1>16 DEF NotePin, Goto, locals, IInv, TypeOK, DaemonOK, LocalsOK, busy,
         PCs, NetSlot, Installing, AgentRuns, States, Quiet
<1>17. ASSUME NEW t \in Threads, RunEnds(t) PROVE LocalsOK'
  BY <1>17 DEF RunEnds, Return, Goto, OutcomeWord, JobDone, locals, IInv,
         TypeOK, DaemonOK, LocalsOK, busy, PCs, NetSlot, Installing,
         AgentRuns, States, Quiet
<1>18. ASSUME NEW t \in Threads, Reboot(t) PROVE LocalsOK'
  BY <1>18 DEF Reboot, Goto, RebootRefused, locals, IInv, TypeOK, DaemonOK,
         LocalsOK, busy, PCs, NetSlot, Installing, AgentRuns, States, Quiet
<1>19. ASSUME NEW t \in Threads, RebootPrevious(t) PROVE LocalsOK'
  BY <1>19 DEF RebootPrevious, Goto, PreviousRefused, RebootRefused, locals,
         IInv, TypeOK, DaemonOK, LocalsOK, busy, PCs, NetSlot, Installing,
         AgentRuns, States, Quiet
<1>20. ASSUME NEW t \in Threads, SelectPrevious(t) PROVE LocalsOK'
  BY <1>20 DEF SelectPrevious, Goto, locals, IInv, TypeOK, DaemonOK, LocalsOK,
         busy, PCs, NetSlot, Installing, AgentRuns, States, Quiet
<1>21. ASSUME NEW t \in Threads, ShutdownStarts(t) PROVE LocalsOK'
  BY <1>21 DEF ShutdownStarts, Return, Goto, locals, IInv, TypeOK, DaemonOK,
         LocalsOK, busy, PCs, NetSlot, Installing, AgentRuns, States, Quiet
<1>22. ASSUME NEW t \in Threads, RebootFails(t) PROVE LocalsOK'
  BY <1>22 DEF RebootFails, Return, Goto, locals, IInv, TypeOK, DaemonOK,
         LocalsOK, busy, PCs, NetSlot, Installing, AgentRuns, States, Quiet
<1>23. ASSUME NEW t \in Threads, NEW d \in Images, Apply(t, d) PROVE LocalsOK'
  BY <1>23 DEF Apply, Goto, ApplyRefused, locals, IInv, TypeOK, DaemonOK,
         LocalsOK, busy, PCs, NetSlot, Installing, AgentRuns, States, Quiet
<1>24. ASSUME NEW t \in Threads, NEW d \in Images, RunCommits(t, d) PROVE LocalsOK'
  BY <1>24 DEF RunCommits, Goto, Abandoned, SameDigest, locals, IInv, TypeOK,
         DaemonOK, LocalsOK, busy, PCs, NetSlot, Installing, AgentRuns,
         States, Quiet
<1>25. CASE Start \/ Cancel
  BY <1>25 DEF Start, Cancel, locals, IInv, TypeOK, DaemonOK, LocalsOK, busy,
         PCs, NetSlot, Installing, AgentRuns, States, Quiet
<1> QED BY <1>1, <1>2, <1>3, <1>4, <1>5, <1>6, <1>7, <1>8, <1>9, <1>10, <1>11,
           <1>12, <1>13, <1>14, <1>15, <1>16, <1>17, <1>18, <1>19, <1>20,
           <1>21, <1>22, <1>23, <1>24, <1>25 DEF Next, Call, Job, Restart

(* The files hold what some daemon wrote.                                  *)
LEMMA FilesStep == IInv /\ [Next]_vars => FilesOK'
<1> SUFFICES ASSUME IInv, [Next]_vars PROVE FilesOK'
  OBVIOUS
<1> USE ImagesAssumption
<1>1. CASE UNCHANGED vars
  BY <1>1 DEF vars, files, IInv, TypeOK, DaemonOK, FilesOK, Words
<1>2. ASSUME Boot PROVE FilesOK'
  BY <1>2 DEF Boot, files, IInv, TypeOK, DaemonOK, FilesOK, Words
<1>3. ASSUME NEW t \in Threads, PeekEnds(t) PROVE FilesOK'
  BY <1>3 DEF PeekEnds, SetLatest, Fetched, files, IInv, TypeOK, DaemonOK,
         FilesOK, Words
<1>4. ASSUME NEW t \in Threads, CheckEnds(t) PROVE FilesOK'
  BY <1>4 DEF CheckEnds, SetLatest, Fetched, Abandoned, JobDone, files, IInv,
         TypeOK, DaemonOK, FilesOK, Words
<1>5. ASSUME NEW t \in Threads, MarkFailed(t) PROVE FilesOK'
  BY <1>5 DEF MarkFailed, TryMark, files, IInv, TypeOK, DaemonOK, FilesOK,
         Words
<1>6. ASSUME NEW t \in Threads, MarkInstalled(t) PROVE FilesOK'
  BY <1>6 DEF MarkInstalled, TryMark, files, IInv, TypeOK, DaemonOK, FilesOK,
         Words
<1>7. ASSUME NEW t \in Threads, NotePin(t) PROVE FilesOK'
  BY <1>7 DEF NotePin, files, IInv, TypeOK, DaemonOK, FilesOK, Words
<1>8. ASSUME NEW t \in Threads, NEW d \in Images, RunCommits(t, d) PROVE FilesOK'
  BY <1>8 DEF RunCommits, Abandoned, SameDigest, WriteStarted, SetLatest,
         files, IInv, TypeOK, DaemonOK, FilesOK, Words
<1>9. CASE Start \/ Die \/ Cancel
  BY <1>9 DEF Start, Die, Cancel, files, IInv, TypeOK, DaemonOK, FilesOK,
         Words
<1>10. ASSUME NEW t \in Threads,
            Check(t) \/ RunAbandoned(t) \/ RunRefused(t) \/ UpgradeStarts(t)
            \/ UpgradeFails(t) \/ AgentSwaps(t) \/ AgentWrites(t) \/
            AgentSucceeds(t) \/ RunEnds(t) \/ Reboot(t) \/ RebootPrevious(t)
            \/ SelectPrevious(t) \/ ShutdownStarts(t) \/ RebootFails(t)
      PROVE FilesOK'
  BY <1>10 DEF Check, RunAbandoned, RunRefused, UpgradeStarts, UpgradeFails,
         AgentSwaps, AgentWrites, AgentSucceeds, RunEnds, Reboot,
         RebootPrevious, SelectPrevious, ShutdownStarts, RebootFails, files,
         IInv, TypeOK, DaemonOK, FilesOK, Words
<1>11. ASSUME NEW t \in Threads, NEW d \in Images, Apply(t, d) PROVE FilesOK'
  BY <1>11 DEF Apply, files, IInv, TypeOK, DaemonOK, FilesOK, Words
<1> QED BY <1>1, <1>2, <1>3, <1>4, <1>5, <1>6, <1>7, <1>8, <1>9, <1>10, <1>11
           DEF Next, Call, Job, Restart

(* The slots hold images; that the swap leaves one in the passive slot      *)
(* rests on SlotInv.                                                        *)
LEMMA MachineStep == IInv /\ [Next]_vars => MachineOK'
<1> SUFFICES ASSUME IInv, [Next]_vars PROVE MachineOK'
  OBVIOUS
<1> USE ImagesAssumption
<1>1. CASE UNCHANGED vars
  BY <1>1 DEF vars, slots, counters, IInv, TypeOK, LocalsOK, MachineOK,
         SlotInv, Installing, AgentRuns, Missing
<1>2. ASSUME Boot PROVE MachineOK'
  <2>1. running' \in Images /\ fellBack' \in BOOLEAN
    BY <1>2 DEF Boot, IInv, TypeOK, MachineOK
  <2>2. runs' \in Nat /\ reboots' \in Nat /\ boots' \in Nat
    BY <1>2 DEF Boot, IInv, TypeOK, MachineOK
  <2>3. oneShot' \in BOOLEAN /\ shutting' \in BOOLEAN
    BY <1>2 DEF Boot
  <2>4. active' \in Images \cup {Missing} /\ passive' \in Images
    BY <1>2 DEF Boot, IInv, TypeOK, MachineOK
  <2> QED BY <2>1, <2>2, <2>3, <2>4 DEF MachineOK
<1>3. ASSUME NEW t \in Threads, UpgradeStarts(t) PROVE MachineOK'
  BY <1>3 DEF UpgradeStarts, slots, counters, IInv, TypeOK, LocalsOK,
         MachineOK, SlotInv, Installing, AgentRuns, Missing
<1>4. ASSUME NEW t \in Threads, AgentSwaps(t) PROVE MachineOK'
  BY <1>4 DEF AgentSwaps, slots, counters, IInv, TypeOK, LocalsOK, MachineOK,
         SlotInv, Installing, AgentRuns, Missing
<1>5. ASSUME NEW t \in Threads, AgentWrites(t) PROVE MachineOK'
  BY <1>5 DEF AgentWrites, slots, counters, IInv, TypeOK, LocalsOK, MachineOK,
         SlotInv, Installing, AgentRuns, Missing
<1>6. ASSUME NEW t \in Threads, AgentSucceeds(t) PROVE MachineOK'
  BY <1>6 DEF AgentSucceeds, slots, counters, IInv, TypeOK, LocalsOK,
         MachineOK, SlotInv, Installing, AgentRuns, Missing
<1>7. ASSUME NEW t \in Threads, Reboot(t) PROVE MachineOK'
  BY <1>7 DEF Reboot, RebootRefused, slots, counters, IInv, TypeOK, LocalsOK,
         MachineOK, SlotInv, Installing, AgentRuns, Missing
<1>8. ASSUME NEW t \in Threads, RebootPrevious(t) PROVE MachineOK'
  BY <1>8 DEF RebootPrevious, PreviousRefused, RebootRefused, slots, counters,
         IInv, TypeOK, LocalsOK, MachineOK, SlotInv, Installing, AgentRuns,
         Missing
<1>9. ASSUME NEW t \in Threads, SelectPrevious(t) PROVE MachineOK'
  BY <1>9 DEF SelectPrevious, slots, counters, IInv, TypeOK, LocalsOK,
         MachineOK, SlotInv, Installing, AgentRuns, Missing
<1>10. ASSUME NEW t \in Threads, ShutdownStarts(t) PROVE MachineOK'
  BY <1>10 DEF ShutdownStarts, slots, counters, IInv, TypeOK, LocalsOK,
         MachineOK, SlotInv, Installing, AgentRuns, Missing
<1>11. CASE Start \/ Die \/ Cancel
  BY <1>11 DEF Start, Die, Cancel, slots, counters, IInv, TypeOK, LocalsOK,
         MachineOK, SlotInv, Installing, AgentRuns, Missing
<1>12. ASSUME NEW t \in Threads,
            Check(t) \/ PeekEnds(t) \/ CheckEnds(t) \/ RunAbandoned(t) \/
            RunRefused(t) \/ UpgradeFails(t) \/ MarkFailed(t) \/
            MarkInstalled(t) \/ NotePin(t) \/ RunEnds(t) \/ RebootFails(t)
      PROVE MachineOK'
  BY <1>12 DEF Check, PeekEnds, CheckEnds, RunAbandoned, RunRefused,
         UpgradeFails, MarkFailed, MarkInstalled, NotePin, RunEnds,
         RebootFails, slots, counters, IInv, TypeOK, LocalsOK, MachineOK,
         SlotInv, Installing, AgentRuns, Missing
<1>13. ASSUME NEW t \in Threads, NEW d \in Images,
            Apply(t, d) \/ RunCommits(t, d)
      PROVE MachineOK'
  BY <1>13 DEF Apply, RunCommits, slots, counters, IInv, TypeOK, LocalsOK,
         MachineOK, SlotInv, Installing, AgentRuns, Missing
<1> QED BY <1>1, <1>2, <1>3, <1>4, <1>5, <1>6, <1>7, <1>8, <1>9, <1>10, <1>11,
           <1>12, <1>13 DEF Next, Call, Job, Restart

(* The job stays with the thread the state belongs to.                     *)
LEMMA JobStep == IInv /\ [Next]_vars => JobInv'
<1> SUFFICES ASSUME IInv, [Next]_vars PROVE JobInv'
  OBVIOUS
<1> USE ThreadsAssumption
<1>1. CASE UNCHANGED vars
  BY <1>1 DEF vars, daemon, locals, IInv, TypeOK, DaemonOK, LocalsOK, JobInv,
         busy, AgentRuns, Installing, NetSlot, PCs, Quiet
<1>2. ASSUME Start PROVE JobInv'
  BY <1>2 DEF Start, ReadMarker, daemon, locals, IInv, TypeOK, DaemonOK,
         LocalsOK, JobInv, busy, AgentRuns, Installing, NetSlot, PCs, Quiet
<1>3. ASSUME Die PROVE JobInv'
  BY <1>3 DEF Die, NoDaemon, AllThreadsGone, daemon, locals, IInv, TypeOK,
         DaemonOK, LocalsOK, JobInv, busy, AgentRuns, Installing, NetSlot,
         PCs, Quiet
<1>4. ASSUME Cancel PROVE JobInv'
  BY <1>4 DEF Cancel, Cancellable, JobDone, daemon, locals, IInv, TypeOK,
         DaemonOK, LocalsOK, JobInv, busy, AgentRuns, Installing, NetSlot,
         PCs, Quiet
<1>5. ASSUME Boot PROVE JobInv'
  BY <1>5 DEF Boot, NoDaemon, AllThreadsGone, daemon, locals, IInv, TypeOK,
         DaemonOK, LocalsOK, JobInv, busy, AgentRuns, Installing, NetSlot,
         PCs, Quiet
<1>6. ASSUME NEW t \in Threads, Check(t) PROVE JobInv'
  BY <1>6, ZenonT(40) DEF Check, NetSlot, Goto, Peeks, daemon, locals, IInv, TypeOK,
         DaemonOK, LocalsOK, JobInv, busy, AgentRuns, Installing, NetSlot,
         PCs, Quiet
<1>7. ASSUME NEW t \in Threads, PeekEnds(t) PROVE JobInv'
  BY <1>7 DEF PeekEnds, Return, Goto, daemon, locals, IInv, TypeOK, DaemonOK,
         LocalsOK, JobInv, busy, AgentRuns, Installing, NetSlot, PCs, Quiet
<1>8. ASSUME NEW t \in Threads, CheckEnds(t) PROVE JobInv'
  BY <1>8 DEF CheckEnds, Return, Goto, Abandoned, JobDone, daemon, locals,
         IInv, TypeOK, DaemonOK, LocalsOK, JobInv, busy, AgentRuns,
         Installing, NetSlot, PCs, Quiet
<1>9. ASSUME NEW t \in Threads, RunAbandoned(t) PROVE JobInv'
  BY <1>9 DEF RunAbandoned, Return, Goto, Abandoned, daemon, locals, IInv,
         TypeOK, DaemonOK, LocalsOK, JobInv, busy, AgentRuns, Installing,
         NetSlot, PCs, Quiet
<1>10. ASSUME NEW t \in Threads, RunRefused(t) PROVE JobInv'
  BY <1>10 DEF RunRefused, Return, Goto, Abandoned, JobDone, daemon, locals,
         IInv, TypeOK, DaemonOK, LocalsOK, JobInv, busy, AgentRuns,
         Installing, NetSlot, PCs, Quiet
<1>11. ASSUME NEW t \in Threads, UpgradeStarts(t) PROVE JobInv'
  BY <1>11 DEF UpgradeStarts, Goto, daemon, locals, IInv, TypeOK, DaemonOK,
         LocalsOK, JobInv, busy, AgentRuns, Installing, NetSlot, PCs, Quiet
<1>12. ASSUME NEW t \in Threads, UpgradeFails(t) PROVE JobInv'
  BY <1>12 DEF UpgradeFails, Goto, daemon, locals, IInv, TypeOK, DaemonOK,
         LocalsOK, JobInv, busy, AgentRuns, Installing, NetSlot, PCs, Quiet
<1>13. ASSUME NEW t \in Threads, AgentSwaps(t) PROVE JobInv'
  BY <1>13 DEF AgentSwaps, Goto, daemon, locals, IInv, TypeOK, DaemonOK,
         LocalsOK, JobInv, busy, AgentRuns, Installing, NetSlot, PCs, Quiet
<1>14. ASSUME NEW t \in Threads, AgentWrites(t) PROVE JobInv'
  BY <1>14 DEF AgentWrites, Goto, daemon, locals, IInv, TypeOK, DaemonOK,
         LocalsOK, JobInv, busy, AgentRuns, Installing, NetSlot, PCs, Quiet
<1>15. ASSUME NEW t \in Threads, AgentSucceeds(t) PROVE JobInv'
  BY <1>15 DEF AgentSucceeds, Goto, daemon, locals, IInv, TypeOK, DaemonOK,
         LocalsOK, JobInv, busy, AgentRuns, Installing, NetSlot, PCs, Quiet
<1>16. ASSUME NEW t \in Threads, MarkFailed(t) PROVE JobInv'
  BY <1>16 DEF MarkFailed, Goto, daemon, locals, IInv, TypeOK, DaemonOK,
         LocalsOK, JobInv, busy, AgentRuns, Installing, NetSlot, PCs, Quiet
<1>17. ASSUME NEW t \in Threads, MarkInstalled(t) PROVE JobInv'
  BY <1>17 DEF MarkInstalled, Goto, daemon, locals, IInv, TypeOK, DaemonOK,
         LocalsOK, JobInv, busy, AgentRuns, Installing, NetSlot, PCs, Quiet
<1>18. ASSUME NEW t \in Threads, NotePin(t) PROVE JobInv'
  BY <1>18 DEF NotePin, Goto, daemon, locals, IInv, TypeOK, DaemonOK,
         LocalsOK, JobInv, busy, AgentRuns, Installing, NetSlot, PCs, Quiet
<1>19. ASSUME NEW t \in Threads, RunEnds(t) PROVE JobInv'
  BY <1>19 DEF RunEnds, Return, Goto, OutcomeState, OutcomeWord, JobDone,
         daemon, locals, IInv, TypeOK, DaemonOK, LocalsOK, JobInv, busy,
         AgentRuns, Installing, NetSlot, PCs, Quiet
<1>20. ASSUME NEW t \in Threads, Reboot(t) PROVE JobInv'
  BY <1>20 DEF Reboot, Goto, RebootRefused, daemon, locals, IInv, TypeOK,
         DaemonOK, LocalsOK, JobInv, busy, AgentRuns, Installing, NetSlot,
         PCs, Quiet
<1>21. ASSUME NEW t \in Threads, RebootPrevious(t) PROVE JobInv'
  BY <1>21 DEF RebootPrevious, Goto, PreviousRefused, RebootRefused, daemon,
         locals, IInv, TypeOK, DaemonOK, LocalsOK, JobInv, busy, AgentRuns,
         Installing, NetSlot, PCs, Quiet
<1>22. ASSUME NEW t \in Threads, SelectPrevious(t) PROVE JobInv'
  BY <1>22 DEF SelectPrevious, Goto, daemon, locals, IInv, TypeOK, DaemonOK,
         LocalsOK, JobInv, busy, AgentRuns, Installing, NetSlot, PCs, Quiet
<1>23. ASSUME NEW t \in Threads, ShutdownStarts(t) PROVE JobInv'
  BY <1>23 DEF ShutdownStarts, Return, Goto, daemon, locals, IInv, TypeOK,
         DaemonOK, LocalsOK, JobInv, busy, AgentRuns, Installing, NetSlot,
         PCs, Quiet
<1>24. ASSUME NEW t \in Threads, RebootFails(t) PROVE JobInv'
  BY <1>24 DEF RebootFails, Return, Goto, daemon, locals, IInv, TypeOK,
         DaemonOK, LocalsOK, JobInv, busy, AgentRuns, Installing, NetSlot,
         PCs, Quiet
<1>25. ASSUME NEW t \in Threads, NEW d \in Images, Apply(t, d) PROVE JobInv'
  BY <1>25 DEF Apply, Goto, ApplyRefused, daemon, locals, IInv, TypeOK,
         DaemonOK, LocalsOK, JobInv, busy, AgentRuns, Installing, NetSlot,
         PCs, Quiet
<1>26. ASSUME NEW t \in Threads, NEW d \in Images, RunCommits(t, d) PROVE JobInv'
  <2>1. job = t /\ pc[t] = "eval"
    BY <1>26 DEF RunCommits, Abandoned
  <2>2. state = "inspecting" /\ up /\ managed
    BY <2>1 DEF IInv, JobInv, busy, Installing, AgentRuns
  <2>3. job' = t /\ state' = "applying" /\ up' /\ managed'
    BY <2>1, <2>2, <1>26 DEF RunCommits
  <2>4. pc' = [pc EXCEPT ![t] = "arm"] /\ pc \in [Threads -> PCs]
    BY <1>26 DEF RunCommits, Goto, IInv, TypeOK, LocalsOK
  <2>5. \A u \in Threads : pc'[u] \in Installing => job' = u
    BY <2>1, <2>3, <2>4 DEF IInv, JobInv
  <2> QED BY <2>3, <2>4, <2>5 DEF JobInv, busy, Installing
<1> QED BY <1>1, <1>2, <1>3, <1>4, <1>5, <1>6, <1>7, <1>8, <1>9, <1>10, <1>11,
           <1>12, <1>13, <1>14, <1>15, <1>16, <1>17, <1>18, <1>19, <1>20,
           <1>21, <1>22, <1>23, <1>24, <1>25, <1>26 DEF Next, Call, Job,
           Restart

(* The marker stays in agreement with the state.                           *)
LEMMA MarkerStep == IInv /\ [Next]_vars => MarkerInv'
<1> SUFFICES ASSUME IInv, [Next]_vars PROVE MarkerInv'
  OBVIOUS
<1> USE ThreadsAssumption
<1>1. CASE UNCHANGED vars
  BY <1>1 DEF vars, daemon, locals, files, counters, IInv, TypeOK, DaemonOK,
         LocalsOK, FilesOK, MachineOK, JobInv, MarkerInv,
         MarkerTellsTheInstall, busy, AgentRuns, Installing, Quiet, Words
<1>2. ASSUME Start PROVE MarkerInv'
  BY <1>2 DEF Start, ReadMarker, daemon, locals, files, counters, IInv,
         TypeOK, DaemonOK, LocalsOK, FilesOK, MachineOK, JobInv, MarkerInv,
         MarkerTellsTheInstall, busy, AgentRuns, Installing, Quiet, Words
<1>3. ASSUME Die PROVE MarkerInv'
  BY <1>3 DEF Die, NoDaemon, AllThreadsGone, daemon, locals, files, counters,
         IInv, TypeOK, DaemonOK, LocalsOK, FilesOK, MachineOK, JobInv,
         MarkerInv, MarkerTellsTheInstall, busy, AgentRuns, Installing, Quiet,
         Words
<1>4. ASSUME Cancel PROVE MarkerInv'
  BY <1>4 DEF Cancel, Cancellable, JobDone, daemon, locals, files, counters,
         IInv, TypeOK, DaemonOK, LocalsOK, FilesOK, MachineOK, JobInv,
         MarkerInv, MarkerTellsTheInstall, busy, AgentRuns, Installing, Quiet,
         Words
<1>5. ASSUME Boot PROVE MarkerInv'
  <2>1. up' = FALSE /\ runs' = 0
    BY <1>5 DEF Boot, NoDaemon
  <2>2. \A u \in Threads : pc'[u] = "idle"
    BY <1>5 DEF Boot, NoDaemon, AllThreadsGone
  <2>3. MarkerTellsTheInstall'
    BY <2>1 DEF MarkerTellsTheInstall
  <2> QED BY <2>2, <2>3 DEF MarkerInv, AgentRuns
<1>6. ASSUME NEW t \in Threads, Check(t) PROVE MarkerInv'
  BY <1>6 DEF Check, NetSlot, Goto, Peeks, daemon, locals, files, counters,
         IInv, TypeOK, DaemonOK, LocalsOK, FilesOK, MachineOK, JobInv,
         MarkerInv, MarkerTellsTheInstall, busy, AgentRuns, Installing, Quiet,
         Words
<1>7. ASSUME NEW t \in Threads, PeekEnds(t) PROVE MarkerInv'
  BY <1>7 DEF PeekEnds, Return, Goto, daemon, locals, files, counters, IInv,
         TypeOK, DaemonOK, LocalsOK, FilesOK, MachineOK, JobInv, MarkerInv,
         MarkerTellsTheInstall, busy, AgentRuns, Installing, Quiet, Words
<1>8. ASSUME NEW t \in Threads, CheckEnds(t) PROVE MarkerInv'
  BY <1>8 DEF CheckEnds, Return, Goto, Abandoned, JobDone, daemon, locals,
         files, counters, IInv, TypeOK, DaemonOK, LocalsOK, FilesOK,
         MachineOK, JobInv, MarkerInv, MarkerTellsTheInstall, busy, AgentRuns,
         Installing, Quiet, Words
<1>9. ASSUME NEW t \in Threads, RunAbandoned(t) PROVE MarkerInv'
  BY <1>9 DEF RunAbandoned, Return, Goto, Abandoned, daemon, locals, files,
         counters, IInv, TypeOK, DaemonOK, LocalsOK, FilesOK, MachineOK,
         JobInv, MarkerInv, MarkerTellsTheInstall, busy, AgentRuns,
         Installing, Quiet, Words
<1>10. ASSUME NEW t \in Threads, RunRefused(t) PROVE MarkerInv'
  BY <1>10 DEF RunRefused, Return, Goto, Abandoned, JobDone, daemon, locals,
         files, counters, IInv, TypeOK, DaemonOK, LocalsOK, FilesOK,
         MachineOK, JobInv, MarkerInv, MarkerTellsTheInstall, busy, AgentRuns,
         Installing, Quiet, Words
<1>11. ASSUME NEW t \in Threads, UpgradeStarts(t) PROVE MarkerInv'
  <2>1. pc[t] \in Installing
    BY <1>11 DEF UpgradeStarts, Installing
  <2>2. job = t /\ state = "applying" /\ up /\ managed
    BY <2>1 DEF IInv, JobInv, busy, Installing, AgentRuns
  <2>3. marker # "none"
    BY <2>2 DEF IInv, MarkerInv, MarkerTellsTheInstall
  <2>4. pc' = [pc EXCEPT ![t] = "upgrade"] /\ pc \in [Threads -> PCs]
    BY <1>11 DEF UpgradeStarts, Goto, IInv, TypeOK, LocalsOK
  <2>5. \A u \in Threads : pc'[u] # "arm"
    BY <2>2, <2>4 DEF IInv, JobInv, Installing
  <2>6. runs' > 0
    BY <1>11 DEF UpgradeStarts, IInv, TypeOK, MachineOK
  <2>7. MarkerTellsTheInstall'
    BY <2>2, <2>3, <1>11 DEF UpgradeStarts, daemon, files, MarkerTellsTheInstall
  <2> QED BY <2>5, <2>6, <2>7 DEF MarkerInv
<1>12. ASSUME NEW t \in Threads, UpgradeFails(t) PROVE MarkerInv'
  BY <1>12 DEF UpgradeFails, Goto, daemon, locals, files, counters, IInv,
         TypeOK, DaemonOK, LocalsOK, FilesOK, MachineOK, JobInv, MarkerInv,
         MarkerTellsTheInstall, busy, AgentRuns, Installing, Quiet, Words
<1>13. ASSUME NEW t \in Threads, AgentSwaps(t) PROVE MarkerInv'
  BY <1>13 DEF AgentSwaps, Goto, daemon, locals, files, counters, IInv,
         TypeOK, DaemonOK, LocalsOK, FilesOK, MachineOK, JobInv, MarkerInv,
         MarkerTellsTheInstall, busy, AgentRuns, Installing, Quiet, Words
<1>14. ASSUME NEW t \in Threads, AgentWrites(t) PROVE MarkerInv'
  BY <1>14 DEF AgentWrites, Goto, daemon, locals, files, counters, IInv,
         TypeOK, DaemonOK, LocalsOK, FilesOK, MachineOK, JobInv, MarkerInv,
         MarkerTellsTheInstall, busy, AgentRuns, Installing, Quiet, Words
<1>15. ASSUME NEW t \in Threads, AgentSucceeds(t) PROVE MarkerInv'
  BY <1>15 DEF AgentSucceeds, Goto, daemon, locals, files, counters, IInv,
         TypeOK, DaemonOK, LocalsOK, FilesOK, MachineOK, JobInv, MarkerInv,
         MarkerTellsTheInstall, busy, AgentRuns, Installing, Quiet, Words
<1>16. ASSUME NEW t \in Threads, MarkFailed(t) PROVE MarkerInv'
  BY <1>16 DEF MarkFailed, Goto, TryMark, daemon, locals, files, counters,
         IInv, TypeOK, DaemonOK, LocalsOK, FilesOK, MachineOK, JobInv,
         MarkerInv, MarkerTellsTheInstall, busy, AgentRuns, Installing, Quiet,
         Words
<1>17. ASSUME NEW t \in Threads, MarkInstalled(t) PROVE MarkerInv'
  BY <1>17 DEF MarkInstalled, Goto, TryMark, daemon, locals, files, counters,
         IInv, TypeOK, DaemonOK, LocalsOK, FilesOK, MachineOK, JobInv,
         MarkerInv, MarkerTellsTheInstall, busy, AgentRuns, Installing, Quiet,
         Words
<1>18. ASSUME NEW t \in Threads, NotePin(t) PROVE MarkerInv'
  BY <1>18 DEF NotePin, Goto, daemon, locals, files, counters, IInv, TypeOK,
         DaemonOK, LocalsOK, FilesOK, MachineOK, JobInv, MarkerInv,
         MarkerTellsTheInstall, busy, AgentRuns, Installing, Quiet, Words
<1>19. ASSUME NEW t \in Threads, RunEnds(t) PROVE MarkerInv'
  BY <1>19 DEF RunEnds, Return, Goto, OutcomeState, OutcomeWord, JobDone,
         daemon, locals, files, counters, IInv, TypeOK, DaemonOK, LocalsOK,
         FilesOK, MachineOK, JobInv, MarkerInv, MarkerTellsTheInstall, busy,
         AgentRuns, Installing, Quiet, Words
<1>20. ASSUME NEW t \in Threads, Reboot(t) PROVE MarkerInv'
  BY <1>20 DEF Reboot, Goto, RebootRefused, daemon, locals, files, counters,
         IInv, TypeOK, DaemonOK, LocalsOK, FilesOK, MachineOK, JobInv,
         MarkerInv, MarkerTellsTheInstall, busy, AgentRuns, Installing, Quiet,
         Words
<1>21. ASSUME NEW t \in Threads, RebootPrevious(t) PROVE MarkerInv'
  BY <1>21 DEF RebootPrevious, Goto, PreviousRefused, RebootRefused, daemon,
         locals, files, counters, IInv, TypeOK, DaemonOK, LocalsOK, FilesOK,
         MachineOK, JobInv, MarkerInv, MarkerTellsTheInstall, busy, AgentRuns,
         Installing, Quiet, Words
<1>22. ASSUME NEW t \in Threads, SelectPrevious(t) PROVE MarkerInv'
  BY <1>22 DEF SelectPrevious, Goto, daemon, locals, files, counters, IInv,
         TypeOK, DaemonOK, LocalsOK, FilesOK, MachineOK, JobInv, MarkerInv,
         MarkerTellsTheInstall, busy, AgentRuns, Installing, Quiet, Words
<1>23. ASSUME NEW t \in Threads, ShutdownStarts(t) PROVE MarkerInv'
  BY <1>23 DEF ShutdownStarts, Return, Goto, daemon, locals, files, counters,
         IInv, TypeOK, DaemonOK, LocalsOK, FilesOK, MachineOK, JobInv,
         MarkerInv, MarkerTellsTheInstall, busy, AgentRuns, Installing, Quiet,
         Words
<1>24. ASSUME NEW t \in Threads, RebootFails(t) PROVE MarkerInv'
  BY <1>24 DEF RebootFails, Return, Goto, daemon, locals, files, counters,
         IInv, TypeOK, DaemonOK, LocalsOK, FilesOK, MachineOK, JobInv,
         MarkerInv, MarkerTellsTheInstall, busy, AgentRuns, Installing, Quiet,
         Words
<1>25. ASSUME NEW t \in Threads, NEW d \in Images, Apply(t, d) PROVE MarkerInv'
  BY <1>25 DEF Apply, Goto, ApplyRefused, daemon, locals, files, counters,
         IInv, TypeOK, DaemonOK, LocalsOK, FilesOK, MachineOK, JobInv,
         MarkerInv, MarkerTellsTheInstall, busy, AgentRuns, Installing, Quiet,
         Words
<1>26. ASSUME NEW t \in Threads, NEW d \in Images, RunCommits(t, d) PROVE MarkerInv'
  <2>1. job = t /\ pc[t] = "eval"
    BY <1>26 DEF RunCommits, Abandoned
  <2>2. state = "inspecting" /\ up /\ managed
    BY <2>1 DEF IInv, JobInv, busy, Installing, AgentRuns
  <2>3. marker = "none"
    BY <2>2 DEF IInv, MarkerInv, MarkerTellsTheInstall
  <2>4. runs' = 0
    BY <2>3, <1>26 DEF RunCommits, counters, IInv, TypeOK, MachineOK, MarkerInv, MarkerTellsTheInstall
  <2>5. pc' = [pc EXCEPT ![t] = "arm"] /\ pc \in [Threads -> PCs]
    BY <1>26 DEF RunCommits, Goto, IInv, TypeOK, LocalsOK
  <2>6. \A u \in Threads : pc'[u] \notin AgentRuns
    BY <2>1, <2>5 DEF IInv, JobInv, Installing, AgentRuns
  <2>7. MarkerTellsTheInstall'
    BY <1>26 DEF RunCommits, WriteStarted, MarkerTellsTheInstall
  <2> QED BY <2>4, <2>6, <2>7 DEF MarkerInv
<1> QED BY <1>1, <1>2, <1>3, <1>4, <1>5, <1>6, <1>7, <1>8, <1>9, <1>10, <1>11,
           <1>12, <1>13, <1>14, <1>15, <1>16, <1>17, <1>18, <1>19, <1>20,
           <1>21, <1>22, <1>23, <1>24, <1>25, <1>26 DEF Next, Call, Job,
           Restart

(* The running image stays in a slot.                                      *)
LEMMA SlotStep == IInv /\ [Next]_vars => SlotInv'
<1> SUFFICES ASSUME IInv, [Next]_vars PROVE SlotInv'
  OBVIOUS
<1> USE ImagesAssumption, ThreadsAssumption
<1>1. CASE UNCHANGED vars
  BY <1>1 DEF vars, locals, slots, counters, IInv, TypeOK, LocalsOK,
         MachineOK, JobInv, MarkerInv, SlotInv, AgentRuns, Installing, Missing
<1>2. ASSUME Start PROVE SlotInv'
  BY <1>2 DEF Start, ReadMarker, locals, slots, counters, IInv, TypeOK,
         LocalsOK, MachineOK, JobInv, MarkerInv, SlotInv, AgentRuns,
         Installing, Missing
<1>3. ASSUME Die PROVE SlotInv'
  BY <1>3 DEF Die, NoDaemon, AllThreadsGone, locals, slots, counters, IInv,
         TypeOK, LocalsOK, MachineOK, JobInv, MarkerInv, SlotInv, AgentRuns,
         Installing, Missing
<1>4. ASSUME Cancel PROVE SlotInv'
  BY <1>4 DEF Cancel, Cancellable, JobDone, locals, slots, counters, IInv,
         TypeOK, LocalsOK, MachineOK, JobInv, MarkerInv, SlotInv, AgentRuns,
         Installing, Missing
<1>5. ASSUME Boot PROVE SlotInv'
  BY <1>5 DEF Boot, NoDaemon, AllThreadsGone, locals, slots, counters, IInv,
         TypeOK, LocalsOK, MachineOK, JobInv, MarkerInv, SlotInv, AgentRuns,
         Installing, Missing
<1>6. ASSUME NEW t \in Threads, Check(t) PROVE SlotInv'
  BY <1>6 DEF Check, NetSlot, Goto, Peeks, locals, slots, counters, IInv,
         TypeOK, LocalsOK, MachineOK, JobInv, MarkerInv, SlotInv, AgentRuns,
         Installing, Missing
<1>7. ASSUME NEW t \in Threads, PeekEnds(t) PROVE SlotInv'
  BY <1>7 DEF PeekEnds, Return, Goto, locals, slots, counters, IInv, TypeOK,
         LocalsOK, MachineOK, JobInv, MarkerInv, SlotInv, AgentRuns,
         Installing, Missing
<1>8. ASSUME NEW t \in Threads, CheckEnds(t) PROVE SlotInv'
  BY <1>8 DEF CheckEnds, Return, Goto, Abandoned, JobDone, locals, slots,
         counters, IInv, TypeOK, LocalsOK, MachineOK, JobInv, MarkerInv,
         SlotInv, AgentRuns, Installing, Missing
<1>9. ASSUME NEW t \in Threads, RunAbandoned(t) PROVE SlotInv'
  BY <1>9 DEF RunAbandoned, Return, Goto, Abandoned, locals, slots, counters,
         IInv, TypeOK, LocalsOK, MachineOK, JobInv, MarkerInv, SlotInv,
         AgentRuns, Installing, Missing
<1>10. ASSUME NEW t \in Threads, RunRefused(t) PROVE SlotInv'
  BY <1>10 DEF RunRefused, Return, Goto, Abandoned, JobDone, locals, slots,
         counters, IInv, TypeOK, LocalsOK, MachineOK, JobInv, MarkerInv,
         SlotInv, AgentRuns, Installing, Missing
<1>11. ASSUME NEW t \in Threads, UpgradeStarts(t) PROVE SlotInv'
  BY <1>11 DEF UpgradeStarts, Goto, locals, slots, counters, IInv, TypeOK,
         LocalsOK, MachineOK, JobInv, MarkerInv, SlotInv, AgentRuns,
         Installing, Missing
<1>12. ASSUME NEW t \in Threads, UpgradeFails(t) PROVE SlotInv'
  BY <1>12 DEF UpgradeFails, Goto, locals, slots, counters, IInv, TypeOK,
         LocalsOK, MachineOK, JobInv, MarkerInv, SlotInv, AgentRuns,
         Installing, Missing
<1>13. ASSUME NEW t \in Threads, AgentSwaps(t) PROVE SlotInv'
  BY <1>13 DEF AgentSwaps, Goto, locals, slots, counters, IInv, TypeOK,
         LocalsOK, MachineOK, JobInv, MarkerInv, SlotInv, AgentRuns,
         Installing, Missing
<1>14. ASSUME NEW t \in Threads, AgentWrites(t) PROVE SlotInv'
  BY <1>14 DEF AgentWrites, Goto, locals, slots, counters, IInv, TypeOK,
         LocalsOK, MachineOK, JobInv, MarkerInv, SlotInv, AgentRuns,
         Installing, Missing
<1>15. ASSUME NEW t \in Threads, AgentSucceeds(t) PROVE SlotInv'
  BY <1>15 DEF AgentSucceeds, Goto, locals, slots, counters, IInv, TypeOK,
         LocalsOK, MachineOK, JobInv, MarkerInv, SlotInv, AgentRuns,
         Installing, Missing
<1>16. ASSUME NEW t \in Threads, MarkFailed(t) PROVE SlotInv'
  BY <1>16 DEF MarkFailed, Goto, locals, slots, counters, IInv, TypeOK,
         LocalsOK, MachineOK, JobInv, MarkerInv, SlotInv, AgentRuns,
         Installing, Missing
<1>17. ASSUME NEW t \in Threads, MarkInstalled(t) PROVE SlotInv'
  BY <1>17 DEF MarkInstalled, Goto, locals, slots, counters, IInv, TypeOK,
         LocalsOK, MachineOK, JobInv, MarkerInv, SlotInv, AgentRuns,
         Installing, Missing
<1>18. ASSUME NEW t \in Threads, NotePin(t) PROVE SlotInv'
  BY <1>18 DEF NotePin, Goto, locals, slots, counters, IInv, TypeOK, LocalsOK,
         MachineOK, JobInv, MarkerInv, SlotInv, AgentRuns, Installing, Missing
<1>19. ASSUME NEW t \in Threads, RunEnds(t) PROVE SlotInv'
  BY <1>19 DEF RunEnds, Return, Goto, OutcomeState, OutcomeWord, JobDone,
         locals, slots, counters, IInv, TypeOK, LocalsOK, MachineOK, JobInv,
         MarkerInv, SlotInv, AgentRuns, Installing, Missing
<1>20. ASSUME NEW t \in Threads, Reboot(t) PROVE SlotInv'
  BY <1>20 DEF Reboot, Goto, RebootRefused, locals, slots, counters, IInv,
         TypeOK, LocalsOK, MachineOK, JobInv, MarkerInv, SlotInv, AgentRuns,
         Installing, Missing
<1>21. ASSUME NEW t \in Threads, RebootPrevious(t) PROVE SlotInv'
  BY <1>21 DEF RebootPrevious, Goto, PreviousRefused, RebootRefused, locals,
         slots, counters, IInv, TypeOK, LocalsOK, MachineOK, JobInv,
         MarkerInv, SlotInv, AgentRuns, Installing, Missing
<1>22. ASSUME NEW t \in Threads, SelectPrevious(t) PROVE SlotInv'
  BY <1>22 DEF SelectPrevious, Goto, locals, slots, counters, IInv, TypeOK,
         LocalsOK, MachineOK, JobInv, MarkerInv, SlotInv, AgentRuns,
         Installing, Missing
<1>23. ASSUME NEW t \in Threads, ShutdownStarts(t) PROVE SlotInv'
  BY <1>23 DEF ShutdownStarts, Return, Goto, locals, slots, counters, IInv,
         TypeOK, LocalsOK, MachineOK, JobInv, MarkerInv, SlotInv, AgentRuns,
         Installing, Missing
<1>24. ASSUME NEW t \in Threads, RebootFails(t) PROVE SlotInv'
  BY <1>24 DEF RebootFails, Return, Goto, locals, slots, counters, IInv,
         TypeOK, LocalsOK, MachineOK, JobInv, MarkerInv, SlotInv, AgentRuns,
         Installing, Missing
<1>25. ASSUME NEW t \in Threads, NEW d \in Images, Apply(t, d) PROVE SlotInv'
  BY <1>25 DEF Apply, Goto, ApplyRefused, locals, slots, counters, IInv,
         TypeOK, LocalsOK, MachineOK, JobInv, MarkerInv, SlotInv, AgentRuns,
         Installing, Missing
<1>26. ASSUME NEW t \in Threads, NEW d \in Images, RunCommits(t, d) PROVE SlotInv'
  BY <1>26 DEF RunCommits, Goto, Abandoned, SameDigest, WriteStarted, locals,
         slots, counters, IInv, TypeOK, LocalsOK, MachineOK, JobInv,
         MarkerInv, SlotInv, AgentRuns, Installing, Missing
<1> QED BY <1>1, <1>2, <1>3, <1>4, <1>5, <1>6, <1>7, <1>8, <1>9, <1>10, <1>11,
           <1>12, <1>13, <1>14, <1>15, <1>16, <1>17, <1>18, <1>19, <1>20,
           <1>21, <1>22, <1>23, <1>24, <1>25, <1>26 DEF Next, Call, Job,
           Restart

-----------------------------------------------------------------------------
LEMMA InitInv == Init => IInv
<1> SUFFICES ASSUME Init PROVE IInv
  OBVIOUS
<1>1. TypeOK
  BY ImagesAssumption DEF Init, TypeOK, DaemonOK, LocalsOK, FilesOK, MachineOK,
     States, Quiet, PCs, Missing
<1>2. JobInv
  BY DEF Init, JobInv, busy, Installing, AgentRuns
<1>3. MarkerInv
  <2>1. up = FALSE /\ runs = 0 /\ \A t \in Threads : pc[t] = "idle"
    BY DEF Init
  <2> QED BY <2>1 DEF MarkerInv, MarkerTellsTheInstall, AgentRuns
<1>4. SlotInv
  BY DEF Init, SlotInv, Installing, AgentRuns
<1> QED BY <1>1, <1>2, <1>3, <1>4 DEF IInv

LEMMA StepInv == IInv /\ [Next]_vars => IInv'
  BY DaemonStep, LocalsStep, FilesStep, MachineStep, JobStep, MarkerStep, SlotStep
     DEF IInv, TypeOK

LEMMA SpecInv == Spec => []IInv
  BY InitInv, StepInv, PTL DEF Spec

(* Every variable of the daemon, its threads, its files and the machine     *)
(* stays in its set.                                                        *)
THEOREM TypeCorrect == Spec => []TypeOK
<1>1. IInv => TypeOK
  BY DEF IInv
<1> QED BY <1>1, SpecInv, PTL

(* The running system is never overwritten: it stays in one of the slots    *)
(* through every install, crash, restart and boot.                          *)
THEOREM KnownGood == Spec => []KnownGoodKept
<1>1. IInv => KnownGoodKept
  BY DEF IInv, SlotInv, KnownGoodKept, SlotPromise!KnownGoodKept
<1> QED BY <1>1, SpecInv, PTL

(* The reboot marker covers every install of this boot, and a live daemon   *)
(* says reboot-pending or applying exactly while it is there.               *)
THEOREM MarkerCorrect == Spec => []MarkerTellsTheInstall
<1>1. IInv => MarkerTellsTheInstall
  BY DEF IInv, MarkerInv
<1> QED BY <1>1, SpecInv, PTL

(* Never two kairos-agent runs: a thread with one owns the job, and the     *)
(* state refuses another job and a cancel.                                  *)
THEOREM SingleWriter == Spec => []OneWriter
<1>1. ASSUME IInv PROVE OneWriter
  <2> SUFFICES ASSUME NEW t \in Threads, pc[t] \in Installing
               PROVE  job = t /\ state = "applying"
    BY DEF OneWriter
  <2>1. job = t
    BY <1>1 DEF IInv, JobInv
  <2>2. state = "applying"
    BY <2>1, <1>1, ThreadsAssumption DEF IInv, JobInv, Installing, AgentRuns
  <2> QED BY <2>1, <2>2
<1> QED BY <1>1, SpecInv, PTL

(* The job is there exactly while a busy state is shown, and its thread is  *)
(* where that state says: Cancel never meets a nil job.                     *)
THEOREM JobCorrect == Spec => []JobBehindState
<1>1. ASSUME IInv PROVE JobBehindState
  BY <1>1 DEF IInv, JobInv, JobBehindState, busy
<1> QED BY <1>1, SpecInv, PTL

-----------------------------------------------------------------------------
(* Two more invariants, over IInv: what a verdict and an announcement rest   *)
(* on while a goroutine is still on its way to them.                        *)

(* The word installed is only under way once the new image is whole, and     *)
(* while a goroutine has not written it nobody else has.                     *)
ReadyInv ==
    /\ InstalledMeansReady
    /\ pending = "installed" => state = "reboot-pending"
    /\ \A t \in Threads :
         /\ pc[t] \in {"written", "done", "marked", "noted"} => active # Missing /\ runs > 0
         /\ pc[t] \in Installing \ {"marked", "noted"} => marker # "installed"

(* An announced version is newer, and so is the one a running job would      *)
(* bring back; a peek goes on only while the reboot is pending.              *)
AnnounceInv ==
    /\ AnnouncedIsNewer
    /\ \A t \in Threads :
         /\ pc[t] = "peek" => state = "reboot-pending"
         /\ job = t /\ pc[t] \in {"fetch", "eval"} /\ prev[t] = "update-available"
              => latest > running

LEMMA ReadyStep == IInv /\ ReadyInv /\ [Next]_vars => ReadyInv'
<1> SUFFICES ASSUME IInv, ReadyInv, [Next]_vars PROVE ReadyInv'
  OBVIOUS
<1> USE ImagesAssumption, ThreadsAssumption
    DEF ReadyInv, InstalledMeansReady, Installing, AgentRuns
<1>1. /\ \A t \in Threads : pc[t] \in Installing => job = t /\ state = "applying" /\ pending # "installed"
      /\ \A t \in Threads : pc[t] \in AgentRuns => runs > 0
      /\ pc \in [Threads -> PCs] /\ runs \in Nat
  BY DEF IInv, JobInv, MarkerInv, TypeOK, LocalsOK, MachineOK
<1>2. CASE UNCHANGED vars
  BY <1>2 DEF vars, daemon, locals, files, slots, counters
<1>3. CASE Start
  <2>1. UNCHANGED <<pc, marker, active, runs>> /\ pending # "installed"
    BY <1>3 DEF Start, locals, files, slots, counters, IInv, JobInv
  <2>2. pending' = "installed" => marker = "installed" /\ state' = "reboot-pending"
    BY <1>3, <2>1 DEF Start, ReadMarker
  <2> QED BY <2>1, <2>2
<1>4. CASE Die \/ Boot
  <2>1. pending' = "" /\ \A t \in Threads : pc'[t] = "idle"
    BY <1>4 DEF Die, Boot, NoDaemon, AllThreadsGone
  <2>2. marker' = "none" \/ UNCHANGED <<marker, active, runs>>
    BY <1>4 DEF Die, Boot, files, slots, counters
  <2> QED BY <2>1, <2>2
<1>5. CASE Cancel
  <2>1. pending # "installed" /\ UNCHANGED <<pending, pc, active, runs, marker>>
    BY <1>5 DEF Cancel, Cancellable, locals, files, slots, counters
  <2> QED BY <2>1
<1>6. ASSUME NEW t \in Threads,
             \/ Check(t) \/ (\E d \in Images : Apply(t, d)) \/ Reboot(t) \/ RebootPrevious(t)
             \/ PeekEnds(t) \/ CheckEnds(t) \/ RunAbandoned(t) \/ RunRefused(t)
             \/ SelectPrevious(t) \/ ShutdownStarts(t) \/ RebootFails(t)
      PROVE  ReadyInv'
  <2>1. UNCHANGED <<pending, active, runs, marker>>
    BY <1>6 DEF Check, Apply, Reboot, RebootPrevious, PeekEnds, CheckEnds, RunAbandoned,
       RunRefused, SelectPrevious, ShutdownStarts, RebootFails, daemon, files, slots, counters
  <2>2. \A u \in Threads : pc'[u] = pc[u] \/ pc'[u] \notin Installing
    BY <1>1, <1>6 DEF Check, Apply, Reboot, RebootPrevious, PeekEnds, CheckEnds, RunAbandoned,
       RunRefused, SelectPrevious, ShutdownStarts, RebootFails, Goto, Return
  <2>3. pending = "installed" => state' = "reboot-pending"
    BY <1>6 DEF Check, Peeks, Apply, ApplyRefused, Reboot, RebootPrevious, PeekEnds, CheckEnds,
       Abandoned, RunAbandoned, RunRefused, SelectPrevious, ShutdownStarts, RebootFails, daemon,
       IInv, JobInv
  <2> QED BY <2>1, <2>2, <2>3
<1>7. ASSUME NEW t \in Threads, NEW d \in Images, RunCommits(t, d) PROVE ReadyInv'
  <2>1. pc[t] = "eval" /\ job = t /\ state = "inspecting"
    BY <1>7, <1>1 DEF RunCommits, Abandoned, IInv, JobInv
  <2>2. /\ marker' = "started" /\ pending' = pending /\ pending # "installed"
        /\ pc' = [pc EXCEPT ![t] = "arm"] /\ UNCHANGED <<active, runs>>
    BY <1>7, <2>1 DEF RunCommits, WriteStarted, Goto, slots, counters
  <2> QED BY <1>1, <2>1, <2>2
<1>8. ASSUME NEW t \in Threads, UpgradeStarts(t) \/ UpgradeFails(t) \/ AgentSwaps(t) \/ AgentWrites(t)
                                \/ AgentSucceeds(t)
      PROVE  ReadyInv'
  <2>1. pc[t] \in Installing /\ pending # "installed" /\ marker # "installed"
        /\ UNCHANGED <<pending, marker>>
    BY <1>1, <1>8 DEF UpgradeStarts, UpgradeFails, AgentSwaps, AgentWrites, AgentSucceeds, daemon,
       files
  <2>2. \A u \in Threads \ {t} : pc'[u] \notin Installing
    BY <1>1, <1>8, <2>1 DEF UpgradeStarts, UpgradeFails, AgentSwaps, AgentWrites, AgentSucceeds, Goto
  <2>3. pc'[t] \in {"written", "done", "marked", "noted"} => active' # Missing /\ runs' > 0
    <3>1. CASE AgentWrites(t)
      BY <1>1, <3>1 DEF AgentWrites, Goto, counters, IInv, SlotInv, Missing
    <3>2. CASE AgentSucceeds(t)
      BY <1>1, <3>2 DEF AgentSucceeds, Goto, slots, counters
    <3>3. CASE UpgradeStarts(t) \/ UpgradeFails(t) \/ AgentSwaps(t)
      BY <1>1, <3>3 DEF UpgradeStarts, UpgradeFails, AgentSwaps, Goto
    <3> QED BY <1>8, <3>1, <3>2, <3>3
  <2> QED BY <2>1, <2>2, <2>3
<1>9. ASSUME NEW t \in Threads, MarkFailed(t) \/ MarkInstalled(t) \/ NotePin(t) \/ RunEnds(t)
      PROVE  ReadyInv'
  <2>1. pc[t] \in Installing /\ pending # "installed" /\ UNCHANGED <<active, runs>>
    BY <1>1, <1>9 DEF MarkFailed, MarkInstalled, NotePin, RunEnds, slots, counters
  <2>2. \A u \in Threads \ {t} : pc'[u] \notin Installing
    BY <1>1, <1>9, <2>1 DEF MarkFailed, MarkInstalled, NotePin, RunEnds, Goto, Return
  <2>3. CASE MarkFailed(t)
    BY <1>1, <2>1, <2>2, <2>3 DEF MarkFailed, TryMark, Goto, daemon
  <2>4. CASE MarkInstalled(t)
    BY <1>1, <2>1, <2>2, <2>4 DEF MarkInstalled, TryMark, Goto, daemon
  <2>5. CASE NotePin(t)
    BY <1>1, <2>1, <2>2, <2>5 DEF NotePin, Goto, daemon
  <2>6. CASE RunEnds(t)
    <3>1. pc'[t] = "idle" /\ marker' = marker /\ state' = "reboot-pending"
          /\ pending' = OutcomeWord(t)
      BY <1>1, <2>6 DEF RunEnds, Return, Goto, OutcomeState, files
    <3> QED BY <1>1, <2>1, <2>2, <2>6, <3>1 DEF RunEnds, OutcomeWord
  <2> QED BY <1>9, <2>3, <2>4, <2>5, <2>6
<1> QED BY <1>2, <1>3, <1>4, <1>5, <1>6, <1>7, <1>8, <1>9 DEF Next, Call, Job, Restart

LEMMA AnnounceStep == IInv /\ AnnounceInv /\ [Next]_vars => AnnounceInv'
<1> SUFFICES ASSUME IInv, AnnounceInv, [Next]_vars PROVE AnnounceInv'
  OBVIOUS
<1> USE ImagesAssumption, ThreadsAssumption DEF AnnounceInv, AnnouncedIsNewer
<1>1. /\ pc \in [Threads -> PCs] /\ prev \in [Threads -> Quiet]
      /\ busy <=> job # NoThread
      /\ job # NoThread => job \in Threads
      /\ state = "checking" => pc[job] = "fetch"
      /\ state = "inspecting" => pc[job] = "eval"
      /\ state = "applying" => pc[job] \in Installing
  BY DEF IInv, JobInv, TypeOK, LocalsOK, DaemonOK, busy
<1>2. CASE UNCHANGED vars
  BY <1>2 DEF vars, daemon, locals, slots
<1>3. CASE Start
  BY <1>1, <1>3 DEF Start, ReadMarker, locals, slots, IInv, JobInv
<1>4. CASE Die \/ Boot
  BY <1>4 DEF Die, Boot, NoDaemon, AllThreadsGone
<1>5. CASE Cancel
  <2>1. job \in Threads /\ pc[job] \in {"fetch", "eval"} /\ state # "reboot-pending"
    BY <1>1, <1>5 DEF Cancel, Cancellable, busy
  <2>2. job' = NoThread /\ UNCHANGED <<pc, prev, latest, running>>
        /\ state' = IF prev[job] = "error" THEN "idle" ELSE prev[job]
    BY <1>5 DEF Cancel, JobDone, locals, slots
  <2> QED BY <2>1, <2>2
<1>6. ASSUME NEW t \in Threads, Check(t) PROVE AnnounceInv'
  BY <1>1, <1>6 DEF Check, Peeks, Goto, slots, busy
<1>7. ASSUME NEW t \in Threads, NEW d \in Images, Apply(t, d) PROVE AnnounceInv'
  BY <1>1, <1>7 DEF Apply, ApplyRefused, Goto, slots, busy
<1>8. ASSUME NEW t \in Threads, PeekEnds(t) PROVE AnnounceInv'
  <2>1. state = "reboot-pending" /\ state' = state /\ job = NoThread /\ job' = job
    BY <1>1, <1>8 DEF PeekEnds, busy
  <2> QED BY <1>1, <1>8, <2>1 DEF PeekEnds, Return, Goto
<1>9. ASSUME NEW t \in Threads, CheckEnds(t) PROVE AnnounceInv'
  <2>1. CASE Abandoned(t)
    BY <1>1, <1>9, <2>1 DEF CheckEnds, Abandoned, Return, Goto, slots
  <2>2. CASE ~Abandoned(t)
    <3>1. job' = NoThread /\ running' = running /\ state # "reboot-pending"
      BY <1>1, <1>9, <2>2 DEF CheckEnds, Abandoned, JobDone, slots, busy
    <3>2. state' = "update-available" => latest' > running
      BY <1>9, <2>2 DEF CheckEnds, SetLatest, Announces
    <3>3. \A u \in Threads : pc'[u] # "peek"
      BY <1>1, <1>9, <3>1 DEF CheckEnds, Return, Goto
    <3> QED BY <3>1, <3>2, <3>3
  <2> QED BY <2>1, <2>2
<1>10. ASSUME NEW t \in Threads, RunAbandoned(t) PROVE AnnounceInv'
  BY <1>1, <1>10 DEF RunAbandoned, Return, Goto, daemon, slots
<1>11. ASSUME NEW t \in Threads, RunRefused(t) PROVE AnnounceInv'
  BY <1>1, <1>11 DEF RunRefused, Abandoned, JobDone, Return, Goto, busy, slots
<1>12. ASSUME NEW t \in Threads, NEW d \in Images, RunCommits(t, d) PROVE AnnounceInv'
  BY <1>1, <1>12 DEF RunCommits, Abandoned, Goto, busy, slots
<1>13. ASSUME NEW t \in Threads,
              \/ UpgradeStarts(t) \/ UpgradeFails(t) \/ AgentSwaps(t) \/ AgentWrites(t)
              \/ AgentSucceeds(t) \/ MarkFailed(t) \/ MarkInstalled(t) \/ NotePin(t)
       PROVE  AnnounceInv'
  BY <1>1, <1>13 DEF UpgradeStarts, UpgradeFails, AgentSwaps, AgentWrites, AgentSucceeds,
     MarkFailed, MarkInstalled, NotePin, Goto, daemon, slots
<1>14. ASSUME NEW t \in Threads, RunEnds(t) PROVE AnnounceInv'
  BY <1>1, <1>14 DEF RunEnds, JobDone, OutcomeState, Return, Goto, slots
<1>15. ASSUME NEW t \in Threads, Reboot(t) \/ RebootPrevious(t) PROVE AnnounceInv'
  BY <1>1, <1>15 DEF Reboot, RebootPrevious, Goto, slots
<1>16. ASSUME NEW t \in Threads, SelectPrevious(t) \/ ShutdownStarts(t) \/ RebootFails(t)
       PROVE  AnnounceInv'
  BY <1>1, <1>16 DEF SelectPrevious, ShutdownStarts, RebootFails, Return, Goto, daemon, slots
<1> QED BY <1>2, <1>3, <1>4, <1>5, <1>6, <1>7, <1>8, <1>9, <1>10, <1>11, <1>12, <1>13, <1>14,
           <1>15, <1>16 DEF Next, Call, Job, Restart

(* "Only `installed` means the new system is ready": the word is there only  *)
(* over a whole image that was written in this boot, through any restart of  *)
(* the daemon (MarkInstalled, NewDaemon).                                   *)
THEOREM InstalledIsWhole == Spec => []InstalledMeansReady
<1>1. Init => ReadyInv
  BY DEF Init, ReadyInv, InstalledMeansReady, Installing, AgentRuns
<1>2. ReadyInv => InstalledMeansReady
  BY DEF ReadyInv
<1> QED BY <1>1, <1>2, ReadyStep, SpecInv, PTL DEF Spec

(* update-available is shown only over a version newer than the running one, *)
(* also when a cancelled job brings the state back.                          *)
THEOREM AnnouncedCorrect == Spec => []AnnouncedIsNewer
<1>1. Init => AnnounceInv
  BY DEF Init, AnnounceInv, AnnouncedIsNewer
<1>2. AnnounceInv => AnnouncedIsNewer
  BY DEF AnnounceInv
<1> QED BY <1>1, <1>2, AnnounceStep, SpecInv, PTL DEF Spec

-----------------------------------------------------------------------------
(* What a step may not do.                                                   *)

(* From the commit to its verdict, a job installs what was reviewed.         *)
ReviewInv == \A t \in Threads : pc[t] \in Installing => source[t] = reviewed[t]

LEMMA ReviewStep == IInv /\ ReviewInv /\ [Next]_vars => ReviewInv'
<1> SUFFICES ASSUME IInv, ReviewInv, [Next]_vars PROVE ReviewInv'
  OBVIOUS
<1> USE DEF ReviewInv, Installing, AgentRuns
<1>1. /\ pc \in [Threads -> PCs]
      /\ source \in [Threads -> Images \cup {Missing}]
      /\ reviewed \in [Threads -> Images \cup {Missing}]
  BY DEF IInv, TypeOK, LocalsOK
<1>2. CASE UNCHANGED locals
  BY <1>2 DEF locals
<1>3. CASE Die \/ Boot
  BY <1>3 DEF Die, Boot, NoDaemon, AllThreadsGone
<1>4. ASSUME NEW t \in Threads, NEW d \in Images, RunCommits(t, d) PROVE ReviewInv'
  BY <1>1, <1>4 DEF RunCommits, SameDigest, Goto
<1>5. ASSUME NEW t \in Threads, NEW d \in Images, Apply(t, d) PROVE ReviewInv'
  BY <1>1, <1>5 DEF Apply, Goto
<1>6. ASSUME NEW t \in Threads,
             \/ PeekEnds(t) \/ CheckEnds(t) \/ RunAbandoned(t) \/ RunRefused(t) \/ RunEnds(t)
             \/ ShutdownStarts(t) \/ RebootFails(t)
      PROVE  ReviewInv'
  <2>1. Return(t)
    BY <1>6 DEF PeekEnds, CheckEnds, RunAbandoned, RunRefused, RunEnds, ShutdownStarts, RebootFails
  <2> QED BY <1>1, <2>1 DEF Return, Goto
<1>7. ASSUME NEW t \in Threads,
             Check(t) \/ Reboot(t) \/ RebootPrevious(t) \/ SelectPrevious(t)
      PROVE  ReviewInv'
  BY <1>1, <1>7 DEF Check, Reboot, RebootPrevious, SelectPrevious, Goto
<1>8. ASSUME NEW t \in Threads,
             \/ UpgradeStarts(t) \/ UpgradeFails(t) \/ AgentSwaps(t) \/ AgentWrites(t)
             \/ AgentSucceeds(t) \/ MarkFailed(t) \/ MarkInstalled(t) \/ NotePin(t)
      PROVE  ReviewInv'
  <2>1. pc[t] \in Installing /\ UNCHANGED <<reviewed, source>>
    BY <1>8 DEF UpgradeStarts, UpgradeFails, AgentSwaps, AgentWrites, AgentSucceeds, MarkFailed,
       MarkInstalled, NotePin
  <2>2. \E p \in PCs : Goto(t, p)
    BY <1>8 DEF UpgradeStarts, UpgradeFails, AgentSwaps, AgentWrites, AgentSucceeds, MarkFailed,
       MarkInstalled, NotePin, PCs, NetSlot
  <2> QED BY <1>1, <2>1, <2>2 DEF Goto
<1>9. CASE Start \/ Cancel \/ UNCHANGED vars
  BY <1>2, <1>9 DEF Start, Cancel, vars
<1> QED BY <1>3, <1>4, <1>5, <1>6, <1>7, <1>8, <1>9 DEF Next, Call, Job, Restart

(* The slot gets the digest the user reviewed, although the tag may have     *)
(* moved and another job been started and cancelled in between (run).        *)
THEOREM InstallsWhatWasReviewed == Spec => ReviewedOnly
<1> DEFINE Written == \/ active' \in {active, Missing}
                      \/ \E t \in Threads : pc[t] = "swapped" /\ active' = reviewed[t]
<1>1. Init => ReviewInv
  BY DEF Init, ReviewInv, Installing, AgentRuns
<1>2. ASSUME IInv, ReviewInv, [Next]_vars PROVE [Written]_active
  <2>1. ASSUME NEW t \in Threads, AgentWrites(t) PROVE Written
    BY <1>2, <2>1 DEF AgentWrites, ReviewInv, Installing, AgentRuns
  <2>2. ASSUME NEW t \in Threads, AgentSwaps(t) PROVE Written
    BY <2>2 DEF AgentSwaps
  <2>3. CASE Boot
    BY <2>3 DEF Boot
  <2>4. CASE UNCHANGED slots
    BY <2>4 DEF slots
  <2>5. ASSUME NEW t \in Threads, Call(t) \/ Restart(t) PROVE UNCHANGED slots
    BY <2>5 DEF Call, Restart, Check, Apply, Reboot, RebootPrevious, SelectPrevious,
       ShutdownStarts, RebootFails
  <2>6. ASSUME NEW t \in Threads, Job(t), ~AgentWrites(t), ~AgentSwaps(t) PROVE UNCHANGED slots
    BY <2>6 DEF Job, PeekEnds, CheckEnds, RunAbandoned, RunRefused, RunCommits, UpgradeStarts,
       UpgradeFails, AgentSucceeds, MarkFailed, MarkInstalled, NotePin, RunEnds
  <2>7. CASE Start \/ Die \/ Cancel \/ UNCHANGED vars
    BY <2>4, <2>7 DEF Start, Die, Cancel, vars
  <2> QED BY <1>2, <2>1, <2>2, <2>3, <2>4, <2>5, <2>6, <2>7 DEF Next
<1>3. IInv /\ ReviewInv /\ [Next]_vars => [Written]_active
  BY <1>2
<1> QED BY <1>1, <1>3, ReviewStep, SpecInv, PTL DEF Spec, ReviewedOnly

(* A goroutine whose job was cancelled ends without a trace in the daemon    *)
(* or on disk, whatever job runs now (Check, run: d.job != j).               *)
THEOREM NoTrace == Spec => AbandonedLeavesNoTrace
<1> DEFINE NoTraceStep ==
             \A t \in Threads :
               pc[t] \in {"fetch", "eval"} /\ job # t /\ pc'[t] # pc[t] /\ up'
                 => UNCHANGED <<daemon, files>>
<1>1. ASSUME IInv, [Next]_vars PROVE NoTraceStep
  <2> SUFFICES ASSUME NEW t \in Threads, pc[t] \in {"fetch", "eval"}, job # t, pc'[t] # pc[t], up'
               PROVE  UNCHANGED <<daemon, files>>
    OBVIOUS
  <2>1. pc \in [Threads -> PCs]
    BY <1>1 DEF IInv, TypeOK, LocalsOK
  <2>2. PICK u \in Threads : Call(u) \/ Job(u) \/ Restart(u)
    BY <1>1 DEF Next, Start, Die, Cancel, Boot, NoDaemon, vars, locals
  <2>3. \A v \in Threads \ {u} : pc'[v] = pc[v]
    BY <2>1, <2>2 DEF Call, Job, Restart, Check, Apply, Reboot, RebootPrevious, PeekEnds,
       CheckEnds, RunAbandoned, RunRefused, RunCommits, UpgradeStarts, UpgradeFails, AgentSwaps,
       AgentWrites, AgentSucceeds, MarkFailed, MarkInstalled, NotePin, RunEnds, SelectPrevious,
       ShutdownStarts, RebootFails, Return, Goto
  <2>4. u = t
    BY <2>3
  <2>5. ~Call(t)
    BY DEF Call, Check, Apply, Reboot, RebootPrevious
  <2>6. ~Restart(t)
    BY DEF Restart, SelectPrevious, ShutdownStarts, RebootFails
  <2>7. CheckEnds(t) \/ RunAbandoned(t)
    BY <2>2, <2>4, <2>5, <2>6 DEF Job, PeekEnds, RunRefused, RunCommits, UpgradeStarts,
       UpgradeFails, AgentSwaps, AgentWrites, AgentSucceeds, MarkFailed, MarkInstalled, NotePin,
       RunEnds, Abandoned, AgentRuns
  <2> QED BY <2>7 DEF CheckEnds, RunAbandoned, Abandoned, daemon, files
<1>2. IInv /\ [Next]_vars => [NoTraceStep]_vars
  BY <1>1
<1> QED BY <1>2, SpecInv, PTL DEF Spec, AbandonedLeavesNoTrace

(* Reboot-pending outlives everything but the process and the boot: no       *)
(* answer of a goroutine left behind takes it back (errRebootPending).       *)
THEOREM StaysPending == Spec => PendingUntilBoot
<1> DEFINE Stays == state = "reboot-pending" /\ boots' = boots /\ up'
                      => state' = "reboot-pending" /\ pending' = pending
<1>1. ASSUME IInv, [Next]_vars PROVE Stays
  <2> SUFFICES ASSUME state = "reboot-pending", boots' = boots, up'
               PROVE  UNCHANGED <<state, pending>>
    OBVIOUS
  <2>1. up /\ job = NoThread /\ \A t \in Threads : pc[t] \notin Installing
    BY <1>1, ThreadsAssumption DEF IInv, JobInv, busy
  <2>2. CASE Start \/ Die \/ Cancel \/ UNCHANGED vars
    BY <2>1, <2>2 DEF Start, Die, Cancel, Cancellable, NoDaemon, vars, daemon
  <2>3. CASE Boot
    BY <1>1, <2>3 DEF Boot, IInv, TypeOK, MachineOK
  <2>4. ASSUME NEW t \in Threads, Call(t) \/ Restart(t) PROVE UNCHANGED <<state, pending>>
    BY <2>4 DEF Call, Restart, Check, Peeks, Apply, ApplyRefused, Reboot, RebootPrevious,
       SelectPrevious, ShutdownStarts, RebootFails, daemon
  <2>5. ASSUME NEW t \in Threads, Job(t) PROVE UNCHANGED <<state, pending>>
    <3>1. job # t /\ pc[t] \notin Installing
      BY <2>1, ThreadsAssumption
    <3>2. PeekEnds(t) \/ CheckEnds(t) \/ RunAbandoned(t)
      BY <2>5, <3>1 DEF Job, RunRefused, RunCommits, Abandoned, UpgradeStarts, UpgradeFails,
         AgentSwaps, AgentWrites, AgentSucceeds, MarkFailed, MarkInstalled, NotePin, RunEnds,
         Installing, AgentRuns
    <3> QED BY <3>1, <3>2 DEF PeekEnds, CheckEnds, RunAbandoned, Abandoned, daemon
  <2> QED BY <1>1, <2>2, <2>3, <2>4, <2>5 DEF Next
<1>2. IInv /\ [Next]_vars => [Stays]_vars
  BY <1>1
<1> QED BY <1>2, SpecInv, PTL DEF Spec, PendingUntilBoot

(* One reboot call per boot: while it is on its way, and once it succeeded,   *)
(* rebooting is set and no install is under way; a call that is to select     *)
(* the fallback entry found no install waiting.                              *)
Rebooters == {"reboot", "select", "restart"}

RebootInv ==
    /\ reboots <= 1
    /\ reboots = 0 => ~rebooting /\ ~shutting
    /\ rebooting \/ (shutting /\ up) => state \notin {"inspecting", "applying"}
    /\ shutting /\ up => rebooting
    /\ runs > 0 => managed
    /\ \A t \in Threads : pc[t] \in Rebooters =>
         /\ rebooting /\ ~shutting /\ reboots = 1 /\ up
         /\ \A u \in Threads : pc[u] \in Rebooters => u = t
         /\ pc[t] = "select" => state # "reboot-pending"

LEMMA RebootStep ==
    ASSUME MaxReboots <= 1, IInv, RebootInv, [Next]_vars
    PROVE  RebootInv'
<1> USE ImagesAssumption, ThreadsAssumption, BoundsAssumption DEF RebootInv, Rebooters
<1>1. /\ pc \in [Threads -> PCs] /\ runs \in Nat /\ reboots \in Nat
      /\ \A t \in Threads : pc[t] \in Installing => job = t /\ state = "applying"
      /\ state \in {"inspecting", "applying"} => up /\ managed
      /\ ~up => state = "idle"
  <2>1. pc \in [Threads -> PCs] /\ runs \in Nat /\ reboots \in Nat
    BY DEF IInv, TypeOK, LocalsOK, MachineOK
  <2>2. ASSUME NEW t \in Threads, pc[t] \in Installing PROVE job = t /\ state = "applying"
    BY <2>2 DEF IInv, JobInv, Installing, AgentRuns
  <2>3. /\ state \in {"inspecting", "applying"} => up /\ managed
        /\ ~up => state = "idle"
    BY DEF IInv, JobInv, busy
  <2> QED BY <2>1, <2>2, <2>3
<1>2. CASE UNCHANGED vars
  BY <1>2 DEF vars, daemon, locals, counters
<1>3. CASE Start
  <2>1. /\ ~shutting /\ ~up /\ state' \notin {"inspecting", "applying"}
        /\ UNCHANGED <<reboots, rebooting, shutting, runs, managed, pc>>
    BY <1>3 DEF Start, locals, counters
  <2> QED BY <2>1
<1>4. CASE Die
  BY <1>4 DEF Die, NoDaemon, AllThreadsGone, counters
<1>5. CASE Boot
  <2>1. /\ reboots' = 0 /\ runs' = 0 /\ rebooting' = FALSE /\ shutting' = FALSE /\ state' = "idle"
        /\ \A t \in Threads : pc'[t] = "idle"
    BY <1>5 DEF Boot, NoDaemon, AllThreadsGone
  <2> QED BY <2>1
<1>6. CASE Cancel
  <2>1. /\ state' \notin {"inspecting", "applying", "reboot-pending"}
        /\ UNCHANGED <<up, reboots, rebooting, shutting, runs, managed, pc>>
    <3>1. prev[job] \in Quiet
      BY <1>1, <1>6 DEF Cancel, Cancellable, IInv, JobInv, TypeOK, DaemonOK, LocalsOK, busy
    <3> QED BY <1>6, <3>1 DEF Cancel, locals, counters, Quiet
  <2> QED BY <2>1
<1>7. ASSUME NEW t \in Threads, Reboot(t) \/ RebootPrevious(t) PROVE RebootInv'
  <2>1. reboots = 0 /\ reboots' = 1 /\ rebooting' = TRUE /\ up /\ ~shutting
    BY <1>1, <1>7 DEF Reboot, RebootPrevious
  <2>2. /\ state \notin {"inspecting", "applying"}
        /\ UNCHANGED <<up, state, shutting, runs, managed>>
    BY <1>7 DEF Reboot, RebootPrevious, RebootRefused, PreviousRefused
  <2>3. \/ pc' = [pc EXCEPT ![t] = "reboot"]
        \/ pc' = [pc EXCEPT ![t] = "select"] /\ state # "reboot-pending"
    BY <1>7 DEF Reboot, RebootPrevious, PreviousRefused, Goto
  <2>4. \A u \in Threads : pc[u] \notin Rebooters
    BY <2>1
  <2> QED BY <1>1, <2>1, <2>2, <2>3, <2>4
<1>8. ASSUME NEW t \in Threads, SelectPrevious(t) \/ ShutdownStarts(t) \/ RebootFails(t)
      PROVE  RebootInv'
  <2>1. pc[t] \in Rebooters /\ UNCHANGED <<up, state, reboots, runs, managed>>
    BY <1>8 DEF SelectPrevious, ShutdownStarts, RebootFails, daemon, counters
  <2>2. /\ rebooting /\ ~shutting /\ reboots = 1 /\ up
        /\ \A u \in Threads \ {t} : pc[u] \notin Rebooters
    BY <2>1
  <2>3. CASE SelectPrevious(t)
    BY <1>1, <2>1, <2>2, <2>3 DEF SelectPrevious, Goto, daemon
  <2>4. CASE ShutdownStarts(t) \/ RebootFails(t)
    <3>1. \A u \in Threads : pc'[u] \notin Rebooters
      BY <1>1, <2>2, <2>4 DEF ShutdownStarts, RebootFails, Return, Goto
    <3>2. \/ shutting' = TRUE /\ rebooting' = rebooting
          \/ shutting' = shutting /\ rebooting' = FALSE
      BY <2>4 DEF ShutdownStarts, RebootFails, daemon
    <3>3. state \notin {"inspecting", "applying"} /\ reboots' = 1
      BY <2>1, <2>2
    <3>4. state' \notin {"inspecting", "applying"} /\ (runs' > 0 => managed')
      BY <2>1, <3>3
    <3>5. reboots' # 0 /\ reboots' <= 1
      BY <3>3
    <3>6. shutting' => rebooting'
      BY <2>2, <3>2
    <3> QED BY <3>1, <3>4, <3>5, <3>6
  <2> QED BY <1>8, <2>3, <2>4
<1>9. ASSUME NEW t \in Threads, Check(t) \/ (\E d \in Images : Apply(t, d)) \/ Job(t)
      PROVE  RebootInv'
  <2>1. /\ UNCHANGED <<up, rebooting, shutting, reboots, managed>>
        /\ \A u \in Threads \ {t} : pc'[u] = pc[u]
        /\ pc[t] \notin Rebooters /\ pc'[t] \notin Rebooters
    <3>1. CASE Check(t) \/ \E d \in Images : Apply(t, d)
      BY <1>1, <3>1 DEF Check, Apply, Goto, counters
    <3>2. CASE PeekEnds(t) \/ CheckEnds(t) \/ RunAbandoned(t) \/ RunRefused(t) \/ RunEnds(t)
      BY <1>1, <3>2 DEF PeekEnds, CheckEnds, RunAbandoned, RunRefused, RunEnds, Return, Goto,
         daemon, counters
    <3>3. CASE \E d \in Images : RunCommits(t, d)
      BY <1>1, <3>3 DEF RunCommits, Goto, counters
    <3>4. CASE \/ UpgradeStarts(t) \/ UpgradeFails(t) \/ AgentSwaps(t) \/ AgentWrites(t)
               \/ AgentSucceeds(t) \/ MarkFailed(t) \/ MarkInstalled(t) \/ NotePin(t)
      BY <1>1, <3>4 DEF UpgradeStarts, UpgradeFails, AgentSwaps, AgentWrites, AgentSucceeds,
         MarkFailed, MarkInstalled, NotePin, Goto, daemon, counters, AgentRuns
    <3> QED BY <1>9, <3>1, <3>2, <3>3, <3>4 DEF Job
  <2>2. runs' > 0 => managed
    <3>1. CASE UpgradeStarts(t)
      BY <1>1, <3>1 DEF UpgradeStarts, Installing
    <3>2. CASE ~UpgradeStarts(t)
      BY <1>9, <3>2 DEF Job, Check, Apply, PeekEnds, CheckEnds, RunAbandoned, RunRefused, RunEnds,
         RunCommits, UpgradeFails, AgentSwaps, AgentWrites, AgentSucceeds, MarkFailed,
         MarkInstalled, NotePin, counters
    <3> QED BY <3>1, <3>2
  <2>3. rebooting => state' \notin {"inspecting", "applying"}
    BY <1>1, <1>9 DEF Job, Check, Apply, ApplyRefused, PeekEnds, CheckEnds, RunAbandoned,
       RunRefused, RunEnds, OutcomeState, RunCommits, UpgradeStarts, UpgradeFails, AgentSwaps,
       AgentWrites, AgentSucceeds, MarkFailed, MarkInstalled, NotePin, daemon
  <2>4. rebooting /\ state # "reboot-pending" => state' # "reboot-pending"
    BY <1>1, <1>9 DEF Job, Check, Apply, PeekEnds, CheckEnds, RunAbandoned, RunRefused, RunEnds,
       RunCommits, UpgradeStarts, UpgradeFails, AgentSwaps, AgentWrites, AgentSucceeds,
       MarkFailed, MarkInstalled, NotePin, daemon, Installing
  <2> QED BY <2>1, <2>2, <2>3, <2>4
<1> QED BY <1>2, <1>3, <1>4, <1>5, <1>6, <1>7, <1>8, <1>9 DEF Next, Call, Restart

LEMMA RebootsOnce == ASSUME MaxReboots <= 1 PROVE Spec => []RebootInv
<1>1. ASSUME Init PROVE RebootInv
  <2>1. /\ reboots = 0 /\ runs = 0 /\ rebooting = FALSE /\ shutting = FALSE /\ state = "idle"
        /\ \A t \in Threads : pc[t] = "idle"
    BY <1>1 DEF Init
  <2> QED BY <2>1 DEF RebootInv, Rebooters
<1>2. IInv /\ RebootInv /\ [Next]_vars => RebootInv'
  BY RebootStep
<1> QED BY <1>1, <1>2, SpecInv, PTL DEF Spec

(* ErrRebooting, and "Once it is asked, no install starts until the reboot   *)
(* fails" (Reboot), where there is one reboot call in a boot: that a second  *)
(* one fails is the only way kairos-agent runs under a shutdown.             *)
THEOREM NoInstallUnderShutdown ==
    ASSUME MaxReboots <= 1 PROVE Spec => []NoInstallInShutdown
<1>1. ASSUME IInv, RebootInv PROVE NoInstallInShutdown
  <2> SUFFICES ASSUME shutting, NEW t \in Threads, pc[t] \in AgentRuns PROVE FALSE
    BY DEF NoInstallInShutdown, Writers
  <2>1. job = t /\ state = "applying"
    BY <1>1, ThreadsAssumption DEF IInv, JobInv, Installing, AgentRuns
  <2>2. up
    BY <1>1, <2>1 DEF IInv, JobInv, busy
  <2> QED BY <1>1, <2>1, <2>2 DEF RebootInv
<1> QED BY <1>1, RebootsOnce, SpecInv, PTL

(* RebootPrevious refuses an install that waits, under the same condition:   *)
(* the fallback entry is selected only while no slot was written.            *)
THEOREM PreviousEntry ==
    ASSUME MaxReboots <= 1 PROVE Spec => PreviousIsPrevious
<1> DEFINE Unwritten == oneShot' /\ ~oneShot => runs = 0
<1>1. ASSUME IInv, RebootInv, [Next]_vars PROVE Unwritten
  <2>1. ASSUME NEW t \in Threads, SelectPrevious(t) PROVE runs = 0
    <3>1. rebooting /\ up /\ state \notin {"reboot-pending", "inspecting", "applying"}
      BY <1>1, <2>1 DEF SelectPrevious, RebootInv, Rebooters
    <3>2. runs \in Nat /\ (runs > 0 => managed)
      BY <1>1 DEF IInv, TypeOK, MachineOK, RebootInv
    <3> QED BY <1>1, <3>1, <3>2 DEF IInv, MarkerInv, MarkerTellsTheInstall
  <2>2. ASSUME NEW t \in Threads, Call(t) \/ Job(t) \/ ShutdownStarts(t) \/ RebootFails(t)
        PROVE  oneShot' = oneShot \/ oneShot' = FALSE
    BY <2>2 DEF Call, Job, Check, Apply, Reboot, RebootPrevious, PeekEnds, CheckEnds,
       RunAbandoned, RunRefused, RunCommits, UpgradeStarts, UpgradeFails, AgentSwaps, AgentWrites,
       AgentSucceeds, MarkFailed, MarkInstalled, NotePin, RunEnds, ShutdownStarts, RebootFails
  <2>3. CASE Start \/ Die \/ Cancel \/ Boot \/ UNCHANGED vars
    BY <2>3 DEF Start, Die, Cancel, Boot, vars
  <2> QED BY <1>1, <2>1, <2>2, <2>3 DEF Next, Restart
<1>2. IInv /\ RebootInv /\ [Next]_vars => [Unwritten]_vars
  BY <1>1
<1> QED BY <1>2, RebootsOnce, SpecInv, PTL DEF Spec, PreviousIsPrevious

-----------------------------------------------------------------------------
(* The refinement.  Only the actions of kairos-agent, the end of a process  *)
(* and the boot are steps of SlotUpdate.                                    *)

(* A thread that keeps out of kairos-agent leaves the session alone.        *)
LEMMA WritersUnchanged ==
  ASSUME NEW t \in Threads, NEW p \in PCs, LocalsOK, Goto(t, p),
         pc[t] \notin AgentRuns, p \notin AgentRuns
  PROVE  Writers' = Writers
<1>1. \A u \in Threads : pc'[u] \in AgentRuns <=> pc[u] \in AgentRuns
  BY DEF LocalsOK, Goto
<1> QED BY <1>1 DEF Writers

(* A step that leaves the slots, the runs and the writers alone is a        *)
(* stuttering step of SlotUpdate.                                           *)
LEMMA SlotStutter ==
  ASSUME UNCHANGED <<slots, runs>>, Writers' = Writers
  PROVE  UNCHANGED SlotPromise!vars
  BY DEF slots, Session, SlotPromise!vars

LEMMA RefinesInit == Init => SlotPromise!Init
  BY DEF Init, SlotPromise!Init, Session

(* kairos-agent starts, in a session that was fresh.                        *)
LEMMA RefinesStart ==
  ASSUME IInv, NEW t \in Threads, UpgradeStarts(t)
  PROVE  SlotPromise!Open
<1>1. runs = 0
  BY DEF IInv, MarkerInv, UpgradeStarts
<1>2. runs' = 1
  BY <1>1 DEF UpgradeStarts
<1>3. pc'[t] = "upgrade"
  BY DEF IInv, TypeOK, LocalsOK, UpgradeStarts, Goto
<1>4. Writers' # {}
  BY <1>3 DEF Writers, AgentRuns
<1> QED BY <1>1, <1>2, <1>4 DEF UpgradeStarts, slots, Session, SlotPromise!Open

(* What is common to the steps of a running kairos-agent: it is the only    *)
(* one, in an open session.                                                 *)
LEMMA OnlyWriter ==
  ASSUME IInv, NEW t \in Threads, pc[t] \in AgentRuns
  PROVE  /\ Writers = {t}
         /\ Session = "open"
<1>1. Writers = {t}
  BY DEF IInv, JobInv, Writers, Installing
<1>2. runs # 0
  BY DEF IInv, TypeOK, MachineOK, MarkerInv
<1> QED BY <1>1, <1>2 DEF Session

(* It goes on, and stays the only one.                                      *)
LEMMA WriterGoesOn ==
  ASSUME IInv, NEW t \in Threads, pc[t] \in AgentRuns, UNCHANGED runs,
         NEW p \in AgentRuns, Goto(t, p)
  PROVE  Session' = "open"
<1>1. pc'[t] \in AgentRuns
  BY DEF IInv, TypeOK, LocalsOK, Goto
<1>2. runs' # 0
  BY DEF IInv, TypeOK, MachineOK, MarkerInv
<1> QED BY <1>1, <1>2 DEF Session, Writers

(* It ends, and the session is closed until the next boot.                  *)
LEMMA WriterEnds ==
  ASSUME IInv, NEW t \in Threads, pc[t] \in AgentRuns, UNCHANGED <<slots, runs>>,
         NEW p, Goto(t, p), p \notin AgentRuns
  PROVE  SlotPromise!Close
<1>1. Session = "open" /\ Writers = {t}
  BY OnlyWriter
<1>2. \A u \in Threads : pc'[u] \notin AgentRuns
  BY <1>1 DEF IInv, TypeOK, LocalsOK, Goto, Writers
<1>3. runs' # 0
  BY DEF IInv, TypeOK, MachineOK, MarkerInv
<1>4. Session' = "closed"
  BY <1>2, <1>3 DEF Session, Writers
<1> QED BY <1>1, <1>4 DEF slots, SlotPromise!Close

LEMMA RefinesAgent ==
  ASSUME IInv, NEW t \in Threads, AgentSwaps(t) \/ AgentWrites(t)
  PROVE  [SlotPromise!Next]_(SlotPromise!vars)
<1>1. CASE AgentSwaps(t)
  <2>1. pc[t] = "upgrade" /\ Goto(t, "swapped") /\ UNCHANGED runs
    BY <1>1 DEF AgentSwaps, counters
  <2>2. Session = "open" /\ Session' = "open"
    BY <2>1, OnlyWriter, WriterGoesOn DEF AgentRuns
  <2>3. running = IF fellBack THEN passive ELSE active
    BY <2>1 DEF IInv, TypeOK, MachineOK, SlotInv
  <2>4. passive' = running /\ active' = Missing /\ UNCHANGED <<running, fellBack>>
    BY <1>1, <2>3 DEF AgentSwaps
  <2>5. CASE active = Missing
    <3>1. fellBack
      BY <2>3, <2>5, ImagesAssumption DEF IInv, TypeOK, MachineOK, Missing
    <3> QED BY <3>1, <2>2, <2>3, <2>4, <2>5 DEF SlotPromise!vars
  <2>6. CASE active # Missing
    BY <2>2, <2>3, <2>4, <2>6 DEF SlotPromise!Next, SlotPromise!Swap
  <2> QED BY <2>5, <2>6
<1>2. CASE AgentWrites(t)
  <2>1. pc[t] = "swapped" /\ Goto(t, "written") /\ UNCHANGED runs
    BY <1>2 DEF AgentWrites, counters
  <2>2. Session = "open" /\ Session' = "open"
    BY <2>1, OnlyWriter, WriterGoesOn DEF AgentRuns
  <2>3. active = Missing /\ active' \in Images
    BY <1>2, <2>1 DEF AgentWrites, IInv, SlotInv, Installing, AgentRuns
  <2> QED BY <1>2, <2>2, <2>3 DEF AgentWrites, SlotPromise!Next, SlotPromise!Write
<1> QED BY <1>1, <1>2

LEMMA RefinesEnd ==
  ASSUME IInv, NEW t \in Threads, UpgradeFails(t) \/ AgentSucceeds(t)
  PROVE  [SlotPromise!Next]_(SlotPromise!vars)
<1>1. UNCHANGED <<slots, runs>>
  BY DEF UpgradeFails, AgentSucceeds, counters
<1>2. PICK p \in {"failed", "done"} : Goto(t, p)
  BY DEF UpgradeFails, AgentSucceeds
<1>3. CASE pc[t] \in AgentRuns
  BY <1>1, <1>2, <1>3, WriterEnds DEF AgentRuns, SlotPromise!Next
<1>4. CASE pc[t] \notin AgentRuns
  BY <1>1, <1>2, <1>4, WritersUnchanged, SlotStutter
     DEF IInv, TypeOK, PCs, Installing, AgentRuns
<1> QED BY <1>3, <1>4

(* The process ends: with a kairos-agent the session closes, without one    *)
(* nothing happens to the slots.                                            *)
LEMMA RefinesDie ==
  ASSUME IInv, Die
  PROVE  [SlotPromise!Next]_(SlotPromise!vars)
<1>1. UNCHANGED <<slots, runs>>
  BY DEF Die, counters
<1>2. Writers' = {}
  BY DEF Die, NoDaemon, AllThreadsGone, Writers, AgentRuns
<1>3. CASE Writers = {}
  BY <1>1, <1>2, <1>3, SlotStutter
<1>4. ASSUME NEW t \in Writers PROVE SlotPromise!Close
  <2>1. Session = "open" /\ runs # 0
    BY OnlyWriter DEF Writers, Session
  <2>2. Session' = "closed"
    BY <1>1, <1>2, <2>1 DEF Session
  <2> QED BY <1>1, <2>1, <2>2 DEF slots, SlotPromise!Close
<1> QED BY <1>3, <1>4 DEF SlotPromise!Next

LEMMA RefinesBoot ==
  ASSUME Boot
  PROVE  SlotPromise!Boot
  BY DEF Boot, Session, SlotPromise!Boot

(* Every other step of a thread leaves the slots alone, and the thread      *)
(* keeps out of kairos-agent.                                               *)
LEMMA RefinesOther ==
  ASSUME IInv, NEW t \in Threads,
         \/ Check(t) \/ PeekEnds(t) \/ CheckEnds(t) \/ RunAbandoned(t)
         \/ RunRefused(t) \/ MarkFailed(t) \/ MarkInstalled(t) \/ NotePin(t)
         \/ RunEnds(t) \/ Reboot(t) \/ RebootPrevious(t) \/ SelectPrevious(t)
         \/ ShutdownStarts(t) \/ RebootFails(t)
         \/ \E d \in Images : Apply(t, d) \/ RunCommits(t, d)
  PROVE  UNCHANGED SlotPromise!vars
<1>1. UNCHANGED <<slots, runs>>
  BY DEF Check, PeekEnds, CheckEnds, RunAbandoned, RunRefused, MarkFailed,
     MarkInstalled, NotePin, RunEnds, Reboot, RebootPrevious, SelectPrevious,
     ShutdownStarts, RebootFails, Apply, RunCommits, counters
<1>2. pc[t] \notin AgentRuns
  BY DEF Check, PeekEnds, CheckEnds, RunAbandoned, RunRefused, MarkFailed,
     MarkInstalled, NotePin, RunEnds, Reboot, RebootPrevious, SelectPrevious,
     ShutdownStarts, RebootFails, Apply, RunCommits, AgentRuns
<1>3. PICK p \in PCs \ AgentRuns : Goto(t, p)
  BY DEF Check, PeekEnds, CheckEnds, RunAbandoned, RunRefused, MarkFailed,
     MarkInstalled, NotePin, RunEnds, Reboot, RebootPrevious, SelectPrevious,
     ShutdownStarts, RebootFails, Apply, RunCommits, Return, PCs, NetSlot,
     Installing, AgentRuns
<1> QED BY <1>1, <1>2, <1>3, WritersUnchanged, SlotStutter DEF IInv, TypeOK

LEMMA RefinesStep ==
  ASSUME IInv, [Next]_vars
  PROVE  [SlotPromise!Next]_(SlotPromise!vars)
<1>1. CASE UNCHANGED vars
  BY <1>1, SlotStutter DEF vars, locals, counters, Writers
<1>2. CASE Start \/ Cancel
  BY <1>2, SlotStutter DEF Start, Cancel, locals, counters, Writers
<1>3. CASE Die
  BY <1>3, RefinesDie
<1>4. CASE Boot
  BY <1>4, RefinesBoot DEF SlotPromise!Next
<1>5. ASSUME NEW t \in Threads, UpgradeStarts(t)
      PROVE  SlotPromise!Next
  BY <1>5, RefinesStart DEF SlotPromise!Next
<1> QED BY <1>1, <1>2, <1>3, <1>4, <1>5, RefinesAgent, RefinesEnd, RefinesOther
           DEF Next, Call, Job, Restart

(* The daemon, with its crashes and restarts, implements SlotUpdate: one    *)
(* session of writes between two boots, started on the running system.      *)
THEOREM Refinement == Spec => ImplementsSlotUpdate
<1>1. Init => SlotPromise!Init
  BY RefinesInit
<1>2. IInv /\ [Next]_vars => [SlotPromise!Next]_(SlotPromise!vars)
  BY RefinesStep
<1> QED BY <1>1, <1>2, SpecInv, PTL DEF Spec, ImplementsSlotUpdate, SlotPromise!Spec
=============================================================================
