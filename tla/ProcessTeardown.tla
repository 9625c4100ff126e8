--------------------------- MODULE ProcessTeardown ---------------------------
(***************************************************************************)
(* One bash call of the process manager (agent/internal/process): the      *)
(* shell and what it forks, the cgroup leaf and the process group they are *)
(* killed by, the readers of their output, and the goroutine of Bash that  *)
(* tears all of it down.                                                   *)
(*                                                                         *)
(* The kernel is external: a killed process is gone at once, cmd.Wait and  *)
(* end-of-file follow before any timer, so a timer fires only when what it *)
(* bounds cannot happen.                                                   *)
(***************************************************************************)
EXTENDS FiniteSets

CONSTANTS Shell, Forked,     \* the shell, and the processes it may come to fork
          RequireCgroup      \* Config: TRUE in production

Procs == {Shell} \cup Forked

ASSUME TeardownShell == Shell \notin Forked
ASSUME TeardownPolicy == RequireCgroup \in BOOLEAN

VARIABLES
    reaper,           \* where the goroutine of Bash is
    place,            \* how the shell gets into the leaf: born, moved, or not at all
    leafThere,        \* the leaf's directory
    alive, inLeaf, inGroup, \* the processes, by where a kill reaches them
    holders,          \* who holds a write end of the pipes: "manager" until Start
    waited,           \* tracked.done: cmd.Wait has returned
    stopped,          \* ctx.Done()
    forced            \* joinReaders closed the read ends

shellProcs == <<alive, inLeaf, inGroup, holders>>
teardownVars == <<reaper, place, leafThere, shellProcs, waited, stopped, forced>>

TeardownInit ==
    /\ reaper = "begin" /\ place = "none" /\ leafThere = FALSE
    /\ alive = {} /\ inLeaf = {} /\ inGroup = {} /\ holders = {}
    /\ waited = FALSE /\ stopped = FALSE /\ forced = FALSE

-----------------------------------------------------------------------------
(* The processes of the command *)

\* A child is born where its parent is, with the pipes its parent has.
Inherit(S, p, k) == IF p \in S THEN S \cup {k} ELSE S

Fork ==
    \E p \in alive, k \in Forked \ (alive \cup inLeaf \cup inGroup) :
        /\ alive' = alive \cup {k}
        /\ inLeaf' = Inherit(inLeaf, p, k) /\ inGroup' = Inherit(inGroup, p, k)
        /\ holders' = Inherit(holders, p, k)
        /\ UNCHANGED <<reaper, place, leafThere, waited, stopped, forced>>

\* setsid leaves the process group; the leaf cannot be left.
Setsid ==
    \E k \in (alive \cap inGroup) \ {Shell} :
        /\ inGroup' = inGroup \ {k}
        /\ UNCHANGED <<reaper, place, leafThere, alive, inLeaf, holders, waited, stopped, forced>>

Gone(S) == alive' = alive \ S /\ holders' = holders \ S

Exit ==
    \E p \in alive :
        /\ Gone({p})
        /\ UNCHANGED <<reaper, place, leafThere, inLeaf, inGroup, waited, stopped, forced>>

\* cmd.Wait returns once the shell is gone: nothing but the shell is waited for.
WaitReturns ==
    /\ reaper \notin {"begin", "start", "refused"} /\ Shell \notin alive /\ ~waited
    /\ waited' = TRUE
    /\ UNCHANGED <<reaper, place, leafThere, shellProcs, stopped, forced>>

-----------------------------------------------------------------------------
(* Bash *)

\* beginCgroup: a leaf with a directory descriptor, a leaf without, or none,
\* which only the fallback accepts.
BeginCgroup ==
    /\ reaper = "begin"
    /\ \/ place' \in {"born", "moved"} /\ leafThere' = TRUE /\ reaper' = "start"
       \/ ~RequireCgroup /\ reaper' = "start" /\ UNCHANGED <<place, leafThere>>
       \/ RequireCgroup /\ reaper' = "refused" /\ UNCHANGED <<place, leafThere>>
    /\ UNCHANGED <<shellProcs, waited, stopped, forced>>

\* Start, and the manager's copies of the write ends are closed.
WriteEnds == {Shell}

StartShell ==
    /\ reaper = "start"
    /\ \/ /\ reaper' = IF place = "moved" THEN "place" ELSE "running"
          /\ alive' = {Shell} /\ inGroup' = {Shell} /\ holders' = WriteEnds
          /\ inLeaf' = IF place = "born" THEN {Shell} ELSE {}
          /\ UNCHANGED leafThere
       \/ /\ reaper' = "refused" /\ leafThere' = FALSE
          /\ UNCHANGED shellProcs
    /\ UNCHANGED <<place, waited, stopped, forced>>

\* placeExisting moves the shell; what it forked before stays outside.
PlaceShell ==
    /\ reaper = "place"
    /\ reaper' = "running"
    /\ inLeaf' = IF Shell \in alive THEN inLeaf \cup {Shell} ELSE inLeaf
    /\ UNCHANGED <<place, leafThere, alive, inGroup, holders, waited, stopped, forced>>

Stop ==
    /\ reaper \notin {"refused", "returned"} /\ ~stopped
    /\ stopped' = TRUE
    /\ UNCHANGED <<reaper, place, leafThere, shellProcs, waited, forced>>

Goes(from, to) == reaper = from /\ reaper' = to

CommandEnds ==
    /\ Goes("running", "term") /\ (waited \/ stopped)
    /\ UNCHANGED <<place, leafThere, shellProcs, waited, stopped, forced>>

\* SIGTERM to the group, which any of it may ignore.
Term ==
    /\ Goes("term", "grace")
    /\ \E S \in SUBSET (alive \cap inGroup) : Gone(S)
    /\ UNCHANGED <<place, leafThere, inLeaf, inGroup, waited, stopped, forced>>

\* The shell exits, or TerminateGrace passes.
GraceEnds ==
    /\ Goes("grace", "kill") /\ (waited \/ Shell \in alive)
    /\ UNCHANGED <<place, leafThere, shellProcs, waited, stopped, forced>>

LeafKilled_termOnly == {}
LeafKilled == alive \cap inLeaf

CgroupKill ==
    /\ Goes("kill", "groupKill") /\ Gone(LeafKilled)
    /\ UNCHANGED <<place, leafThere, inLeaf, inGroup, waited, stopped, forced>>

GroupKill ==
    /\ Goes("groupKill", "reap") /\ Gone(alive \cap inGroup)
    /\ UNCHANGED <<place, leafThere, inLeaf, inGroup, waited, stopped, forced>>

\* The last wait, bounded by ReapTimeout, then the leaf, if it is empty.
ReapEnds ==
    /\ Goes("reap", "join") /\ (waited \/ Shell \in alive)
    /\ leafThere' = (leafThere /\ alive \cap inLeaf # {})
    /\ UNCHANGED <<place, shellProcs, waited, stopped, forced>>

\* joinReaders: end-of-file once nobody holds a write end; otherwise
\* ReapTimeout passes and the read ends are closed.
ReadersDone ==
    /\ Goes("join", "returned") /\ holders = {}
    /\ UNCHANGED <<place, leafThere, shellProcs, waited, stopped, forced>>

JoinTimesOut_never == FALSE
JoinTimesOut == holders # {}

ReadersForced ==
    /\ Goes("join", "returned") /\ JoinTimesOut
    /\ forced' = TRUE
    /\ UNCHANGED <<place, leafThere, shellProcs, waited, stopped>>

Bash ==
    \/ BeginCgroup \/ StartShell \/ PlaceShell \/ CommandEnds \/ Term \/ GraceEnds
    \/ CgroupKill \/ GroupKill \/ ReapEnds \/ ReadersDone \/ ReadersForced

TeardownNext == Bash \/ WaitReturns \/ Fork \/ Setsid \/ Exit \/ Stop

\* The goroutine and the kernel go on; a command need not end.
TeardownSpec == TeardownInit /\ [][TeardownNext]_teardownVars
                /\ WF_teardownVars(Bash) /\ WF_teardownVars(WaitReturns)

-----------------------------------------------------------------------------
(* Properties *)

\* When Bash has returned, no process is left that a kill could reach; born
\* into the leaf, that is every process the command ever forked, its output is
\* complete, and the exit code it reports was waited for.
NothingOutlivesItsCall ==
    reaper = "returned" =>
        /\ waited /\ ~leafThere
        /\ alive \cap (inLeaf \cup inGroup) = {}
        /\ place = "born" => alive = {} /\ ~forced

\* A stopped call returns, also when a process that escaped holds its output.
StoppedBashReturns == stopped ~> reaper \in {"returned", "refused"}
=============================================================================
