------------------------- MODULE Supervision_proofs --------------------------
(*****************************************************************************)
(* What the two loops that end and restart other programs promise: that no   *)
(* process outlives its bash call, for every set of processes a command may  *)
(* fork and both cgroup policies, and that the display manager is restarted  *)
(* no more often than it may be, for every window, grace and limit.          *)
(*****************************************************************************)
EXTENDS ProcessTeardown, DisplayWatchdog, FiniteSetTheorems, TLAPS
-----------------------------------------------------------------------------
(* Processes (agent/internal/process) *)

Steps == {"begin", "start", "refused", "place", "running", "term", "grace", "kill",
          "groupKill", "reap", "join", "returned"}

\* A process is recorded only once the shell was started.
TeardownTypeOK ==
    /\ reaper \in Steps
    /\ place \in {"none", "born", "moved"}
    /\ reaper \in {"begin", "start"} => alive = {} /\ inLeaf = {} /\ ~forced
    /\ place = "born" => reaper # "place"

\* Where a kill reaches: the shell never leaves its group, what was born into
\* the leaf stays there, and only the living hold the pipes.
ReachInv ==
    /\ Shell \in alive => Shell \in inGroup
    /\ place = "born" => alive \subseteq inLeaf
    /\ holders \subseteq alive

\* What each kill leaves behind: nobody in the place it killed, and nobody is
\* born there again.
KilledInv ==
    /\ reaper \in {"groupKill", "reap", "join", "returned"} => alive \cap inLeaf = {}
    /\ reaper \in {"reap", "join", "returned"} => alive \cap inGroup = {}
    /\ reaper \in {"join", "returned"} => waited /\ ~leafThere
    /\ place = "born" => ~forced

TeardownInv == TeardownTypeOK /\ ReachInv /\ KilledInv
-----------------------------------------------------------------------------
\* The steps of the command: a child is born where its parent is.
LEMMA CommandSteps ==
    ASSUME TeardownInv, Fork \/ Setsid \/ Exit \/ WaitReturns \/ Stop
    PROVE  TeardownInv'
<1>1. CASE Fork
  <2>1. PICK p \in alive, k \in Forked \ (alive \cup inLeaf \cup inGroup) :
            /\ alive' = alive \cup {k}
            /\ inLeaf' = Inherit(inLeaf, p, k) /\ inGroup' = Inherit(inGroup, p, k)
            /\ holders' = Inherit(holders, p, k)
            /\ UNCHANGED <<reaper, place, leafThere, waited, stopped, forced>>
    BY <1>1 DEF Fork
  <2>2. k # Shell
    BY TeardownShell
  <2>3. TeardownTypeOK'
    BY <2>1 DEF TeardownInv, TeardownTypeOK
  <2>4. ReachInv'
    BY <2>1, <2>2 DEF TeardownInv, ReachInv, Inherit
  <2>5. KilledInv'
    BY <2>1 DEF TeardownInv, KilledInv, Inherit
  <2> QED BY <2>3, <2>4, <2>5 DEF TeardownInv
<1>2. CASE Setsid
  BY <1>2 DEF Setsid, TeardownInv, TeardownTypeOK, ReachInv, KilledInv
<1>3. CASE Exit
  BY <1>3 DEF Exit, Gone, TeardownInv, TeardownTypeOK, ReachInv, KilledInv
<1>4. CASE WaitReturns
  BY <1>4 DEF WaitReturns, shellProcs, TeardownInv, TeardownTypeOK, ReachInv, KilledInv
<1>5. CASE Stop
  BY <1>5 DEF Stop, shellProcs, TeardownInv, TeardownTypeOK, ReachInv, KilledInv
<1> QED BY <1>1, <1>2, <1>3, <1>4, <1>5

\* The goroutine of Bash up to the end of the command.
LEMMA StartSteps ==
    ASSUME TeardownInv, BeginCgroup \/ StartShell \/ PlaceShell \/ CommandEnds
    PROVE  TeardownInv'
<1> USE DEF TeardownInv, TeardownTypeOK, ReachInv, KilledInv, Steps
<1>1. CASE BeginCgroup
  BY <1>1 DEF BeginCgroup, shellProcs
<1>2. CASE StartShell
  <2>1. alive = {} /\ inLeaf = {} /\ ~forced /\ reaper = "start"
    BY <1>2 DEF StartShell
  <2>2. CASE reaper' = "refused"
    BY <1>2, <2>1, <2>2 DEF StartShell, shellProcs, WriteEnds
  <2>3. CASE reaper' # "refused"
    BY <1>2, <2>1, <2>3 DEF StartShell, WriteEnds
  <2> QED BY <2>2, <2>3
<1>3. CASE PlaceShell
  BY <1>3 DEF PlaceShell
<1>4. CASE CommandEnds
  BY <1>4 DEF CommandEnds, Goes, shellProcs
<1> QED BY <1>1, <1>2, <1>3, <1>4

\* The kills and the waits, in their order.
LEMMA TeardownSteps ==
    ASSUME TeardownInv,
           Term \/ GraceEnds \/ CgroupKill \/ GroupKill \/ ReapEnds \/ ReadersDone \/ ReadersForced
    PROVE  TeardownInv'
<1> USE DEF TeardownInv, TeardownTypeOK, ReachInv, KilledInv, Steps, Goes
<1>1. CASE Term
  BY <1>1 DEF Term, Gone
<1>2. CASE GraceEnds
  BY <1>2 DEF GraceEnds, shellProcs
<1>3. CASE CgroupKill
  BY <1>3 DEF CgroupKill, LeafKilled, Gone
<1>4. CASE GroupKill
  BY <1>4 DEF GroupKill, Gone
<1>5. CASE ReapEnds
  BY <1>5 DEF ReapEnds, shellProcs
<1>6. CASE ReadersDone
  BY <1>6 DEF ReadersDone, shellProcs
<1>7. CASE ReadersForced
  BY <1>7 DEF ReadersForced, JoinTimesOut, shellProcs
<1> QED BY <1>1, <1>2, <1>3, <1>4, <1>5, <1>6, <1>7
-----------------------------------------------------------------------------
\* When Bash has returned, no process is left that a kill could reach, the exit
\* code was waited for, and a command born into its leaf left nothing at all,
\* whatever it forked and whenever it was stopped (manager.go, Bash).
THEOREM CallLeavesNothing == TeardownSpec => []NothingOutlivesItsCall
<1>1. TeardownInit => TeardownInv
  BY DEF TeardownInit, TeardownInv, TeardownTypeOK, ReachInv, KilledInv, Steps
<1>2. TeardownInv /\ [TeardownNext]_teardownVars => TeardownInv'
  <2> SUFFICES ASSUME TeardownInv, [TeardownNext]_teardownVars PROVE TeardownInv'
    OBVIOUS
  <2>1. CASE UNCHANGED teardownVars
    BY <2>1 DEF teardownVars, shellProcs, TeardownInv, TeardownTypeOK, ReachInv, KilledInv
  <2>2. CASE TeardownNext
    BY <2>2, CommandSteps, StartSteps, TeardownSteps DEF TeardownNext, Bash
  <2> QED BY <2>1, <2>2
<1>3. TeardownInv => NothingOutlivesItsCall
  BY DEF TeardownInv, TeardownTypeOK, ReachInv, KilledInv, NothingOutlivesItsCall
<1> QED BY <1>1, <1>2, <1>3, PTL DEF TeardownSpec

-----------------------------------------------------------------------------
(* The display watchdog (agent/internal/watchdog) *)

\* Ages are counted up to the window, and are not older than it.
WatchdogTypeOK ==
    /\ polling \in {"sleep", "logind", "proc", "present", "absent"}
    /\ absentSince \in {Never} \cup 0 .. RateWindow
    /\ restarts \subseteq 0 .. RateWindow
    /\ restarted \subseteq 0 .. RateWindow

\* What the watchdog remembers is what happened, as far as the window goes.
LimitInv ==
    /\ Pruned(restarts) = Pruned(restarted)
    /\ Cardinality(Pruned(restarted)) <= RateLimit

\* An absence begins after every restart.
ApartInv == absentSince # Never => \A a \in restarted : a >= absentSince

WatchdogInv == WatchdogTypeOK /\ LimitInv /\ ApartInv
-----------------------------------------------------------------------------
LEMMA PolicyIsNat ==
    /\ Grace \in Nat \ {0} /\ RateLimit \in Nat \ {0} /\ RateWindow \in Nat \ {0}
    /\ Grace <= RateWindow
  BY WatchdogPolicy

LEMMA PrunedIsFinite ==
    ASSUME NEW S \in SUBSET (0 .. RateWindow)
    PROVE  IsFiniteSet(Pruned(S)) /\ Cardinality(Pruned(S)) \in Nat
<1>1. IsFiniteSet(0 .. RateWindow)
  BY PolicyIsNat, FS_Interval
<1>2. Pruned(S) \in SUBSET (0 .. RateWindow)
  BY DEF Pruned
<1> QED BY <1>1, <1>2, FS_Subset, FS_CardinalityType

LEMMA PrunedTwice == \A S : Pruned(Pruned(S)) = Pruned(S)
  BY DEF Pruned

\* A poll later the window holds what it held, but for what has left it.
LEMMA PrunedAges ==
    ASSUME NEW S \in SUBSET (0 .. RateWindow)
    PROVE  /\ {Older(a) : a \in S} \in SUBSET (0 .. RateWindow)
           /\ Pruned({Older(a) : a \in S}) = {a + 1 : a \in {b \in Pruned(S) : b + 1 < RateWindow}}
           /\ Cardinality(Pruned({Older(a) : a \in S})) <= Cardinality(Pruned(S))
<1> DEFINE Stay == {b \in Pruned(S) : b + 1 < RateWindow}
           Shifted == {a + 1 : a \in Stay}
<1>1. \A a \in S : a \in Int /\ 0 <= a /\ a <= RateWindow
  BY PolicyIsNat
<1>2. \A a \in S : Older(a) = IF a < RateWindow THEN a + 1 ELSE a
  BY <1>1 DEF Older, Never
<1>3. {Older(a) : a \in S} \in SUBSET (0 .. RateWindow)
  BY <1>1, <1>2, PolicyIsNat
<1>4. Pruned({Older(a) : a \in S}) = Shifted
  BY <1>1, <1>2, PolicyIsNat DEF Pruned
<1>5. IsFiniteSet(Stay) /\ Cardinality(Stay) <= Cardinality(Pruned(S))
  BY PrunedIsFinite, FS_Subset
<1>6. [a \in Stay |-> a + 1] \in Surjection(Stay, Shifted)
  BY DEF Surjection
<1>7. Cardinality(Shifted) <= Cardinality(Stay)
  BY <1>5, <1>6, FS_Surjection
<1>8. Cardinality(Shifted) \in Nat /\ Cardinality(Stay) \in Nat /\ Cardinality(Pruned(S)) \in Nat
  BY <1>3, <1>4, <1>5, PrunedIsFinite, FS_CardinalityType
<1> HIDE DEF Stay, Shifted
<1>9. Cardinality(Pruned({Older(a) : a \in S})) <= Cardinality(Pruned(S))
  BY <1>4, <1>5, <1>7, <1>8
<1> QED BY <1>3, <1>4, <1>9 DEF Stay, Shifted

\* A restart below the limit stays within it.
LEMMA OneMoreRestart ==
    ASSUME NEW S \in SUBSET (0 .. RateWindow), ~AtLimit(Pruned(S))
    PROVE  /\ Pruned(Pruned(S) \cup {0}) = Pruned(S) \cup {0}
           /\ Cardinality(Pruned(S) \cup {0}) <= RateLimit
<1>1. Pruned(Pruned(S) \cup {0}) = Pruned(S) \cup {0}
  BY PolicyIsNat DEF Pruned
<1>2. Cardinality(Pruned(S)) < RateLimit /\ Cardinality(Pruned(S)) \in Nat
  BY PrunedIsFinite, PolicyIsNat DEF AtLimit
<1>3. Cardinality(Pruned(S) \cup {0}) \in {Cardinality(Pruned(S)), Cardinality(Pruned(S)) + 1}
  BY PrunedIsFinite, FS_AddElement
<1> QED BY <1>1, <1>2, <1>3, PolicyIsNat
-----------------------------------------------------------------------------
\* The watchdog begins without a restart to remember.
LEMMA WatchdogStart == WatchdogInit => WatchdogInv
<1> SUFFICES ASSUME WatchdogInit PROVE WatchdogInv
  OBVIOUS
<1>1. Pruned({}) = {} /\ Cardinality({}) = 0
  BY FS_EmptySet DEF Pruned
<1> QED
  BY <1>1, PolicyIsNat
  DEF WatchdogInit, WatchdogInv, WatchdogTypeOK, LimitInv, ApartInv

\* Every poll remembers the restarts of the window, and waits for the grace
\* period after each.
LEMMA WatchdogStep == WatchdogInv /\ [WatchdogNext]_watchdogVars => WatchdogInv'
<1> SUFFICES ASSUME WatchdogInv, [WatchdogNext]_watchdogVars PROVE WatchdogInv'
  OBVIOUS
<1>t. WatchdogTypeOK /\ LimitInv /\ ApartInv
  BY DEF WatchdogInv
<1>1. CASE TickStarts \/ ProbeLogind \/ ProbeProc
  BY <1>1, <1>t
  DEF TickStarts, ProbeLogind, ProbeProc, WatchdogInv, WatchdogTypeOK, LimitInv, ApartInv, Pruned
<1>2. CASE SeesPresent
  BY <1>2, <1>t DEF SeesPresent, TickEnds, WatchdogInv, WatchdogTypeOK, LimitInv, ApartInv, Pruned
<1>3. CASE WithinGrace
  <2>1. absentSince' = (IF absentSince = Never THEN 0 ELSE absentSince)
        /\ polling' = "sleep" /\ UNCHANGED <<restarts, restarted>>
    BY <1>3 DEF WithinGrace, TickEnds, AbsentFrom
  <2>2. \A a \in restarted : a >= 0
    BY <1>t DEF WatchdogTypeOK
  <2> QED
    BY <2>1, <2>2, <1>t, PolicyIsNat DEF WatchdogInv, WatchdogTypeOK, LimitInv, ApartInv, Pruned
<1>4. CASE Degrades
  <2>1. restarts' = Pruned(restarts) /\ polling' = "sleep" /\ UNCHANGED <<absentSince, restarted>>
    BY <1>4 DEF Degrades, TickEnds
  <2>2. Pruned(restarts) \subseteq restarts /\ Pruned(Pruned(restarts)) = Pruned(restarts)
    BY PrunedTwice DEF Pruned
  <2>3. Pruned(restarts') = Pruned(restarted') /\ restarts' \subseteq 0 .. RateWindow
    BY <2>1, <2>2, <1>t DEF LimitInv, WatchdogTypeOK
  <2>4. Pruned(restarted') = Pruned(restarted)
    BY <2>1
  <2> QED BY <2>1, <2>3, <2>4, <1>t DEF WatchdogInv, WatchdogTypeOK, LimitInv, ApartInv, Pruned
<1>5. CASE RestartLy
  <2>1. /\ ~AtLimit(Pruned(restarts)) /\ polling' = "sleep" /\ absentSince' = Never
        /\ restarts' = Pruned(restarts) \cup {0} /\ restarted' = restarted \cup {0}
    BY <1>5 DEF RestartLy, TickEnds
  <2>2. /\ Pruned(restarts') = Pruned(restarts) \cup {0}
        /\ Cardinality(Pruned(restarts) \cup {0}) <= RateLimit
    BY <2>1, <1>t, OneMoreRestart DEF WatchdogTypeOK
  <2>3. Pruned(restarted') = Pruned(restarted) \cup {0}
    BY <2>1, PolicyIsNat DEF Pruned
  <2>4. Pruned(restarts') = Pruned(restarted') /\ Cardinality(Pruned(restarted')) <= RateLimit
    BY <2>2, <2>3, <1>t DEF LimitInv
  <2>5. restarts' \subseteq 0 .. RateWindow /\ restarted' \subseteq 0 .. RateWindow
    <3>1. 0 \in 0 .. RateWindow
      BY PolicyIsNat
    <3>2. Pruned(restarts) \subseteq restarts
      BY DEF Pruned
    <3>3. restarts \subseteq 0 .. RateWindow /\ restarted \subseteq 0 .. RateWindow
      BY <1>t DEF WatchdogTypeOK
    <3> QED BY <2>1, <3>1, <3>2, <3>3
  <2> QED BY <2>1, <2>4, <2>5 DEF WatchdogInv, WatchdogTypeOK, LimitInv, ApartInv, Pruned
<1>6. CASE PollInterval
  <2> DEFINE kept == restarted \ {RateWindow}
  <2>1. /\ polling' = polling /\ absentSince' = Older(absentSince)
        /\ restarts' = {Older(a) : a \in restarts} /\ restarted' = {Older(a) : a \in kept}
    BY <1>6 DEF PollInterval
  <2>2. kept \in SUBSET (0 .. RateWindow) /\ Pruned(kept) = Pruned(restarted)
    BY <1>t, PolicyIsNat DEF WatchdogTypeOK, Pruned
  <2>3. restarts' \subseteq 0 .. RateWindow /\ restarted' \subseteq 0 .. RateWindow
    BY <2>1, <2>2, <1>t, PrunedAges DEF WatchdogTypeOK
  <2>4. Pruned(restarts') = Pruned(restarted')
    BY <2>1, <2>2, <1>t, PrunedAges DEF WatchdogTypeOK, LimitInv
  <2>5. Cardinality(Pruned(restarted')) <= RateLimit
    <3>1. Cardinality(Pruned(restarted')) <= Cardinality(Pruned(restarted))
      BY <2>1, <2>2, PrunedAges
    <3>2. Cardinality(Pruned(restarted')) \in Nat /\ Cardinality(Pruned(restarted)) \in Nat
      BY <2>3, <1>t, PrunedIsFinite DEF WatchdogTypeOK
    <3> QED BY <3>1, <3>2, <1>t, PolicyIsNat DEF LimitInv
  <2>6. absentSince' \in {Never} \cup 0 .. RateWindow
    BY <2>1, <1>t, PolicyIsNat DEF WatchdogTypeOK, Older, Never
  <2>7. absentSince' # Never => \A a \in restarted' : a >= absentSince'
    <3>1. absentSince' # Never => absentSince # Never
      BY <2>1 DEF Older
    <3>2. ASSUME absentSince # Never, NEW a \in kept
          PROVE  Older(a) >= Older(absentSince)
      <4>1. a \in 0 .. RateWindow /\ absentSince \in 0 .. RateWindow /\ a >= absentSince
        BY <3>2, <2>2, <1>t DEF WatchdogTypeOK, ApartInv
      <4> QED BY <4>1, PolicyIsNat DEF Older, Never
    <3> QED BY <2>1, <3>1, <3>2
  <2> QED
    BY <2>1, <2>3, <2>4, <2>5, <2>6, <2>7, <1>t
    DEF WatchdogInv, WatchdogTypeOK, LimitInv, ApartInv, Pruned
<1>7. CASE DisplayChanges \/ UNCHANGED watchdogVars
  BY <1>7, <1>t
  DEF DisplayChanges, watchdogVars, WatchdogInv, WatchdogTypeOK, LimitInv, ApartInv, Pruned
<1> QED
  BY <1>1, <1>2, <1>3, <1>4, <1>5, <1>6, <1>7 DEF WatchdogNext, Tick

LEMMA WatchdogInvariant == WatchdogSpec => []WatchdogInv
<1> QED BY WatchdogStart, WatchdogStep, PTL DEF WatchdogSpec

\* Whatever the probes saw and however late the ticks came, Ly is restarted at
\* most RateLimit times in a window (pruneRestarts against the recorded times).
THEOREM RateIsLimited == WatchdogSpec => []RateHolds
<1>1. WatchdogInv => RateHolds
  BY DEF WatchdogInv, LimitInv, RateHolds, Pruned
<1> QED BY <1>1, WatchdogInvariant, PTL

\* A restart begins a new grace period: the one before is Grace polls old, or
\* more.  Without it two restarts in one poll would count as one in RateHolds.
RestartsAreApart == [][RestartLy => \A a \in restarted : a >= Grace]_watchdogVars

\* Two restarts are never less than the grace period apart
\* (evaluate, watchdog.go).
THEOREM RestartsApart == WatchdogSpec => RestartsAreApart
<1>1. WatchdogInv /\ [WatchdogNext]_watchdogVars =>
        [RestartLy => \A a \in restarted : a >= Grace]_watchdogVars
  <2> SUFFICES ASSUME WatchdogInv, RestartLy, NEW a \in restarted PROVE a >= Grace
    OBVIOUS
  <2>1. absentSince >= Grace /\ absentSince # Never
    BY PolicyIsNat DEF RestartLy, Never
  <2>2. a >= absentSince /\ a \in Int /\ absentSince \in Int
    BY <2>1 DEF WatchdogInv, WatchdogTypeOK, ApartInv
  <2> QED BY <2>1, <2>2, PolicyIsNat
<1> QED BY <1>1, WatchdogInvariant, PTL DEF WatchdogSpec, RestartsAreApart
===============================================================================
