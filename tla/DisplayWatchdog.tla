---------------------------- MODULE DisplayWatchdog ----------------------------
(***************************************************************************)
(* The display watchdog (agent/internal/watchdog): a poll that looks for   *)
(* the agent's graphical session and for its i3, one after the other, and  *)
(* restarts Ly when one of them has been absent for the grace period, no   *)
(* more often than RateLimit times per RateWindow.                         *)
(*                                                                         *)
(* The unit of time is the poll interval.  An instant is kept as its age,  *)
(* and no age above RateWindow is told apart from it.                      *)
(***************************************************************************)
EXTENDS Integers, FiniteSets

CONSTANTS Grace, RateLimit, RateWindow

ASSUME WatchdogPolicy == /\ {Grace, RateLimit, RateWindow} \subseteq Nat \ {0}
                         /\ Grace <= RateWindow

Never == -1

VARIABLES
    graphical, i3,    \* what logind and /proc would show
    polling, tickDue, \* where tick is; the ticker's channel
    absentSince,      \* its age, or Never
    restarts,         \* Watchdog.restarts, by age
    degraded,
    restarted         \* the ages of all restarts that were ordered

display == <<graphical, i3>>
watchdogVars == <<display, polling, tickDue, absentSince, restarts, degraded, restarted>>

WatchdogInit ==
    /\ graphical \in BOOLEAN /\ i3 \in BOOLEAN
    /\ polling = "sleep" /\ tickDue = TRUE
    /\ absentSince = Never /\ restarts = {} /\ degraded = FALSE
    /\ restarted = {}

-----------------------------------------------------------------------------
(* Present: each probe may fail, which tick takes for an absence *)

TickStarts ==
    /\ polling = "sleep" /\ tickDue
    /\ polling' = "logind" /\ tickDue' = FALSE
    /\ UNCHANGED <<display, absentSince, restarts, degraded, restarted>>

ProbeLogind ==
    /\ polling = "logind"
    /\ \/ graphical /\ polling' = "proc"
       \/ polling' = "absent"
    /\ UNCHANGED <<display, tickDue, absentSince, restarts, degraded, restarted>>

ProbeProc ==
    /\ polling = "proc"
    /\ \/ i3 /\ polling' = "present"
       \/ polling' = "absent"
    /\ UNCHANGED <<display, tickDue, absentSince, restarts, degraded, restarted>>

-----------------------------------------------------------------------------
(* evaluate *)

TickEnds == polling' = "sleep" /\ UNCHANGED <<display, tickDue>>

SeesPresent ==
    /\ polling = "present" /\ TickEnds
    /\ absentSince' = Never
    /\ UNCHANGED <<restarts, degraded, restarted>>

\* The first tick without a session starts the grace period.
AbsentFrom_everyTick == 0
AbsentFrom == IF absentSince = Never THEN 0 ELSE absentSince

WithinGrace ==
    /\ polling = "absent" /\ TickEnds
    /\ absentSince < Grace
    /\ absentSince' = AbsentFrom
    /\ UNCHANGED <<restarts, degraded, restarted>>

\* pruneRestarts keeps what is younger than the window.
Pruned(ages) == {a \in ages : a < RateWindow}

AtLimit_tooLate(ages) == Cardinality(ages) > RateLimit
AtLimit(ages) == Cardinality(ages) >= RateLimit

Degrades ==
    /\ polling = "absent" /\ TickEnds
    /\ absentSince >= Grace /\ AtLimit(Pruned(restarts))
    /\ restarts' = Pruned(restarts) /\ degraded' = TRUE
    /\ UNCHANGED <<absentSince, restarted>>

\* The restart is recorded, and the absence forgotten, whether systemctl
\* succeeds or not.
RestartLy ==
    /\ polling = "absent" /\ TickEnds
    /\ absentSince >= Grace /\ ~AtLimit(Pruned(restarts))
    /\ restarts' = Pruned(restarts) \cup {0} /\ absentSince' = Never
    /\ restarted' = restarted \cup {0}
    /\ UNCHANGED degraded

Tick == TickStarts \/ ProbeLogind \/ ProbeProc \/ SeesPresent \/ WithinGrace \/ Degrades \/ RestartLy

-----------------------------------------------------------------------------
(* The display, the ticker and time *)

DisplayChanges ==
    /\ graphical' \in BOOLEAN /\ i3' \in BOOLEAN
    /\ UNCHANGED <<polling, tickDue, absentSince, restarts, degraded, restarted>>

Older(age) == IF age = Never THEN Never ELSE IF age < RateWindow THEN age + 1 ELSE age

\* A probe or systemctl may take longer than a poll; the ticker keeps one tick.
PollInterval ==
    /\ tickDue' = TRUE
    /\ absentSince' = Older(absentSince)
    /\ restarts' = {Older(a) : a \in restarts}
    /\ restarted' = {Older(a) : a \in restarted \ {RateWindow}}
    /\ UNCHANGED <<display, polling, degraded>>

WatchdogNext == Tick \/ DisplayChanges \/ PollInterval

\* Time passes, and the watchdog's goroutine goes on.
WatchdogFairness == WF_watchdogVars(PollInterval) /\ WF_watchdogVars(Tick)

WatchdogSpec == WatchdogInit /\ [][WatchdogNext]_watchdogVars /\ WatchdogFairness

-----------------------------------------------------------------------------
(* Properties *)

\* Whatever the probes saw and however late the ticks came, no RateWindow sees
\* more than RateLimit restarts of Ly.
RateHolds == Cardinality({a \in restarted : a < RateWindow}) <= RateLimit

\* A display that stays away is restarted again and again, also after the limit
\* was reached.
AbsentIsRestarted ==
    (<>[]~graphical \/ <>[]~i3) => []<>(0 \in restarted)
=============================================================================
