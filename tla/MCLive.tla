------------------------------- MODULE MCLive -------------------------------
(***************************************************************************)
(* The parts whose scheduling the code justifies to be fair, checked side  *)
(* by side for what must happen in the end, as in MCSafety: a behaviour is *)
(* a behaviour of one part while the others rest.                          *)
(***************************************************************************)
EXTENDS MCUpdateDaemon, MCEmergencyStop, ProcessTeardown, DisplayWatchdog, InstallUI

VARIABLE part

Parts == {"update", "stop", "teardown", "watchdog", "install"}

allVars == <<part, vars, stopVars, teardownVars, watchdogVars, installVars>>

Starts(p, idle) == IF part = p THEN TRUE ELSE idle

LiveInit ==
    /\ part \in Parts
    /\ MCInit /\ Starts("update", managed)
    /\ StopInit
    /\ TeardownInit
    /\ WatchdogInit /\ Starts("watchdog", graphical /\ i3)
    /\ InstallInit

Rests(p, variables) == IF part = p THEN TRUE ELSE UNCHANGED variables

Alone(p) ==
    /\ part = p /\ UNCHANGED part
    /\ Rests("update", vars) /\ Rests("stop", stopVars)
    /\ Rests("teardown", teardownVars) /\ Rests("watchdog", watchdogVars)
    /\ Rests("install", installVars)

LiveNext ==
    \/ Alone("update") /\ Next
    \/ Alone("stop") /\ MCWiredNext
    \/ Alone("teardown") /\ TeardownNext
    \/ Alone("watchdog") /\ WatchdogNext
    \/ Alone("install") /\ InstallNext

\* The fairness that the parts' own specifications state.
LiveFairness ==
    /\ \A t \in Threads :
        WF_vars(part = "update" /\ Job(t)) /\ WF_vars(part = "update" /\ Restart(t))
    /\ \A o \in Operators :
        /\ WF_stopVars(part = "stop" /\ PauseCancel(o))
        /\ WF_stopVars(part = "stop" /\ (PauseTell(o) \/ ResumeTell(o)))
    /\ \A c \in Calls :
        /\ WF_stopVars(part = "stop" /\ Answers(c))
        /\ WF_stopVars(part = "stop" /\ StopReaches(c))
        /\ WF_stopVars(part = "stop" /\ HopNotices(c))
        /\ WF_stopVars(part = "stop" /\ (Refuse(c) \/ Enter(c)))
        /\ WF_stopVars(part = "stop" /\ LeaveQueue(c))
        /\ WF_stopVars(part = "stop" /\ Recheck(c))
        /\ WF_stopVars(part = "stop" /\ StartComputer(c))
        /\ WF_stopVars(part = "stop" /\ Finish(c) /\ Interrupted(c))
    /\ WF_teardownVars(part = "teardown" /\ Bash)
    /\ WF_teardownVars(part = "teardown" /\ WaitReturns)
    /\ WF_watchdogVars(part = "watchdog" /\ PollInterval)
    /\ WF_watchdogVars(part = "watchdog" /\ Tick)
    /\ WF_installVars(part = "install" /\ InstallProgress)

LiveSpec == LiveInit /\ [][LiveNext]_allVars /\ LiveFairness
=============================================================================
