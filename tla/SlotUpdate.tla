----------------------------- MODULE SlotUpdate -----------------------------
(***************************************************************************)
(* What the update service promises about the A/B slots of the machine,    *)
(* whatever goes on inside it: between two boots the slots are written in  *)
(* at most ONE session of kairos-agent, and a session started on the       *)
(* system that now runs.  This is the promise behind ErrRebootPending      *)
(* (update/daemon.go): "a second upgrade would push the never-booted image *)
(* into the passive slot and overwrite the known-good one".                *)
(*                                                                         *)
(* UpdateDaemon implements this module; the refinement mapping is there.   *)
(***************************************************************************)
EXTENDS Integers

CONSTANTS Images,   \* the images a slot can hold
          Missing   \* the contents of a slot between the rename and the write

VARIABLES active,   \* the image in the active slot, or Missing
          passive,  \* the image in the passive slot
          running,  \* the image this boot runs
          fellBack, \* this boot was started from the passive slot
          session   \* "fresh" since the boot, "open" or "closed"

vars == <<active, passive, running, fellBack, session>>

Init ==
    /\ active \in Images
    /\ passive \in Images
    /\ running = active
    /\ fellBack = FALSE
    /\ session = "fresh"

Open ==
    /\ session = "fresh"
    /\ session' = "open"
    /\ UNCHANGED <<active, passive, running, fellBack>>

\* The active image becomes the passive one, except when the machine runs the
\* passive one; the active slot is then being rewritten.
Swap ==
    /\ session = "open"
    /\ active # Missing
    /\ running = IF fellBack THEN passive ELSE active
    /\ passive' = running
    /\ active' = Missing
    /\ UNCHANGED <<running, fellBack, session>>

Write ==
    /\ session = "open"
    /\ active = Missing
    /\ active' \in Images
    /\ UNCHANGED <<passive, running, fellBack, session>>

Close ==
    /\ session = "open"
    /\ session' = "closed"
    /\ UNCHANGED <<active, passive, running, fellBack>>

Boot ==
    /\ \/ active # Missing /\ running' = active /\ fellBack' = FALSE
       \/ running' = passive /\ fellBack' = TRUE
    /\ session' = "fresh"
    /\ UNCHANGED <<active, passive>>

Next == Open \/ Swap \/ Write \/ Close \/ Boot

Spec == Init /\ [][Next]_vars

(* The system that runs stays in one of the slots, so there is always a    *)
(* slot to go back to (the comment on ErrRebootPending).                   *)
KnownGoodKept == running \in {active, passive}
=============================================================================
