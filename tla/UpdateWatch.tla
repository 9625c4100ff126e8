----------------------------- MODULE UpdateWatch -----------------------------
(***************************************************************************)
(* The update service on the bus and the two programs that follow it.      *)
(* The service (update/dbus.go) is a process that D-Bus activates and that *)
(* leaves when idle; it sends what the daemon queues (daemon.go:259-303).  *)
(* A client (client.go) calls it, tries again once when told Exiting, and   *)
(* watches it: signals, a poll, and the loss of the name's owner.  A tray  *)
(* (trayapp.go) follows for ever; an installer (main.go, installFlow)       *)
(* follows one install and reports a verdict.                              *)
(*                                                                         *)
(* The job itself is UpdateDaemon's; here it is what the bus shows of it.  *)
(* A status is the state, with the pending word in place of                *)
(* reboot-pending; idle stands for up-to-date and update-available too.    *)
(*                                                                         *)
(* A definition X_bug just before X is X with a plausible mistake.  Nothing *)
(* uses it; with it in X's place, a property named in the README fails.    *)
(***************************************************************************)
EXTENDS Integers, Sequences, SequencesExt

CONSTANTS Trays, Installers,  \* the clients
          NoClient,
          MaxJobs,            \* bound: checks and installs that start
          MaxEnds             \* bound: times the process dies or leaves

Clients == Trays \cup Installers

ASSUME WatchClients == NoClient \notin Clients /\ Trays \cap Installers = {}
ASSUME WatchBounds == MaxJobs \in Nat /\ MaxEnds \in Nat

VARIABLES
    proc,                 \* the process that owns the bus name
    state, job,           \* Daemon: state and word, whose job d.job is
    marker,               \* /run/hadron-update/reboot-pending: survives the process
    outcome,              \* what kairos-agent came to, for the properties only
    events, batch, delivering,  \* Daemon.events, deliver's evs, Daemon.delivering
    inside,               \* service.active, by caller
    pc, tries,            \* a client's goroutine; callFlags' i
    view,                 \* trayApp.st; the verdict of an installer
    inbox, last, started, \* Watch: signals under way, last by kind; installFlow's started
    jobs, ends          \* counts for the bounds

disk == <<marker, outcome>>
daemon == <<state, job, disk>>
queue == <<events, batch, delivering>>
service == <<proc, inside>>
watch == <<inbox, last>>
counts == <<jobs, ends>>
client == <<pc, tries, view, started>>
vars == <<daemon, queue, service, watch, client, counts>>

Words == {"started", "failed", "installed"}
Busy == {"checking", "inspecting", "applying"}

\* A tray is at dial, dialled, watching, check, checking, peeking or status; an
\* installer at reviewed (the image; Inspect starts no job), apply, applying,
\* follow or done.  Asking: a request is sent that nobody has taken up yet.
Asking == {"dial", "check", "status", "apply"}

WatchInit ==
    /\ proc = "none"
    /\ state = "idle" /\ job = NoClient
    /\ marker = "none" /\ outcome = "none"
    /\ events = <<>> /\ batch = <<>> /\ delivering = FALSE
    /\ inside = {}
    /\ pc = [c \in Clients |-> IF c \in Trays THEN "dial" ELSE "reviewed"]
    /\ tries = [c \in Clients |-> 0]
    /\ view = [c \in Clients |-> "down"]
    /\ inbox = [c \in Clients |-> <<>>] /\ last = [c \in Clients |-> ""]
    /\ started = [c \in Clients |-> FALSE]
    /\ jobs = 0 /\ ends = 0

-----------------------------------------------------------------------------
(* The daemon's events *)

\* setLocked and queueLocked: a goroutine delivers as long as there are events.
SetState(s) ==
    /\ state' = s
    /\ events' = Append(events, s)
    /\ delivering' = TRUE

DaemonBusy == state \in Busy \/ job # NoClient

\* A client subscribed by Watch, whose goroutine has not seen the owner go.
Subscribed(c) ==
    /\ pc[c] \in {"watching", "check", "checking", "peeking", "status", "apply", "applying", "follow"}
    /\ ~Contains(inbox[c], "ownerLost")

TakeEvents_first ==
    /\ batch' = <<Head(events)>>
    /\ events' = <<>>
TakeEvents ==
    /\ batch' = events
    /\ events' = <<>>

DeliverTakes ==
    /\ delivering /\ batch = <<>> /\ events # <<>>
    /\ TakeEvents
    /\ UNCHANGED <<daemon, delivering, service, watch, client, counts>>

\* deliver ends, under the lock, only when it finds the queue empty.
NothingQueued_batchSent == batch = <<>>
NothingQueued == batch = <<>> /\ events = <<>>

DeliverEnds ==
    /\ delivering /\ NothingQueued
    /\ delivering' = FALSE
    /\ UNCHANGED <<daemon, events, batch, service, watch, client, counts>>

\* The callback of serve sends the signal.
Emit ==
    /\ batch # <<>>
    /\ batch' = Tail(batch)
    /\ inbox' = [c \in Clients |-> IF Subscribed(c) THEN Append(inbox[c], Head(batch)) ELSE inbox[c]]
    /\ UNCHANGED <<daemon, events, delivering, service, last, client, counts>>

-----------------------------------------------------------------------------
(* The service process *)

\* D-Bus activates a new process for a call; NewDaemon reads the marker.
Activate ==
    /\ proc = "none"
    /\ \E c \in Clients : pc[c] \in Asking
    /\ proc' = "up"
    /\ state' = IF marker = "none" THEN "idle" ELSE marker
    /\ UNCHANGED <<job, disk, queue, inside, watch, client, counts>>

\* tryClose.  idleTimeout may have passed since the last call's end or event:
\* the clock is left out.
MayClose_callsIgnored == ~DaemonBusy
MayClose == inside = {} /\ ~DaemonBusy

TryClose ==
    /\ proc = "up" /\ MayClose /\ ends < MaxEnds
    /\ proc' = "closing"
    /\ UNCHANGED <<daemon, queue, inside, watch, client, counts>>

\* The process is gone, with the job, the queue and the calls inside.
ProcessEnds ==
    /\ ends < MaxEnds /\ ends' = ends + 1
    /\ proc' = "none" /\ inside' = {}
    /\ state' = "idle" /\ job' = NoClient
    /\ events' = <<>> /\ batch' = <<>> /\ delivering' = FALSE
    /\ inbox' = [c \in Clients |->
                    IF c \in inside THEN <<>>
                    ELSE IF Subscribed(c) THEN Append(inbox[c], "ownerLost") ELSE inbox[c]]
    /\ UNCHANGED <<disk, last>>

\* ReleaseName, and the end of main.
Release ==
    /\ proc = "closing"
    /\ ProcessEnds
    /\ UNCHANGED <<client, jobs>>

\* A client inside a call gets an error of the bus: a tray dials again, an
\* installer gives up.
Interrupted(c) == [view |-> IF c \in Trays THEN "down" ELSE "refused",
                   pc |-> IF c \in Trays THEN "dial" ELSE "done"]

Die ==
    /\ proc # "none"
    /\ ProcessEnds
    /\ pc' = [c \in Clients |-> IF c \in inside THEN Interrupted(c).pc ELSE pc[c]]
    /\ view' = [c \in Clients |-> IF c \in inside THEN Interrupted(c).view ELSE view[c]]
    /\ UNCHANGED <<tries, started, jobs>>

-----------------------------------------------------------------------------
(* The job, as the bus shows it *)

\* evaluate refused the image, or could not fetch it.
JobRefused ==
    /\ state = "inspecting"
    /\ SetState("error") /\ job' = NoClient
    /\ UNCHANGED <<disk, batch, service, watch, client, counts>>

JobCommits ==
    /\ state = "inspecting"
    /\ SetState("applying") /\ marker' = "started"
    /\ UNCHANGED <<job, outcome, batch, service, watch, client, counts>>

\* The daemon says how kairos-agent ended, also when the marker cannot be
\* rewritten and goes on saying started.
JobEnds ==
    /\ state = "applying" /\ job' = NoClient
    /\ outcome' \in {"failed", "installed"} /\ SetState(outcome')
    /\ marker' \in {marker, outcome'}
    /\ UNCHANGED <<batch, service, watch, client, counts>>

\* Cancel, by any client in the admin group.  The state before the job comes
\* back, idle in place of an error.
Cancel ==
    /\ proc = "up" /\ state \in {"checking", "inspecting"}
    /\ SetState("idle") /\ job' = NoClient
    /\ UNCHANGED <<disk, batch, proc, inside, watch, client, counts>>

Job == JobRefused \/ JobCommits \/ JobEnds

-----------------------------------------------------------------------------
(* A client's requests *)

\* Watch starts, or its stop is called: nothing is under way, nothing seen.
FreshWatch(c) ==
    /\ inbox' = [inbox EXCEPT ![c] = <<>>] /\ last' = [last EXCEPT ![c] = ""]

Goto(c, p) == pc' = [pc EXCEPT ![c] = p]
Shows(c, s) == view' = [view EXCEPT ![c] = s]
Reached(c) == proc = "up" /\ tries' = [tries EXCEPT ![c] = 0]

\* enterCall refuses: the process is about to go.  The client asks again once.
Exiting(c) ==
    /\ proc = "closing" /\ pc[c] \in Asking
    /\ \/ /\ tries[c] = 0 /\ tries' = [tries EXCEPT ![c] = 1]
          /\ UNCHANGED <<pc, view>>
       \/ /\ tries[c] = 1 /\ tries' = [tries EXCEPT ![c] = 0]
          /\ CASE c \in Installers -> Goto(c, "done") /\ Shows(c, "refused")
               [] pc[c] = "dial" -> Shows(c, "down") /\ UNCHANGED pc
               [] OTHER -> Goto(c, "watching") /\ UNCHANGED view
    /\ IF pc'[c] = "done" THEN FreshWatch(c) ELSE UNCHANGED watch
    /\ UNCHANGED <<daemon, queue, service, started, counts>>

\* session: Status first, then Watch.
Dial(c) ==
    /\ pc[c] = "dial" /\ Reached(c)
    /\ Goto(c, "dialled") /\ Shows(c, state)
    /\ UNCHANGED <<daemon, queue, service, watch, started, counts>>

WatchStarts(c) ==
    /\ \/ pc[c] = "dialled" /\ Goto(c, "watching")
       \/ pc[c] = "reviewed" /\ Goto(c, "apply")
    /\ FreshWatch(c)
    /\ UNCHANGED <<daemon, queue, service, tries, view, started, counts>>

\* The scheduled check, which is put off while a job is shown.
CheckDue(c) ==
    /\ pc[c] = "watching" /\ view[c] \notin Busy /\ jobs < MaxJobs
    /\ Goto(c, "check")
    /\ UNCHANGED <<daemon, queue, service, watch, tries, view, started, counts>>

\* Check: refused while a job runs; only a look while a reboot is pending.
CheckEnters(c) ==
    /\ pc[c] = "check" /\ Reached(c) /\ jobs < MaxJobs
    /\ IF state \in Busy
       THEN Goto(c, "watching") /\ UNCHANGED <<daemon, queue, inside, jobs>>
       ELSE /\ inside' = inside \cup {c} /\ jobs' = jobs + 1
            /\ IF state \in Words
               THEN Goto(c, "peeking") /\ UNCHANGED <<daemon, queue>>
               ELSE /\ Goto(c, "checking") /\ SetState("checking") /\ job' = c
                    /\ UNCHANGED <<disk, batch>>
    /\ UNCHANGED <<proc, watch, view, started, ends>>

Leave(c) == inside' = inside \ {c}

\* The check answers, unless it was cancelled.  After a failure the tray keeps
\* what it shows until the next event.
CheckEnds(c) ==
    /\ pc[c] = "checking" /\ Leave(c)
    /\ \/ /\ job = c /\ job' = NoClient
          /\ \/ SetState("idle") /\ Goto(c, "status")
             \/ SetState("error") /\ Goto(c, "watching")
       \/ /\ job # c /\ Goto(c, "watching")
          /\ UNCHANGED <<state, job, events, delivering>>
    /\ UNCHANGED <<disk, batch, proc, watch, tries, view, started, counts>>

\* Under a pending reboot it only fetches the newest tag, and says so.
PeekEnds(c) ==
    /\ pc[c] = "peeking" /\ Leave(c)
    /\ \/ SetState(state) /\ Goto(c, "status")
       \/ UNCHANGED <<state, events, delivering>> /\ Goto(c, "watching")
    /\ UNCHANGED <<disk, job, batch, proc, watch, tries, view, started, counts>>

CheckReads(c) ==
    /\ pc[c] = "status" /\ Reached(c)
    /\ Goto(c, "watching") /\ Shows(c, state)
    /\ UNCHANGED <<daemon, queue, service, watch, started, counts>>

\* Apply waits for polkit inside the call.
ApplyEnters(c) ==
    /\ pc[c] = "apply" /\ Reached(c)
    /\ Goto(c, "applying") /\ inside' = inside \cup {c}
    /\ UNCHANGED <<daemon, queue, proc, watch, view, started, counts>>

ApplyEnds(c) ==
    /\ pc[c] = "applying" /\ Leave(c)
    /\ \/ /\ Goto(c, "done") /\ Shows(c, "refused") /\ FreshWatch(c)
          /\ UNCHANGED <<daemon, queue, jobs>>
       \/ /\ state \in {"idle", "error"} /\ jobs < MaxJobs
          /\ jobs' = jobs + 1
          /\ SetState("inspecting") /\ job' = c
          /\ Goto(c, "follow")
          /\ UNCHANGED <<disk, batch, view, watch>>
    /\ UNCHANGED <<proc, tries, started, ends>>

-----------------------------------------------------------------------------
(* What a watcher reads *)

\* The poll runs while the last state seen is a job, or none was seen.
Polls_never(c) == FALSE
Polls(c) == last[c] \in {"", "job"}

Next_(c) == Head(inbox[c])
Drop(c) == inbox' = [inbox EXCEPT ![c] = IF pc'[c] = "done" THEN <<>> ELSE Tail(@)]

\* A new status: the tray shows it.
TraySees(c, s) == Shows(c, s) /\ UNCHANGED <<pc, started>>

\* A new status: the installer waits for one its job passes through, and then
\* for the job's end.
VerdictOf_anyPending(s) == CASE s = "idle" -> "lost" [] s \in Words -> "installed" [] OTHER -> "error"
VerdictOf(s) ==
    CASE s = "idle" -> "lost"
      [] s \in {"failed", "started"} -> "failed"
      [] s = "installed" -> "installed"
      [] OTHER -> "error"

InstallerSees(c, s) ==
    LET mine == started[c] \/ s \in {"inspecting", "applying"}
    IN  /\ started' = [started EXCEPT ![c] = mine]
        /\ IF mine /\ s \notin Busy
           THEN Goto(c, "done") /\ Shows(c, VerdictOf(s))
           ELSE UNCHANGED <<pc, view>>

Sees(c, s) ==
    /\ last' = [last EXCEPT ![c] = IF s \in Busy THEN "job" ELSE "other"]
    /\ IF c \in Trays THEN TraySees(c, s) ELSE InstallerSees(c, s)

Reading(c) == pc[c] \in {"watching", "follow"}

Signal(c) ==
    /\ Reading(c) /\ inbox[c] # <<>> /\ Next_(c) # "ownerLost"
    /\ Sees(c, Next_(c)) /\ Drop(c)
    /\ UNCHANGED <<daemon, queue, service, tries, counts>>

\* The poll, which never starts the service.  absent is the idle that Watch
\* notes when nothing answers, to stop polling.
Poll(c) ==
    /\ Reading(c) /\ Polls(c)
    /\ IF proc = "up"
       THEN Sees(c, state)
       ELSE /\ last' = [last EXCEPT ![c] = IF @ = "" THEN "absent" ELSE @]
            /\ UNCHANGED <<pc, view, started>>
    /\ inbox' = [inbox EXCEPT ![c] = IF pc'[c] = "done" THEN <<>> ELSE @]
    /\ UNCHANGED <<daemon, queue, service, tries, counts>>

\* The name lost its owner: the channel closes.  A tray takes a job it showed
\* for dead and watches again; an installer gives up.
OwnerGone_unseen(c) == inbox[c] # <<>> /\ Next_(c) = "ownerLost" /\ c \in Trays
OwnerGone(c) == inbox[c] # <<>> /\ Next_(c) = "ownerLost"

ServiceGone(c) ==
    /\ Reading(c) /\ OwnerGone(c)
    /\ FreshWatch(c)
    /\ IF c \in Trays
       THEN /\ IF view[c] \in Busy THEN Shows(c, "error") ELSE UNCHANGED view
            /\ UNCHANGED pc
       ELSE Goto(c, "done") /\ Shows(c, "gone")
    /\ UNCHANGED <<daemon, queue, service, tries, started, counts>>

-----------------------------------------------------------------------------
Service == Activate \/ TryClose \/ Release \/ Die
Deliver == DeliverTakes \/ DeliverEnds \/ Emit
Request(c) ==
    \/ Exiting(c) \/ Dial(c) \/ CheckEnters(c) \/ CheckEnds(c) \/ PeekEnds(c) \/ CheckReads(c)
    \/ ApplyEnters(c) \/ ApplyEnds(c)
Watcher(c) == WatchStarts(c) \/ Signal(c) \/ Poll(c) \/ ServiceGone(c)

WatchNext ==
    \/ Service \/ Deliver \/ Job \/ Cancel
    \/ \E c \in Clients : CheckDue(c) \/ Request(c) \/ Watcher(c)

\* Goroutines go on, kairos-agent and requests end, a released name goes; no
\* user acts, and neither an idle exit nor a death has to come.
WatchFairness ==
    /\ WF_vars(Activate \/ Release) /\ WF_vars(Deliver) /\ WF_vars(Job)
    /\ \A c \in Clients :
         /\ WF_vars(Request(c) \/ WatchStarts(c))
         /\ WF_vars(Signal(c) \/ ServiceGone(c)) /\ WF_vars(Poll(c))

WatchSpec == WatchInit /\ [][WatchNext]_vars
FairWatchSpec == WatchSpec /\ WatchFairness

-----------------------------------------------------------------------------
(* Properties *)

\* A process that decided to exit runs no job and has no call inside: what it
\* let in, it ends (tryClose, enterCall).
NoWorkInClosingService == proc = "closing" => ~DaemonBusy /\ inside = {}

\* No lost wake-up: an event in the queue has a deliver goroutine to send it.
DeliverAwake == (events # <<>> \/ batch # <<>>) => delivering

\* A tray that has seen a status since it subscribed ends up at the daemon's
\* state once it has read what is under way, whatever polls, answers and
\* signals came in between.
SignalsConverge ==
    \A c \in Trays :
        (/\ proc = "up" /\ pc[c] = "watching" /\ last[c] \in {"job", "other"}
         /\ ~Contains(inbox[c], "ownerLost"))
        => Last(<<view[c]>> \o inbox[c] \o batch \o events) = state

\* An installer says installed only when kairos-agent succeeded.
InstalledIsReady == \A c \in Installers : view[c] = "installed" => outcome = "installed"

\* What the clients show is what the daemon said and kairos-agent did, also
\* when the marker says less.
ViewsAreTrue == SignalsConverge /\ InstalledIsReady

\* A tray that watches a service and was answered by the poll, or still polls,
\* does not show a job for ever: the poll repairs a signal missed before it
\* subscribed, the owner's loss ends a job that died.
FollowedJobEnds ==
    \A c \in Trays :
        (view[c] \in Busy /\ pc[c] = "watching" /\ proc # "none" /\ last[c] # "absent")
        ~> (view[c] \notin Busy)

\* No tray shows a job for ever: "a caller never waits on a dead job" (comment
\* at client.go:209-210).  Fails when the process ends between a tray's Status
\* and its Watch: no owner is lost any more, and the poll finds nobody.
TrayLeavesBusy == \A c \in Trays : (view[c] \in Busy) ~> (view[c] \notin Busy)

\* An installer whose Apply was accepted comes to a verdict, also when the
\* service dies or another client cancels.
FollowEnds == \A c \in Installers : (pc[c] = "follow") ~> (pc[c] = "done")
=============================================================================
