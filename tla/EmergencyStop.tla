---------------------------- MODULE EmergencyStop ----------------------------
(***************************************************************************)
(* The emergency stop of the agent: the controller in the gateway process  *)
(* (agent/internal/control), the gateway's call pipeline, the Unix-socket  *)
(* hop, and the guard of the two brokers that run the tools: the session   *)
(* broker, which the controller tells to pause and resume, and the root    *)
(* helper, which it does not (cmd/hadron-agent/main.go) although its socket *)
(* takes the same two requests.                                            *)
(*                                                                         *)
(* A call is one MCP request with a goroutine in the gateway and one in a  *)
(* broker; the second may outlive the first.  An operator is one pause or  *)
(* resume request, on the control socket or the root helper's.  A          *)
(* generation is a number; its context is cancelled once it is in          *)
(* cancelled (or bCancelled).                                              *)
(*                                                                         *)
(* A definition X_bug just before X is X with a plausible mistake.  Nothing *)
(* uses it; with it in X's place, a property named in the README fails.    *)
(***************************************************************************)
EXTENDS Integers, FiniteSets

CONSTANTS Calls,      \* calls alive at one time (a bound)
          Operators,  \* pause and resume requests alive at one time (a bound)
          GatewaySlots, BrokerSlots,  \* capacity of the semaphores
          MaxGens     \* bound: generations after the first, in each process

ASSUME SlotsAssumption == GatewaySlots \in Nat /\ BrokerSlots \in Nat
ASSUME CallsAssumption == IsFiniteSet(Calls)
ASSUME GensAssumption == MaxGens \in Nat

VARIABLES
    paused, gen, cancelled,         \* control.Controller
    op, opGen,                      \* a control request, and the generation Pause captured
    gw, kind, cgen, ctxDone, gwSlots, \* the gateway's side of a call; its semaphore
    br, bgen, hopDone,              \* the broker's side of a call
    bPaused, bG, bCancelled, bSlots, \* session.Broker and roothelper.Helper
    rootLocked                      \* Helper.mu is held by no running goroutine

controller == <<paused, gen, cancelled>>
operators == <<op, opGen>>
call == <<gw, kind, cgen, ctxDone, br, bgen, hopDone>>
flags == <<bPaused, bG, bCancelled>>
brokers == <<flags, bSlots, rootLocked>>
stopVars == <<controller, operators, call, gwSlots, brokers>>

Sides == {"session", "root"}
Kinds == {"os", "computer", "root"}
Gens == 0 .. MaxGens

Ops == {"idle", "cancel", "tellPause", "tellResume", "rootPause", "rootResume"}
GatewayPCs == {"idle", "admitted", "calling", "sent"}
BrokerPCs == {"none", "arrived", "queued", "holding", "entered", "running", "answered"}

StopTypeOK ==
    /\ paused \in BOOLEAN /\ gen \in Gens /\ cancelled \subseteq Gens
    /\ op \in [Operators -> Ops] /\ opGen \in [Operators -> Gens]
    /\ gw \in [Calls -> GatewayPCs] /\ kind \in [Calls -> Kinds]
    /\ cgen \in [Calls -> Gens] /\ ctxDone \in [Calls -> BOOLEAN]
    /\ gwSlots \in 0 .. GatewaySlots
    /\ br \in [Calls -> BrokerPCs] /\ bgen \in [Calls -> Gens]
    /\ hopDone \in [Calls -> BOOLEAN]
    /\ bPaused \in [Sides -> BOOLEAN] /\ bG \in [Sides -> Gens]
    /\ bCancelled \in [Sides -> SUBSET Gens]
    /\ bSlots \in [Sides -> 0 .. BrokerSlots] /\ rootLocked \in BOOLEAN

StopInit ==
    /\ paused = FALSE /\ gen = 0 /\ cancelled = {}
    /\ op = [o \in Operators |-> "idle"] /\ opGen = [o \in Operators |-> 0]
    /\ gw = [c \in Calls |-> "idle"] /\ kind = [c \in Calls |-> "os"]
    /\ cgen = [c \in Calls |-> 0] /\ ctxDone = [c \in Calls |-> FALSE]
    /\ gwSlots = GatewaySlots
    /\ br = [c \in Calls |-> "none"] /\ bgen = [c \in Calls |-> 0]
    /\ hopDone = [c \in Calls |-> FALSE]
    /\ bPaused = [s \in Sides |-> FALSE] /\ bG = [s \in Sides |-> 0]
    /\ bCancelled = [s \in Sides |-> {}] /\ bSlots = [s \in Sides |-> BrokerSlots]
    /\ rootLocked = FALSE

-----------------------------------------------------------------------------
(* Helpers *)

\* pick: an admin's OS tools go to the root helper, everything else to the session.
Side(c) == IF kind[c] = "root" THEN "root" ELSE "session"

InOp(o, p) == op' = [op EXCEPT ![o] = p]
InGateway(c, p) == gw' = [gw EXCEPT ![c] = p]
InBroker(c, p) == br' = [br EXCEPT ![c] = p]

\* The deferred releaseSem of route, and the one of guard.
FreeGatewaySlot_twice == gwSlots' = gwSlots + 2
FreeGatewaySlot == gwSlots' = gwSlots + 1

FreeBrokerSlot_leak(c) == UNCHANGED bSlots
FreeBrokerSlot(c) == bSlots' = [bSlots EXCEPT ![Side(c)] = @ + 1]

BrokerCancelled(c) == bgen[c] \in bCancelled[Side(c)]

\* Both goroutines of the call are gone, and their locals with them.
Over(c) ==
    /\ InGateway(c, "idle") /\ InBroker(c, "none")
    /\ kind' = [kind EXCEPT ![c] = "os"]
    /\ cgen' = [cgen EXCEPT ![c] = 0] /\ ctxDone' = [ctxDone EXCEPT ![c] = FALSE]
    /\ bgen' = [bgen EXCEPT ![c] = 0] /\ hopDone' = [hopDone EXCEPT ![c] = FALSE]

\* The handler of a broker returns.  Nobody waits for the answer when the
\* gateway has dropped the connection.
Answer(c) ==
    IF gw[c] = "sent"
    THEN InBroker(c, "answered") /\ UNCHANGED <<gw, kind, cgen, ctxDone, bgen, hopDone>>
    ELSE Over(c)

-----------------------------------------------------------------------------
(* The controller.  The flag is set under the lock; what follows is not.    *)

PauseFlag(o) ==
    /\ op[o] = "idle"
    /\ paused' = TRUE
    /\ opGen' = [opGen EXCEPT ![o] = gen]
    /\ InOp(o, "cancel")
    /\ UNCHANGED <<gen, cancelled, call, gwSlots, brokers>>

\* gen.cancel(), of the generation read under the lock.
ToCancel_current(o) == gen
ToCancel(o) == opGen[o]

PauseCancel(o) ==
    /\ op[o] = "cancel"
    /\ cancelled' = cancelled \cup {ToCancel(o)}
    /\ opGen' = [opGen EXCEPT ![o] = 0]
    /\ InOp(o, "tellPause")
    /\ UNCHANGED <<paused, gen, call, gwSlots, brokers>>

\* A broker's Pause: flag and cancel under one lock.
SetPaused(s) ==
    /\ bPaused' = [bPaused EXCEPT ![s] = TRUE]
    /\ bCancelled' = [bCancelled EXCEPT ![s] = @ \cup {bG[s]}]
    /\ UNCHANGED <<bG, bSlots>>

SessionPause ==
    IF bPaused["session"]
    THEN UNCHANGED brokers
    ELSE SetPaused("session") /\ UNCHANGED rootLocked

\* The broker's error is only logged.
PauseTell(o) ==
    /\ op[o] = "tellPause"
    /\ SessionPause \/ UNCHANGED brokers
    /\ InOp(o, "idle")
    /\ UNCHANGED <<controller, opGen, call, gwSlots>>

ResumeFlag(o) ==
    /\ op[o] = "idle" /\ gen < MaxGens
    /\ paused' = FALSE
    /\ gen' = gen + 1
    /\ InOp(o, "tellResume")
    /\ UNCHANGED <<cancelled, opGen, call, gwSlots, brokers>>

\* A broker's Resume: a fresh generation, only for a paused broker.
ResumeIgnored_never(s) == FALSE
ResumeIgnored(s) == ~bPaused[s]

BrokerResume(s) ==
    IF ResumeIgnored(s)
    THEN UNCHANGED brokers
    ELSE /\ bG[s] < MaxGens
         /\ bPaused' = [bPaused EXCEPT ![s] = FALSE]
         /\ bG' = [bG EXCEPT ![s] = @ + 1]
         /\ UNCHANGED <<bCancelled, bSlots, rootLocked>>

ResumeTell(o) ==
    /\ op[o] = "tellResume"
    /\ BrokerResume("session") \/ UNCHANGED brokers
    /\ InOp(o, "idle")
    /\ UNCHANGED <<controller, opGen, call, gwSlots>>

(* The root helper's own two requests.                                      *)
RootAsks(o, request) ==
    /\ op[o] = "idle"
    /\ InOp(o, request)
    /\ UNCHANGED <<opGen, controller, call, gwSlots, brokers>>

\* roothelper.Helper.Pause: the return that pauses has no Unlock.
RootPause(o) ==
    /\ op[o] = "rootPause" /\ ~rootLocked
    /\ InOp(o, "idle")
    /\ IF bPaused["root"]
       THEN UNCHANGED brokers
       ELSE SetPaused("root") /\ rootLocked' = TRUE
    /\ UNCHANGED <<opGen, controller, call, gwSlots>>

RootResume(o) ==
    /\ op[o] = "rootResume" /\ ~rootLocked
    /\ InOp(o, "idle")
    /\ BrokerResume("root")
    /\ UNCHANGED <<opGen, controller, call, gwSlots>>

-----------------------------------------------------------------------------
(* The gateway: route.                                                      *)

\* Enter.  Paused: the call is refused and leaves no state.
Admit(c, k) ==
    /\ gw[c] = "idle" /\ br[c] = "none"
    /\ ~paused
    /\ InGateway(c, "admitted")
    /\ kind' = [kind EXCEPT ![c] = k]
    /\ cgen' = [cgen EXCEPT ![c] = gen]
    /\ UNCHANGED <<ctxDone, br, bgen, hopDone, gwSlots, controller, operators, brokers>>

\* acquire never waits: a full gateway sheds the call.
Acquire(c) ==
    /\ gw[c] = "admitted"
    /\ IF gwSlots > 0
       THEN /\ InGateway(c, "calling") /\ gwSlots' = gwSlots - 1
            /\ UNCHANGED <<kind, cgen, ctxDone, br, bgen, hopDone>>
       ELSE Over(c) /\ UNCHANGED gwSlots
    /\ UNCHANGED <<controller, operators, brokers>>

\* client.Call: the request reaches the broker's server.
Send(c) ==
    /\ gw[c] = "calling" /\ ~ctxDone[c]
    /\ InGateway(c, "sent")
    /\ InBroker(c, "arrived")
    /\ UNCHANGED <<kind, cgen, ctxDone, bgen, hopDone, gwSlots, controller, operators, brokers>>

\* Before that: the context is done, or the socket cannot be dialled.
SendFails(c) ==
    /\ gw[c] = "calling"
    /\ Over(c)
    /\ FreeGatewaySlot
    /\ UNCHANGED <<controller, operators, brokers>>

\* The response, or the error of a broken connection.
Respond(c) ==
    /\ gw[c] = "sent" /\ br[c] = "answered"
    /\ Over(c)
    /\ FreeGatewaySlot
    /\ UNCHANGED <<controller, operators, brokers>>

\* The call's context is done: the gateway answers and drops the connection,
\* while the broker may still be at work.
GiveUp(c) ==
    /\ gw[c] = "sent" /\ br[c] # "answered" /\ ctxDone[c]
    /\ InGateway(c, "idle")
    /\ cgen' = [cgen EXCEPT ![c] = 0] /\ ctxDone' = [ctxDone EXCEPT ![c] = FALSE]
    /\ FreeGatewaySlot
    /\ UNCHANGED <<kind, br, bgen, hopDone, controller, operators, brokers>>

\* context.AfterFunc(gen.ctx, cancel) runs on a goroutine of its own.
StopReaches(c) ==
    /\ gw[c] # "idle" /\ ~ctxDone[c]
    /\ cgen[c] \in cancelled
    /\ ctxDone' = [ctxDone EXCEPT ![c] = TRUE]
    /\ UNCHANGED <<gw, kind, cgen, br, bgen, hopDone, gwSlots, controller, operators, brokers>>

\* The client went away, or the deadline of the call passed.
Expire(c) ==
    /\ gw[c] # "idle" /\ ~ctxDone[c]
    /\ ctxDone' = [ctxDone EXCEPT ![c] = TRUE]
    /\ UNCHANGED <<gw, kind, cgen, br, bgen, hopDone, gwSlots, controller, operators, brokers>>

-----------------------------------------------------------------------------
(* The brokers: guard.                                                      *)

\* The broker's server sees that the connection is gone.
HopNotices(c) ==
    /\ gw[c] = "idle" /\ br[c] # "none" /\ ~hopDone[c]
    /\ hopDone' = [hopDone EXCEPT ![c] = TRUE]
    /\ UNCHANGED <<gw, kind, cgen, ctxDone, br, bgen, gwSlots, controller, operators, brokers>>

\* The root helper does not accept the bearer itself.
Unauthorized(c) ==
    /\ br[c] = "arrived" /\ Side(c) = "root"
    /\ Answer(c)
    /\ UNCHANGED <<gwSlots, controller, operators, brokers>>

\* enter looks at the broker's flag under its lock.
LockFree(c) == Side(c) = "root" => ~rootLocked

Refuse(c) ==
    /\ br[c] = "arrived" /\ LockFree(c)
    /\ bPaused[Side(c)]
    /\ Answer(c)
    /\ UNCHANGED <<gwSlots, controller, operators, brokers>>

\* enter: bound to the broker's generation.  computer_use takes no slot.
Enter(c) ==
    /\ br[c] = "arrived" /\ LockFree(c)
    /\ ~bPaused[Side(c)]
    /\ InBroker(c, IF kind[c] = "computer" THEN "entered" ELSE "queued")
    /\ bgen' = [bgen EXCEPT ![c] = bG[Side(c)]]
    /\ UNCHANGED <<gw, kind, cgen, ctxDone, hopDone, gwSlots, controller, operators, brokers>>

TakeSlot(c) ==
    /\ br[c] = "queued" /\ bSlots[Side(c)] > 0
    /\ InBroker(c, "holding")
    /\ bSlots' = [bSlots EXCEPT ![Side(c)] = @ - 1]
    /\ UNCHANGED <<gw, kind, cgen, ctxDone, bgen, hopDone, gwSlots, flags, rootLocked, controller, operators>>

LeaveQueue(c) ==
    /\ br[c] = "queued"
    /\ hopDone[c] \/ BrokerCancelled(c)
    /\ Answer(c)
    /\ UNCHANGED <<gwSlots, controller, operators, brokers>>

\* The second look at genCtx, once the slot is held; then run starts.
RecheckFails_never(c) == FALSE
RecheckFails(c) == BrokerCancelled(c)

Recheck(c) ==
    /\ br[c] = "holding"
    /\ IF RecheckFails(c)
       THEN Answer(c) /\ FreeBrokerSlot(c)
       ELSE /\ InBroker(c, "running")
            /\ UNCHANGED <<gw, kind, cgen, ctxDone, bgen, hopDone, bSlots>>
    /\ UNCHANGED <<gwSlots, flags, rootLocked, controller, operators>>

StartComputer(c) ==
    /\ br[c] = "entered"
    /\ InBroker(c, "running")
    /\ UNCHANGED <<gw, kind, cgen, ctxDone, bgen, hopDone, gwSlots, controller, operators, brokers>>

Finish(c) ==
    /\ br[c] = "running"
    /\ Answer(c)
    /\ IF kind[c] = "computer" THEN UNCHANGED bSlots ELSE FreeBrokerSlot(c)
    /\ UNCHANGED <<gwSlots, flags, rootLocked, controller, operators>>

\* mergeCancel: the executor runs under the caller's context and the
\* broker's generation, and returns soon after either is done.
Interrupted_byPauseOnly(c) == BrokerCancelled(c)
Interrupted(c) == hopDone[c] \/ BrokerCancelled(c)

-----------------------------------------------------------------------------
(* Restarts (Restart=on-failure).  A new process is not paused.             *)

\* The calls in Gone are over; those in Left go on without the gateway.
GatewayLeaves(Gone, Left) ==
    /\ gw' = [c \in Calls |-> IF c \in Gone \cup Left THEN "idle" ELSE gw[c]]
    /\ br' = [c \in Calls |-> IF c \in Gone THEN "none" ELSE br[c]]
    /\ kind' = [c \in Calls |-> IF c \in Gone THEN "os" ELSE kind[c]]
    /\ cgen' = [c \in Calls |-> IF c \in Gone \cup Left THEN 0 ELSE cgen[c]]
    /\ ctxDone' = [c \in Calls |-> IF c \in Gone \cup Left THEN FALSE ELSE ctxDone[c]]
    /\ bgen' = [c \in Calls |-> IF c \in Gone THEN 0 ELSE bgen[c]]
    /\ hopDone' = [c \in Calls |-> IF c \in Gone THEN FALSE ELSE hopDone[c]]

GatewayRestarts ==
    /\ gen < MaxGens
    /\ paused' = FALSE /\ gen' = gen + 1 /\ cancelled' = cancelled \cup 0 .. gen
    /\ op' = [o \in Operators |-> "idle"] /\ opGen' = [o \in Operators |-> 0]
    /\ LET Gone == {c \in Calls : br[c] \in {"none", "answered"}}
       IN  GatewayLeaves(Gone, Calls \ Gone)
    /\ gwSlots' = GatewaySlots
    /\ UNCHANGED brokers

\* The gateway and the operators read an error from each connection to it.
BrokerRestarts(s) ==
    /\ bG[s] < MaxGens
    /\ bPaused' = [bPaused EXCEPT ![s] = FALSE]
    /\ bG' = [bG EXCEPT ![s] = @ + 1]
    /\ bCancelled' = [bCancelled EXCEPT ![s] = @ \cup 0 .. bG[s]]
    /\ bSlots' = [bSlots EXCEPT ![s] = BrokerSlots]
    /\ rootLocked' = (s = "session" /\ rootLocked)
    /\ op' = [o \in Operators |->
                IF s = "root" /\ op[o] \in {"rootPause", "rootResume"} THEN "idle" ELSE op[o]]
    /\ br' = [c \in Calls |->
                IF Side(c) # s \/ br[c] = "none" THEN br[c]
                ELSE IF gw[c] = "sent" THEN "answered" ELSE "none"]
    /\ bgen' = [c \in Calls |-> IF br'[c] = "none" THEN 0 ELSE bgen[c]]
    /\ hopDone' = [c \in Calls |-> IF br'[c] = "none" THEN FALSE ELSE hopDone[c]]
    /\ kind' = [c \in Calls |-> IF gw[c] = "idle" /\ br'[c] = "none" THEN "os" ELSE kind[c]]
    /\ UNCHANGED <<opGen, gw, cgen, ctxDone, gwSlots, controller>>

-----------------------------------------------------------------------------
Control(o) == PauseFlag(o) \/ PauseCancel(o) \/ PauseTell(o) \/ ResumeFlag(o) \/ ResumeTell(o)

RootControl(o) ==
    \/ \E request \in {"rootPause", "rootResume"} : RootAsks(o, request)
    \/ RootPause(o) \/ RootResume(o)

Route(c) ==
    \/ \E k \in Kinds : Admit(c, k)
    \/ Acquire(c) \/ Send(c) \/ SendFails(c) \/ Respond(c) \/ GiveUp(c)
    \/ StopReaches(c) \/ Expire(c)

Guard(c) ==
    \/ HopNotices(c) \/ Unauthorized(c) \/ Refuse(c) \/ Enter(c) \/ TakeSlot(c) \/ LeaveQueue(c) \/ Recheck(c)
    \/ StartComputer(c) \/ Finish(c)

StopNext ==
    \/ \E o \in Operators : Control(o) \/ RootControl(o)
    \/ \E c \in Calls : Route(c) \/ Guard(c)
    \/ GatewayRestarts \/ \E s \in Sides : BrokerRestarts(s)

StopSpec == StopInit /\ [][StopNext]_stopVars

\* A goroutine that can go on does; a tool need not end before it is
\* interrupted.  A request that waits in a broker gets a slot or leaves.
Answers(c) ==
    \/ Acquire(c) \/ Send(c) \/ SendFails(c) \/ Respond(c) \/ GiveUp(c)

StopFairness ==
    /\ \A o \in Operators :
         /\ WF_stopVars(PauseCancel(o)) /\ WF_stopVars(PauseTell(o) \/ ResumeTell(o))
         /\ WF_stopVars(RootPause(o) \/ RootResume(o))
    /\ \A c \in Calls :
         /\ WF_stopVars(Answers(c)) /\ WF_stopVars(StopReaches(c)) /\ WF_stopVars(HopNotices(c))
         /\ WF_stopVars(Refuse(c) \/ Enter(c)) /\ WF_stopVars(LeaveQueue(c)) /\ WF_stopVars(Recheck(c))
         /\ WF_stopVars(StartComputer(c)) /\ WF_stopVars(Finish(c) /\ Interrupted(c))

StopFairSpec == StopSpec /\ StopFairness

-----------------------------------------------------------------------------
(* Properties *)

(* "No call can slip in between" (Enter), and a call admitted after resume  *)
(* is not tied to the cancelled generation: in the controller and in the    *)
(* session broker, whatever requests overlap, the current generation is     *)
(* cancelled once a pause is through, and never before the pause is set.    *)
GenerationFollowsFlag ==
    /\ ~paused => gen \notin cancelled
    /\ paused /\ (\A o \in Operators : op[o] # "cancel") => gen \in cancelled
    /\ \A s \in Sides : bPaused[s] <=> bG[s] \in bCancelled[s]

(* "A call that passes enter just before a pause still has its context      *)
(* cancelled by that pause" (enter, in both brokers): a paused broker has no *)
(* call whose context lives, also from generations before the current one.  *)
PausedBrokerHasNoLiveCall ==
    \A c \in Calls :
        bPaused[Side(c)] /\ br[c] \in {"queued", "holding", "entered", "running"}
            => BrokerCancelled(c)

(* "Re-check so a call cannot start executing after a pause" (guard): no    *)
(* shell or file call starts in a paused broker, though it entered and      *)
(* took its slot when the broker was not paused.                            *)
NothingStartsInPausedBroker ==
    [][\A c \in Calls :
         br[c] = "holding" /\ br'[c] = "running" => ~bPaused[Side(c)]]_stopVars

(* Every path gives its slot back, whether the call was shed, answered,     *)
(* given up, refused in the queue or cut off by a restart: no capacity is   *)
(* lost, and no more calls run than the semaphores admit.                   *)
SlotsBalance ==
    /\ gwSlots + Cardinality({c \in Calls : gw[c] \in {"calling", "sent"}}) = GatewaySlots
    /\ \A s \in Sides :
         bSlots[s] + Cardinality({c \in Calls : Side(c) = s /\ kind[c] # "computer"
                                               /\ br[c] \in {"holding", "running"}})
             = BrokerSlots

(* An emergency stop that reached a call's generation ends it on both       *)
(* sides: in the root helper too, which nobody tells to pause, by the       *)
(* connection that the gateway drops.                                       *)
StoppedCallEnds ==
    \A c \in Calls :
        /\ (gw[c] # "idle" /\ cgen[c] \in cancelled) ~> (gw[c] = "idle" /\ br[c] = "none")
        /\ (br[c] = "running" /\ BrokerCancelled(c)) ~> (br[c] # "running")

(* A pause must "cancel every in-flight call" (package control): once no    *)
(* request is under way and the controller is paused, each call that runs   *)
(* has a cancelled context, on the gateway's side or on the broker's.       *)
PauseCancelsEveryCall ==
    paused /\ (\A o \in Operators : op[o] = "idle") =>
        \A c \in Calls :
            br[c] = "running" => cgen[c] \in cancelled \/ hopDone[c] \/ BrokerCancelled(c)

(* A pause "tells every broker to pause", a resume "tells every broker to   *)
(* resume", and the controller "is safe for concurrent use": once no        *)
(* request is under way, the session is paused just when the controller is. *)
SessionAgrees ==
    (\A o \in Operators : op[o] = "idle") => bPaused["session"] = paused

(* Pause and Resume of the root helper are idempotent ("Server calls them   *)
(* directly ... with no de-duplication"): each request is answered.         *)
RootAnswers ==
    \A o \in Operators : (op[o] \in {"rootPause", "rootResume"}) ~> (op[o] = "idle")
=============================================================================
