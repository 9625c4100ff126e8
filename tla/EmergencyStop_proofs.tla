------------------------ MODULE EmergencyStop_proofs ------------------------
(***************************************************************************)
(* The safety properties of EmergencyStop, for every set of calls and      *)
(* operators, every capacity and every bound on the generations.           *)
(*                                                                         *)
(* That a paused broker has no live call rests on how the generations of   *)
(* its calls relate to its own; that no slot is lost rests on which side   *)
(* of a call may be where while the other side has already left.           *)
(***************************************************************************)
EXTENDS EmergencyStop, FiniteSetTheorems, TLAPS

(* The types; how far the semaphores can fill follows from SlotsBalance.    *)
ControllerTypes ==
    /\ paused \in BOOLEAN /\ gen \in Gens /\ cancelled \subseteq Gens
    /\ op \in [Operators -> Ops] /\ opGen \in [Operators -> Gens]
CallTypes ==
    /\ gw \in [Calls -> GatewayPCs] /\ kind \in [Calls -> Kinds]
    /\ cgen \in [Calls -> Gens] /\ ctxDone \in [Calls -> BOOLEAN]
    /\ br \in [Calls -> BrokerPCs] /\ bgen \in [Calls -> Gens]
    /\ hopDone \in [Calls -> BOOLEAN]
BrokerTypes ==
    /\ bPaused \in [Sides -> BOOLEAN] /\ bG \in [Sides -> Gens]
    /\ bCancelled \in [Sides -> SUBSET Gens] /\ rootLocked \in BOOLEAN
SlotTypes == gwSlots \in Nat /\ bSlots \in [Sides -> Nat]
Types == ControllerTypes /\ CallTypes /\ BrokerTypes /\ SlotTypes

(* The controller: what is cancelled lies behind the flag, and a pause that *)
(* set the flag and has not cancelled yet still means this generation.      *)
GenInv ==
    /\ cancelled \subseteq 0 .. gen
    /\ ~paused => gen \notin cancelled
    /\ \A o \in Operators : op[o] = "cancel" =>
         opGen[o] <= gen /\ (opGen[o] = gen => paused)
    /\ paused => \/ gen \in cancelled
                 \/ \E o \in Operators : op[o] = "cancel" /\ opGen[o] = gen

(* A broker: the flag says that the current generation is cancelled.        *)
FlagInv ==
    \A s \in Sides :
        /\ bCancelled[s] \subseteq 0 .. bG[s]
        /\ bPaused[s] <=> bG[s] \in bCancelled[s]

(* A call behind enter belongs to the current generation, or its own has    *)
(* been cancelled.                                                          *)
Entered == {"queued", "holding", "entered", "running"}
CallInv ==
    \A c \in Calls : br[c] \in Entered => bgen[c] = bG[Side(c)] \/ BrokerCancelled(c)

(* A call the gateway has not sent has no goroutine in a broker, and only   *)
(* computer_use passes the broker's semaphore by.                           *)
HopInv ==
    \A c \in Calls :
        /\ gw[c] \in {"admitted", "calling"} => br[c] = "none"
        /\ br[c] \in {"queued", "holding"} => kind[c] # "computer"
        /\ br[c] = "entered" => kind[c] = "computer"

(* Who holds a slot of the gateway, and of a broker.                        *)
InCall == {c \in Calls : gw[c] \in {"calling", "sent"}}
Holders(s) == {c \in Calls : Side(c) = s /\ kind[c] # "computer"
                             /\ br[c] \in {"holding", "running"}}
GatewayBalance == gwSlots + Cardinality(InCall) = GatewaySlots
BrokerBalance == \A s \in Sides : bSlots[s] + Cardinality(Holders(s)) = BrokerSlots

IInv ==
    /\ Types /\ GenInv /\ FlagInv /\ CallInv /\ HopInv
    /\ GatewayBalance /\ BrokerBalance

-----------------------------------------------------------------------------
(* One lemma for each part of the invariant; in each, the actions that       *)
(* touch none of the part's variables share a step.                          *)

(* Generations are natural numbers, and the first is 0.                      *)
LEMMA GensAreNat == 0 \in Gens /\ Gens \subseteq Nat /\ \A g \in Gens : 0 .. g \subseteq Gens
  BY GensAssumption DEF Gens

(* A call that is over leaves the locals of their types.                    *)
LEMMA OverTypes == ASSUME CallTypes, NEW c \in Calls, Over(c) PROVE CallTypes'
<1>1. gw' \in [Calls -> GatewayPCs] /\ br' \in [Calls -> BrokerPCs]
  BY DEF CallTypes, Over, InGateway, InBroker, GatewayPCs, BrokerPCs
<1>2. kind' \in [Calls -> Kinds] /\ cgen' \in [Calls -> Gens] /\ bgen' \in [Calls -> Gens]
  BY GensAreNat DEF CallTypes, Over, Kinds
<1>3. ctxDone' \in [Calls -> BOOLEAN] /\ hopDone' \in [Calls -> BOOLEAN]
  BY DEF CallTypes, Over
<1> QED BY <1>1, <1>2, <1>3 DEF CallTypes

(* The same for an answer, which the gateway may still wait for.            *)
LEMMA AnswerTypes == ASSUME CallTypes, NEW c \in Calls, Answer(c) PROVE CallTypes'
<1>1. CASE gw[c] = "sent"
  BY <1>1 DEF CallTypes, Answer, InBroker, BrokerPCs
<1>2. CASE gw[c] # "sent"
  BY <1>2, OverTypes DEF Answer
<1> QED BY <1>1, <1>2

(* The controller and its requests stay in their types.                     *)
LEMMA ControllerTypesStep == IInv /\ [StopNext]_stopVars => ControllerTypes'
<1> SUFFICES ASSUME IInv, [StopNext]_stopVars PROVE ControllerTypes'
  OBVIOUS
<1> USE GensAssumption
<1>1. CASE UNCHANGED stopVars
  BY <1>1 DEF stopVars, controller, operators, call, flags, brokers, IInv, Types,
      ControllerTypes
<1>2. ASSUME NEW o \in Operators, PauseFlag(o) PROVE ControllerTypes'
  BY <1>2 DEF PauseFlag, InOp, IInv, Types, ControllerTypes, Gens, Ops
<1>3. ASSUME NEW o \in Operators, PauseCancel(o) PROVE ControllerTypes'
  <2>1. opGen' \in [Operators -> Gens] /\ op' \in [Operators -> Ops]
    BY <1>3, GensAreNat DEF PauseCancel, InOp, IInv, Types, ControllerTypes, Ops
  <2>2. cancelled' \subseteq Gens
    BY <1>3 DEF PauseCancel, ToCancel, IInv, Types, ControllerTypes
  <2> QED BY <2>1, <2>2, <1>3 DEF PauseCancel, IInv, Types, ControllerTypes
<1>4. ASSUME NEW o \in Operators, PauseTell(o) PROVE ControllerTypes'
  BY <1>4 DEF PauseTell, SessionPause, SetPaused, InOp, controller, IInv,
      Types, ControllerTypes, Gens, Ops
<1>5. ASSUME NEW o \in Operators, ResumeFlag(o) PROVE ControllerTypes'
  <2>1. gen' \in Gens
    BY <1>5, GensAssumption DEF ResumeFlag, IInv, Types, ControllerTypes, Gens
  <2>2. op' \in [Operators -> Ops]
    BY <1>5 DEF ResumeFlag, InOp, IInv, Types, ControllerTypes, Ops
  <2> QED BY <2>1, <2>2, <1>5 DEF ResumeFlag, operators, IInv, Types, ControllerTypes
<1>6. ASSUME NEW o \in Operators, ResumeTell(o) PROVE ControllerTypes'
  BY <1>6 DEF ResumeTell, BrokerResume, ResumeIgnored, InOp, controller, IInv,
      Types, ControllerTypes, Gens, Ops
<1>7. ASSUME NEW o \in Operators, NEW r \in {"rootPause", "rootResume"}, RootAsks(o, r)
      PROVE ControllerTypes'
  BY <1>7 DEF RootAsks, InOp, controller, IInv, Types, ControllerTypes, Gens,
      Ops
<1>8. ASSUME NEW o \in Operators, RootPause(o) PROVE ControllerTypes'
  BY <1>8 DEF RootPause, SetPaused, InOp, controller, IInv, Types,
      ControllerTypes, Gens, Ops
<1>9. ASSUME NEW o \in Operators, RootResume(o) PROVE ControllerTypes'
  BY <1>9 DEF RootResume, BrokerResume, ResumeIgnored, InOp, controller, IInv,
      Types, ControllerTypes, Gens, Ops
<1>10. ASSUME GatewayRestarts PROVE ControllerTypes'
  <2>1. gen' \in Gens
    BY <1>10, GensAssumption DEF GatewayRestarts, IInv, Types, ControllerTypes, Gens
  <2>2. cancelled' \subseteq Gens
    BY <1>10, GensAreNat DEF GatewayRestarts, IInv, Types, ControllerTypes
  <2>3. op' \in [Operators -> Ops] /\ opGen' \in [Operators -> Gens]
    BY <1>10, GensAreNat DEF GatewayRestarts, Ops
  <2>4. paused' \in BOOLEAN
    BY <1>10 DEF GatewayRestarts
  <2> QED BY <2>1, <2>2, <2>3, <2>4 DEF ControllerTypes
<1>11. ASSUME NEW s \in Sides, BrokerRestarts(s) PROVE ControllerTypes'
  BY <1>11 DEF BrokerRestarts, controller, IInv, Types, ControllerTypes, Gens,
      Ops
<1>12. ASSUME NEW c \in Calls,
           Acquire(c) \/ Send(c) \/ SendFails(c) \/ Respond(c) \/ GiveUp(c)
               \/ StopReaches(c) \/ Expire(c) \/ HopNotices(c) \/
               Unauthorized(c) \/ Refuse(c) \/ Enter(c) \/ TakeSlot(c) \/
               LeaveQueue(c) \/ Recheck(c) \/ StartComputer(c) \/ Finish(c)
               \/ (\E k \in Kinds : Admit(c, k))
      PROVE ControllerTypes'
  <2>1. UNCHANGED <<paused, gen, cancelled, op, opGen>>
    BY <1>12 DEF Acquire, Send, SendFails, Respond, GiveUp, StopReaches, Expire,
        HopNotices, Unauthorized, Refuse, Enter, TakeSlot, LeaveQueue,
        Recheck, StartComputer, Finish, Admit, controller, operators, call,
        flags, brokers
  <2> QED BY <2>1 DEF IInv, Types, ControllerTypes
<1> QED BY <1>1, <1>2, <1>3, <1>4, <1>5, <1>6, <1>7, <1>8, <1>9, <1>10,
    <1>11, <1>12 DEF StopNext, Control, RootControl, Route, Guard

(* So do the two sides of every call.                                       *)
LEMMA CallTypesStep == IInv /\ [StopNext]_stopVars => CallTypes'
<1> SUFFICES ASSUME IInv, [StopNext]_stopVars PROVE CallTypes'
  OBVIOUS
<1> USE GensAssumption
<1>1. CASE UNCHANGED stopVars
  BY <1>1 DEF stopVars, controller, operators, call, flags, brokers, IInv, Types,
      CallTypes
<1>2. ASSUME NEW c \in Calls, NEW k \in Kinds, Admit(c, k) PROVE CallTypes'
  BY <1>2 DEF Admit, InGateway, IInv, Types, CallTypes, BrokerTypes,
      ControllerTypes, Gens, Kinds, GatewayPCs, BrokerPCs, Sides
<1>3. ASSUME NEW c \in Calls, Acquire(c) PROVE CallTypes'
  <2>1. CASE gwSlots > 0
    BY <2>1, <1>3 DEF Acquire, InGateway, IInv, Types, CallTypes, GatewayPCs
  <2>2. CASE ~(gwSlots > 0)
    BY <2>2, <1>3, OverTypes DEF Acquire, IInv, Types
  <2> QED BY <2>1, <2>2
<1>4. ASSUME NEW c \in Calls, Send(c) PROVE CallTypes'
  BY <1>4 DEF Send, InGateway, InBroker, IInv, Types, CallTypes, BrokerTypes,
      ControllerTypes, Gens, Kinds, GatewayPCs, BrokerPCs, Sides
<1>5. ASSUME NEW c \in Calls, SendFails(c) PROVE CallTypes'
  BY <1>5, OverTypes DEF SendFails, IInv, Types
<1>6. ASSUME NEW c \in Calls, Respond(c) PROVE CallTypes'
  BY <1>6, OverTypes DEF Respond, IInv, Types
<1>7. ASSUME NEW c \in Calls, GiveUp(c) PROVE CallTypes'
  BY <1>7 DEF GiveUp, FreeGatewaySlot, InGateway, IInv, Types, CallTypes,
      BrokerTypes, ControllerTypes, Gens, Kinds, GatewayPCs, BrokerPCs, Sides
<1>8. ASSUME NEW c \in Calls, StopReaches(c) PROVE CallTypes'
  BY <1>8 DEF StopReaches, IInv, Types, CallTypes, BrokerTypes,
      ControllerTypes, Gens, Kinds, GatewayPCs, BrokerPCs, Sides
<1>9. ASSUME NEW c \in Calls, Expire(c) PROVE CallTypes'
  BY <1>9 DEF Expire, IInv, Types, CallTypes, BrokerTypes, ControllerTypes,
      Gens, Kinds, GatewayPCs, BrokerPCs, Sides
<1>10. ASSUME NEW c \in Calls, HopNotices(c) PROVE CallTypes'
  BY <1>10 DEF HopNotices, IInv, Types, CallTypes, BrokerTypes,
      ControllerTypes, Gens, Kinds, GatewayPCs, BrokerPCs, Sides
<1>11. ASSUME NEW c \in Calls, Unauthorized(c) PROVE CallTypes'
  BY <1>11, AnswerTypes DEF Unauthorized, IInv, Types
<1>12. ASSUME NEW c \in Calls, Refuse(c) PROVE CallTypes'
  BY <1>12, AnswerTypes DEF Refuse, IInv, Types
<1>13. ASSUME NEW c \in Calls, Enter(c) PROVE CallTypes'
  BY <1>13 DEF Enter, InBroker, IInv, Types, CallTypes, BrokerTypes,
      ControllerTypes, Gens, Kinds, GatewayPCs, BrokerPCs, Side, Sides
<1>14. ASSUME NEW c \in Calls, TakeSlot(c) PROVE CallTypes'
  BY <1>14 DEF TakeSlot, InBroker, IInv, Types, CallTypes, BrokerTypes,
      ControllerTypes, Gens, Kinds, GatewayPCs, BrokerPCs, Side, Sides
<1>15. ASSUME NEW c \in Calls, LeaveQueue(c) PROVE CallTypes'
  BY <1>15, AnswerTypes DEF LeaveQueue, IInv, Types
<1>16. ASSUME NEW c \in Calls, Recheck(c) PROVE CallTypes'
  <2>1. CASE RecheckFails(c)
    BY <2>1, <1>16, AnswerTypes DEF Recheck, IInv, Types
  <2>2. CASE ~RecheckFails(c)
    BY <2>2, <1>16 DEF Recheck, InBroker, IInv, Types, CallTypes, BrokerPCs
  <2> QED BY <2>1, <2>2
<1>17. ASSUME NEW c \in Calls, StartComputer(c) PROVE CallTypes'
  BY <1>17 DEF StartComputer, InBroker, IInv, Types, CallTypes, BrokerTypes,
      ControllerTypes, Gens, Kinds, GatewayPCs, BrokerPCs, Sides
<1>18. ASSUME NEW c \in Calls, Finish(c) PROVE CallTypes'
  BY <1>18, AnswerTypes DEF Finish, IInv, Types
<1>19. ASSUME GatewayRestarts PROVE CallTypes'
  <2> DEFINE Gone == {c \in Calls : br[c] \in {"none", "answered"}}
  <2>1. GatewayLeaves(Gone, Calls \ Gone)
    BY <1>19 DEF GatewayRestarts
  <2>2. gw' \in [Calls -> GatewayPCs] /\ br' \in [Calls -> BrokerPCs]
    BY <2>1 DEF GatewayLeaves, IInv, Types, CallTypes, GatewayPCs, BrokerPCs
  <2>3. kind' \in [Calls -> Kinds]
    BY <2>1 DEF GatewayLeaves, IInv, Types, CallTypes, Kinds
  <2>4. cgen' \in [Calls -> Gens] /\ bgen' \in [Calls -> Gens]
    BY <2>1, GensAreNat DEF GatewayLeaves, IInv, Types, CallTypes
  <2>5. ctxDone' \in [Calls -> BOOLEAN] /\ hopDone' \in [Calls -> BOOLEAN]
    BY <2>1 DEF GatewayLeaves, IInv, Types, CallTypes
  <2> QED BY <2>2, <2>3, <2>4, <2>5 DEF CallTypes
<1>20. ASSUME NEW s \in Sides, BrokerRestarts(s) PROVE CallTypes'
  <2>1. /\ gw' \in [Calls -> GatewayPCs] /\ cgen' \in [Calls -> Gens]
        /\ ctxDone' \in [Calls -> BOOLEAN]
    BY <1>20 DEF BrokerRestarts, IInv, Types, CallTypes
  <2>2. br' \in [Calls -> BrokerPCs]
    BY <1>20 DEF BrokerRestarts, IInv, Types, CallTypes, BrokerPCs
  <2>3. kind' \in [Calls -> Kinds]
    BY <1>20 DEF BrokerRestarts, IInv, Types, CallTypes, Kinds
  <2>4. bgen' \in [Calls -> Gens] /\ hopDone' \in [Calls -> BOOLEAN]
    BY <1>20, GensAreNat DEF BrokerRestarts, IInv, Types, CallTypes
  <2> QED BY <2>1, <2>2, <2>3, <2>4 DEF CallTypes
<1>21. ASSUME NEW o \in Operators,
           PauseFlag(o) \/ PauseCancel(o) \/ PauseTell(o) \/ ResumeFlag(o)
               \/ ResumeTell(o) \/ RootPause(o) \/ RootResume(o) \/ (\E r
               \in {"rootPause", "rootResume"} : RootAsks(o, r))
      PROVE CallTypes'
  <2>1. UNCHANGED <<gw, kind, cgen, ctxDone, br, bgen, hopDone>>
    BY <1>21 DEF PauseFlag, PauseCancel, PauseTell, ResumeFlag, ResumeTell,
        RootPause, RootResume, RootAsks, SessionPause, SetPaused,
        BrokerResume, controller, operators, call, flags, brokers
  <2> QED BY <2>1 DEF IInv, Types, CallTypes
<1> QED BY <1>1, <1>2, <1>3, <1>4, <1>5, <1>6, <1>7, <1>8, <1>9, <1>10,
    <1>11, <1>12, <1>13, <1>14, <1>15, <1>16, <1>17, <1>18, <1>19, <1>20,
    <1>21 DEF StopNext, Control, RootControl, Route, Guard

(* So do the flags of the brokers.                                          *)
LEMMA BrokerTypesStep == IInv /\ [StopNext]_stopVars => BrokerTypes'
<1> SUFFICES ASSUME IInv, [StopNext]_stopVars PROVE BrokerTypes'
  OBVIOUS
<1> USE GensAssumption
<1>1. CASE UNCHANGED stopVars
  BY <1>1 DEF stopVars, controller, operators, call, flags, brokers, IInv, Types,
      BrokerTypes
<1>2. ASSUME NEW o \in Operators, PauseTell(o) PROVE BrokerTypes'
  <2>1. CASE UNCHANGED brokers
    BY <2>1 DEF brokers, flags, IInv, Types, BrokerTypes
  <2>2. CASE SetPaused("session") /\ UNCHANGED rootLocked
    BY <2>2 DEF SetPaused, IInv, Types, BrokerTypes, Sides
  <2> QED BY <2>1, <2>2, <1>2 DEF PauseTell, SessionPause
<1>3. ASSUME NEW o \in Operators, ResumeTell(o) PROVE BrokerTypes'
  <2>1. CASE UNCHANGED brokers
    BY <2>1 DEF brokers, flags, IInv, Types, BrokerTypes
  <2>2. CASE /\ bG["session"] < MaxGens
             /\ bPaused' = [bPaused EXCEPT !["session"] = FALSE]
             /\ bG' = [bG EXCEPT !["session"] = @ + 1]
             /\ UNCHANGED <<bCancelled, bSlots, rootLocked>>
    <3>1. "session" \in Sides
      BY DEF Sides
    <3>2. bG["session"] + 1 \in Gens
      BY <2>2, <3>1, GensAssumption DEF IInv, Types, BrokerTypes, Gens
    <3> QED BY <2>2, <3>2 DEF IInv, Types, BrokerTypes
  <2> QED BY <2>1, <2>2, <1>3 DEF ResumeTell, BrokerResume, ResumeIgnored
<1>4. ASSUME NEW o \in Operators, RootPause(o) PROVE BrokerTypes'
  <2>1. CASE UNCHANGED brokers
    BY <2>1 DEF brokers, flags, IInv, Types, BrokerTypes
  <2>2. CASE SetPaused("root") /\ rootLocked' = TRUE
    BY <2>2 DEF SetPaused, IInv, Types, BrokerTypes, Sides
  <2> QED BY <2>1, <2>2, <1>4 DEF RootPause
<1>5. ASSUME NEW o \in Operators, RootResume(o) PROVE BrokerTypes'
  <2>1. CASE UNCHANGED brokers
    BY <2>1 DEF brokers, flags, IInv, Types, BrokerTypes
  <2>2. CASE /\ bG["root"] < MaxGens
             /\ bPaused' = [bPaused EXCEPT !["root"] = FALSE]
             /\ bG' = [bG EXCEPT !["root"] = @ + 1]
             /\ UNCHANGED <<bCancelled, bSlots, rootLocked>>
    <3>1. "root" \in Sides
      BY DEF Sides
    <3>2. bG["root"] + 1 \in Gens
      BY <2>2, <3>1, GensAssumption DEF IInv, Types, BrokerTypes, Gens
    <3> QED BY <2>2, <3>2 DEF IInv, Types, BrokerTypes
  <2> QED BY <2>1, <2>2, <1>5 DEF RootResume, BrokerResume, ResumeIgnored
<1>6. ASSUME NEW s \in Sides, BrokerRestarts(s) PROVE BrokerTypes'
  BY <1>6 DEF BrokerRestarts, IInv, Types, BrokerTypes, Gens, Sides
<1>7. ASSUME NEW o \in Operators,
           PauseFlag(o) \/ PauseCancel(o) \/ ResumeFlag(o) \/ (\E r \in
               {"rootPause", "rootResume"} : RootAsks(o, r))
      PROVE BrokerTypes'
  <2>1. UNCHANGED <<bPaused, bG, bCancelled, rootLocked>>
    BY <1>7 DEF PauseFlag, PauseCancel, ResumeFlag, RootAsks, controller,
        operators, call, flags, brokers
  <2> QED BY <2>1 DEF IInv, Types, BrokerTypes
<1>8. ASSUME NEW c \in Calls,
           Acquire(c) \/ Send(c) \/ SendFails(c) \/ Respond(c) \/ GiveUp(c)
               \/ StopReaches(c) \/ Expire(c) \/ HopNotices(c) \/
               Unauthorized(c) \/ Refuse(c) \/ Enter(c) \/ TakeSlot(c) \/
               LeaveQueue(c) \/ Recheck(c) \/ StartComputer(c) \/ Finish(c)
               \/ (\E k \in Kinds : Admit(c, k))
      PROVE BrokerTypes'
  <2>1. UNCHANGED <<bPaused, bG, bCancelled, rootLocked>>
    BY <1>8 DEF Acquire, Send, SendFails, Respond, GiveUp, StopReaches, Expire,
        HopNotices, Unauthorized, Refuse, Enter, TakeSlot, LeaveQueue,
        Recheck, StartComputer, Finish, Admit, controller, operators, call,
        flags, brokers
  <2> QED BY <2>1 DEF IInv, Types, BrokerTypes
<1>9. ASSUME GatewayRestarts PROVE BrokerTypes'
  BY <1>9 DEF GatewayRestarts, flags, brokers, IInv, Types, BrokerTypes
<1> QED BY <1>1, <1>2, <1>3, <1>4, <1>5, <1>6, <1>7, <1>8, <1>9 DEF StopNext,
    Control, RootControl, Route, Guard

(* So do the semaphores, which are taken only when not empty.               *)
LEMMA SlotTypesStep == IInv /\ [StopNext]_stopVars => SlotTypes'
<1> SUFFICES ASSUME IInv, [StopNext]_stopVars PROVE SlotTypes'
  OBVIOUS
<1> USE SlotsAssumption
<1>1. CASE UNCHANGED stopVars
  BY <1>1 DEF stopVars, controller, operators, call, flags, brokers, IInv, Types,
      SlotTypes
<1>2. ASSUME NEW c \in Calls, Acquire(c) PROVE SlotTypes'
  BY <1>2 DEF Acquire, Over, InGateway, InBroker, brokers, IInv, Types,
      CallTypes, SlotTypes, Sides, Kinds
<1>3. ASSUME NEW c \in Calls, SendFails(c) PROVE SlotTypes'
  BY <1>3 DEF SendFails, Over, FreeGatewaySlot, InGateway, InBroker, brokers,
      IInv, Types, CallTypes, SlotTypes, Sides, Kinds
<1>4. ASSUME NEW c \in Calls, Respond(c) PROVE SlotTypes'
  BY <1>4 DEF Respond, Over, FreeGatewaySlot, InGateway, InBroker, brokers,
      IInv, Types, CallTypes, SlotTypes, Sides, Kinds
<1>5. ASSUME NEW c \in Calls, GiveUp(c) PROVE SlotTypes'
  BY <1>5 DEF GiveUp, FreeGatewaySlot, InGateway, brokers, IInv, Types,
      CallTypes, SlotTypes, Sides, Kinds
<1>6. ASSUME NEW c \in Calls, TakeSlot(c) PROVE SlotTypes'
  BY <1>6 DEF TakeSlot, InBroker, IInv, Types, CallTypes, SlotTypes, Side,
      Sides, Kinds
<1>7. ASSUME NEW c \in Calls, Recheck(c) PROVE SlotTypes'
  BY <1>7 DEF Recheck, Answer, Over, FreeBrokerSlot, InGateway, InBroker,
      IInv, Types, CallTypes, SlotTypes, Side, Sides, Kinds
<1>8. ASSUME NEW c \in Calls, Finish(c) PROVE SlotTypes'
  BY <1>8 DEF Finish, Answer, Over, FreeBrokerSlot, InGateway, InBroker, IInv,
      Types, CallTypes, SlotTypes, Side, Sides, Kinds
<1>9. ASSUME GatewayRestarts PROVE SlotTypes'
  BY <1>9 DEF GatewayRestarts, GatewayLeaves, brokers, IInv, Types, CallTypes,
      SlotTypes, Sides, Kinds
<1>10. ASSUME NEW s \in Sides, BrokerRestarts(s) PROVE SlotTypes'
  BY <1>10 DEF BrokerRestarts, IInv, Types, CallTypes, SlotTypes, Side, Sides,
      Kinds
<1>11. ASSUME NEW o \in Operators,
           PauseFlag(o) \/ PauseCancel(o) \/ PauseTell(o) \/ ResumeFlag(o)
               \/ ResumeTell(o) \/ RootPause(o) \/ RootResume(o) \/ (\E r
               \in {"rootPause", "rootResume"} : RootAsks(o, r))
      PROVE SlotTypes'
  <2>1. UNCHANGED <<gwSlots, bSlots>>
    BY <1>11 DEF PauseFlag, PauseCancel, PauseTell, ResumeFlag, ResumeTell,
        RootPause, RootResume, RootAsks, SessionPause, SetPaused,
        BrokerResume, controller, operators, call, flags, brokers
  <2> QED BY <2>1 DEF IInv, Types, SlotTypes
<1>12. ASSUME NEW c \in Calls,
           Send(c) \/ StopReaches(c) \/ Expire(c) \/ HopNotices(c) \/
               Unauthorized(c) \/ Refuse(c) \/ Enter(c) \/ LeaveQueue(c) \/
               StartComputer(c) \/ (\E k \in Kinds : Admit(c, k))
      PROVE SlotTypes'
  <2>1. UNCHANGED <<gwSlots, bSlots>>
    BY <1>12 DEF Send, StopReaches, Expire, HopNotices, Unauthorized, Refuse,
        Enter, LeaveQueue, StartComputer, Admit, controller, operators,
        call, flags, brokers
  <2> QED BY <2>1 DEF IInv, Types, SlotTypes
<1> QED BY <1>1, <1>2, <1>3, <1>4, <1>5, <1>6, <1>7, <1>8, <1>9, <1>10,
    <1>11, <1>12 DEF StopNext, Control, RootControl, Route, Guard

(* Requests may overlap in any way: each cancels the generation it read.    *)
LEMMA GenStep == IInv /\ [StopNext]_stopVars => GenInv'
<1> SUFFICES ASSUME IInv, [StopNext]_stopVars PROVE GenInv'
  OBVIOUS
<1> USE GensAssumption
<1>1. CASE UNCHANGED stopVars
  BY <1>1 DEF stopVars, controller, operators, call, flags, brokers, IInv, GenInv
<1>2. ASSUME NEW o \in Operators, PauseFlag(o) PROVE GenInv'
  BY <1>2 DEF PauseFlag, InOp, IInv, Types, ControllerTypes, GenInv, Gens, Ops
<1>3. ASSUME NEW o \in Operators, PauseCancel(o) PROVE GenInv'
  <2>1. gen' = gen /\ paused' = paused /\ cancelled' = cancelled \cup {opGen[o]}
    BY <1>3 DEF PauseCancel, ToCancel
  <2>2. op' = [op EXCEPT ![o] = "tellPause"] /\ opGen' = [opGen EXCEPT ![o] = 0]
    BY <1>3 DEF PauseCancel, InOp
  <2>3. opGen[o] <= gen /\ (opGen[o] = gen => paused) /\ opGen[o] \in Nat /\ gen \in Nat
    BY <1>3, GensAreNat DEF PauseCancel, IInv, GenInv, Types, ControllerTypes
  <2>4. cancelled' \subseteq 0 .. gen' /\ (~paused' => gen' \notin cancelled')
    <3>1. opGen[o] \in 0 .. gen /\ cancelled \subseteq 0 .. gen
      BY <2>3 DEF IInv, GenInv
    <3>2. ~paused => gen # opGen[o] /\ gen \notin cancelled
      BY <2>3 DEF IInv, GenInv
    <3> QED BY <2>1, <3>1, <3>2
  <2>5. \A p \in Operators : op'[p] = "cancel" =>
          p # o /\ op[p] = "cancel" /\ opGen'[p] = opGen[p]
    BY <2>2 DEF IInv, Types, ControllerTypes
  <2>6. \A p \in Operators : op'[p] = "cancel" =>
          opGen'[p] <= gen' /\ (opGen'[p] = gen' => paused')
    BY <2>1, <2>5 DEF IInv, GenInv
  <2>7. ASSUME paused', gen' \notin cancelled'
        PROVE \E p \in Operators : op'[p] = "cancel" /\ opGen'[p] = gen'
    <3>1. PICK p \in Operators : op[p] = "cancel" /\ opGen[p] = gen
      BY <2>1, <2>7 DEF IInv, GenInv
    <3>2. p # o
      BY <3>1, <2>1, <2>7
    <3> QED BY <3>1, <3>2, <2>1, <2>2 DEF IInv, Types, ControllerTypes
  <2> QED BY <2>4, <2>6, <2>7 DEF GenInv
<1>4. ASSUME NEW o \in Operators, PauseTell(o) PROVE GenInv'
  BY <1>4 DEF PauseTell, SessionPause, SetPaused, InOp, controller, IInv,
      Types, ControllerTypes, GenInv, Gens, Ops
<1>5. ASSUME NEW o \in Operators, ResumeFlag(o) PROVE GenInv'
  BY <1>5 DEF ResumeFlag, InOp, IInv, Types, ControllerTypes, GenInv, Gens,
      Ops
<1>6. ASSUME NEW o \in Operators, ResumeTell(o) PROVE GenInv'
  BY <1>6 DEF ResumeTell, BrokerResume, ResumeIgnored, InOp, controller, IInv,
      Types, ControllerTypes, GenInv, Gens, Ops
<1>7. ASSUME NEW o \in Operators, NEW r \in {"rootPause", "rootResume"}, RootAsks(o, r)
      PROVE GenInv'
  BY <1>7 DEF RootAsks, InOp, controller, IInv, Types, ControllerTypes,
      GenInv, Gens, Ops
<1>8. ASSUME NEW o \in Operators, RootPause(o) PROVE GenInv'
  BY <1>8 DEF RootPause, SetPaused, InOp, controller, IInv, Types,
      ControllerTypes, GenInv, Gens, Ops
<1>9. ASSUME NEW o \in Operators, RootResume(o) PROVE GenInv'
  BY <1>9 DEF RootResume, BrokerResume, ResumeIgnored, InOp, controller, IInv,
      Types, ControllerTypes, GenInv, Gens, Ops
<1>10. ASSUME GatewayRestarts PROVE GenInv'
  BY <1>10 DEF GatewayRestarts, GatewayLeaves, IInv, Types, ControllerTypes,
      GenInv, Gens, Ops
<1>11. ASSUME NEW s \in Sides, BrokerRestarts(s) PROVE GenInv'
  BY <1>11 DEF BrokerRestarts, controller, IInv, Types, ControllerTypes,
      GenInv, Gens, Ops
<1>12. ASSUME NEW c \in Calls,
           Acquire(c) \/ Send(c) \/ SendFails(c) \/ Respond(c) \/ GiveUp(c)
               \/ StopReaches(c) \/ Expire(c) \/ HopNotices(c) \/
               Unauthorized(c) \/ Refuse(c) \/ Enter(c) \/ TakeSlot(c) \/
               LeaveQueue(c) \/ Recheck(c) \/ StartComputer(c) \/ Finish(c)
               \/ (\E k \in Kinds : Admit(c, k))
      PROVE GenInv'
  <2>1. UNCHANGED <<paused, gen, cancelled, op, opGen>>
    BY <1>12 DEF Acquire, Send, SendFails, Respond, GiveUp, StopReaches, Expire,
        HopNotices, Unauthorized, Refuse, Enter, TakeSlot, LeaveQueue,
        Recheck, StartComputer, Finish, Admit, controller, operators, call,
        flags, brokers
  <2> QED BY <2>1 DEF IInv, GenInv
<1> QED BY <1>1, <1>2, <1>3, <1>4, <1>5, <1>6, <1>7, <1>8, <1>9, <1>10,
    <1>11, <1>12 DEF StopNext, Control, RootControl, Route, Guard

(* Flag and generation of a broker change together, under its lock.         *)
LEMMA FlagStep == IInv /\ [StopNext]_stopVars => FlagInv'
<1> SUFFICES ASSUME IInv, [StopNext]_stopVars PROVE FlagInv'
  OBVIOUS
<1> USE GensAssumption
<1>1. CASE UNCHANGED stopVars
  BY <1>1 DEF stopVars, controller, operators, call, flags, brokers, IInv, FlagInv
<1>2. ASSUME NEW o \in Operators, PauseTell(o) PROVE FlagInv'
  BY <1>2 DEF PauseTell, SessionPause, SetPaused, InOp, flags, brokers, IInv,
      Types, BrokerTypes, FlagInv, Gens, Sides
<1>3. ASSUME NEW o \in Operators, ResumeTell(o) PROVE FlagInv'
  BY <1>3 DEF ResumeTell, BrokerResume, ResumeIgnored, InOp, flags, brokers,
      IInv, Types, BrokerTypes, FlagInv, Gens, Sides
<1>4. ASSUME NEW o \in Operators, RootPause(o) PROVE FlagInv'
  BY <1>4 DEF RootPause, SetPaused, InOp, flags, brokers, IInv, Types,
      BrokerTypes, FlagInv, Gens, Sides
<1>5. ASSUME NEW o \in Operators, RootResume(o) PROVE FlagInv'
  BY <1>5 DEF RootResume, BrokerResume, ResumeIgnored, InOp, flags, brokers,
      IInv, Types, BrokerTypes, FlagInv, Gens, Sides
<1>6. ASSUME NEW s \in Sides, BrokerRestarts(s) PROVE FlagInv'
  BY <1>6 DEF BrokerRestarts, IInv, Types, BrokerTypes, FlagInv, Gens, Sides
<1>7. ASSUME NEW o \in Operators,
           PauseFlag(o) \/ PauseCancel(o) \/ ResumeFlag(o) \/ (\E r \in
               {"rootPause", "rootResume"} : RootAsks(o, r))
      PROVE FlagInv'
  <2>1. UNCHANGED <<bPaused, bG, bCancelled>>
    BY <1>7 DEF PauseFlag, PauseCancel, ResumeFlag, RootAsks, controller,
        operators, call, flags, brokers
  <2> QED BY <2>1 DEF IInv, FlagInv
<1>8. ASSUME NEW c \in Calls,
           Acquire(c) \/ Send(c) \/ SendFails(c) \/ Respond(c) \/ GiveUp(c)
               \/ StopReaches(c) \/ Expire(c) \/ HopNotices(c) \/
               Unauthorized(c) \/ Refuse(c) \/ Enter(c) \/ TakeSlot(c) \/
               LeaveQueue(c) \/ Recheck(c) \/ StartComputer(c) \/ Finish(c)
               \/ (\E k \in Kinds : Admit(c, k))
      PROVE FlagInv'
  <2>1. UNCHANGED <<bPaused, bG, bCancelled>>
    BY <1>8 DEF Acquire, Send, SendFails, Respond, GiveUp, StopReaches, Expire,
        HopNotices, Unauthorized, Refuse, Enter, TakeSlot, LeaveQueue,
        Recheck, StartComputer, Finish, Admit, controller, operators, call,
        flags, brokers
  <2> QED BY <2>1 DEF IInv, FlagInv
<1>9. ASSUME GatewayRestarts PROVE FlagInv'
  BY <1>9 DEF GatewayRestarts, flags, brokers, IInv, FlagInv
<1> QED BY <1>1, <1>2, <1>3, <1>4, <1>5, <1>6, <1>7, <1>8, <1>9 DEF StopNext,
    Control, RootControl, Route, Guard

(* A resume leaves behind only calls whose generation it found cancelled.   *)
LEMMA CallStep == IInv /\ [StopNext]_stopVars => CallInv'
<1> SUFFICES ASSUME IInv, [StopNext]_stopVars PROVE CallInv'
  OBVIOUS
<1>1. CASE UNCHANGED stopVars
  BY <1>1 DEF stopVars, controller, operators, call, flags, brokers, IInv, CallInv,
      Side, BrokerCancelled
<1>2. ASSUME NEW o \in Operators, PauseTell(o) PROVE CallInv'
  BY <1>2 DEF PauseTell, SessionPause, SetPaused, InOp, call, flags, brokers,
      IInv, Types, CallTypes, BrokerTypes, FlagInv, CallInv, Entered, Side,
      Sides, BrokerCancelled, Kinds
<1>3. ASSUME NEW o \in Operators, ResumeTell(o) PROVE CallInv'
  BY <1>3 DEF ResumeTell, BrokerResume, ResumeIgnored, InOp, call, flags,
      brokers, IInv, Types, CallTypes, BrokerTypes, FlagInv, CallInv, Entered,
      Side, Sides, BrokerCancelled, Kinds
<1>4. ASSUME NEW o \in Operators, RootPause(o) PROVE CallInv'
  BY <1>4 DEF RootPause, SetPaused, InOp, call, flags, brokers, IInv, Types,
      CallTypes, BrokerTypes, FlagInv, CallInv, Entered, Side, Sides,
      BrokerCancelled, Kinds
<1>5. ASSUME NEW o \in Operators, RootResume(o) PROVE CallInv'
  BY <1>5 DEF RootResume, BrokerResume, ResumeIgnored, InOp, call, flags,
      brokers, IInv, Types, CallTypes, BrokerTypes, FlagInv, CallInv, Entered,
      Side, Sides, BrokerCancelled, Kinds
<1>6. ASSUME NEW c \in Calls, NEW k \in Kinds, Admit(c, k) PROVE CallInv'
  BY <1>6 DEF Admit, InGateway, flags, brokers, IInv, Types, CallTypes,
      BrokerTypes, FlagInv, CallInv, Entered, Side, Sides, BrokerCancelled,
      Kinds
<1>7. ASSUME NEW c \in Calls, Acquire(c) PROVE CallInv'
  BY <1>7 DEF Acquire, Over, InGateway, InBroker, flags, brokers, IInv, Types,
      CallTypes, BrokerTypes, FlagInv, CallInv, Entered, Side, Sides,
      BrokerCancelled, Kinds
<1>8. ASSUME NEW c \in Calls, Send(c) PROVE CallInv'
  BY <1>8 DEF Send, InGateway, InBroker, flags, brokers, IInv, Types,
      CallTypes, BrokerTypes, FlagInv, CallInv, Entered, Side, Sides,
      BrokerCancelled, Kinds
<1>9. ASSUME NEW c \in Calls, SendFails(c) PROVE CallInv'
  BY <1>9 DEF SendFails, Over, FreeGatewaySlot, InGateway, InBroker, flags,
      brokers, IInv, Types, CallTypes, BrokerTypes, FlagInv, CallInv, Entered,
      Side, Sides, BrokerCancelled, Kinds
<1>10. ASSUME NEW c \in Calls, Respond(c) PROVE CallInv'
  BY <1>10 DEF Respond, Over, FreeGatewaySlot, InGateway, InBroker, flags,
      brokers, IInv, Types, CallTypes, BrokerTypes, FlagInv, CallInv, Entered,
      Side, Sides, BrokerCancelled, Kinds
<1>11. ASSUME NEW c \in Calls, GiveUp(c) PROVE CallInv'
  BY <1>11 DEF GiveUp, FreeGatewaySlot, InGateway, flags, brokers, IInv,
      Types, CallTypes, BrokerTypes, FlagInv, CallInv, Entered, Side, Sides,
      BrokerCancelled, Kinds
<1>12. ASSUME NEW c \in Calls, StopReaches(c) PROVE CallInv'
  BY <1>12 DEF StopReaches, flags, brokers, IInv, Types, CallTypes,
      BrokerTypes, FlagInv, CallInv, Entered, Side, Sides, BrokerCancelled,
      Kinds
<1>13. ASSUME NEW c \in Calls, Expire(c) PROVE CallInv'
  BY <1>13 DEF Expire, flags, brokers, IInv, Types, CallTypes, BrokerTypes,
      FlagInv, CallInv, Entered, Side, Sides, BrokerCancelled, Kinds
<1>14. ASSUME NEW c \in Calls, HopNotices(c) PROVE CallInv'
  BY <1>14 DEF HopNotices, flags, brokers, IInv, Types, CallTypes,
      BrokerTypes, FlagInv, CallInv, Entered, Side, Sides, BrokerCancelled,
      Kinds
<1>15. ASSUME NEW c \in Calls, Unauthorized(c) PROVE CallInv'
  BY <1>15 DEF Unauthorized, Answer, Over, InGateway, InBroker, flags,
      brokers, IInv, Types, CallTypes, BrokerTypes, FlagInv, CallInv, Entered,
      Side, Sides, BrokerCancelled, Kinds
<1>16. ASSUME NEW c \in Calls, Refuse(c) PROVE CallInv'
  BY <1>16 DEF Refuse, Answer, Over, InGateway, InBroker, flags, brokers,
      IInv, Types, CallTypes, BrokerTypes, FlagInv, CallInv, Entered, Side,
      Sides, BrokerCancelled, Kinds
<1>17. ASSUME NEW c \in Calls, Enter(c) PROVE CallInv'
  BY <1>17 DEF Enter, InBroker, flags, brokers, IInv, Types, CallTypes,
      BrokerTypes, FlagInv, CallInv, Entered, Side, Sides, BrokerCancelled,
      Kinds
<1>18. ASSUME NEW c \in Calls, TakeSlot(c) PROVE CallInv'
  BY <1>18 DEF TakeSlot, InBroker, flags, IInv, Types, CallTypes, BrokerTypes,
      FlagInv, CallInv, Entered, Side, Sides, BrokerCancelled, Kinds
<1>19. ASSUME NEW c \in Calls, LeaveQueue(c) PROVE CallInv'
  BY <1>19 DEF LeaveQueue, Answer, Over, InGateway, InBroker, flags, brokers,
      IInv, Types, CallTypes, BrokerTypes, FlagInv, CallInv, Entered, Side,
      Sides, BrokerCancelled, Kinds
<1>20. ASSUME NEW c \in Calls, Recheck(c) PROVE CallInv'
  BY <1>20 DEF Recheck, Answer, Over, FreeBrokerSlot, InGateway, InBroker,
      flags, IInv, Types, CallTypes, BrokerTypes, FlagInv, CallInv, Entered,
      Side, Sides, BrokerCancelled, Kinds
<1>21. ASSUME NEW c \in Calls, StartComputer(c) PROVE CallInv'
  BY <1>21 DEF StartComputer, InBroker, flags, brokers, IInv, Types,
      CallTypes, BrokerTypes, FlagInv, CallInv, Entered, Side, Sides,
      BrokerCancelled, Kinds
<1>22. ASSUME NEW c \in Calls, Finish(c) PROVE CallInv'
  BY <1>22 DEF Finish, Answer, Over, FreeBrokerSlot, InGateway, InBroker,
      flags, IInv, Types, CallTypes, BrokerTypes, FlagInv, CallInv, Entered,
      Side, Sides, BrokerCancelled, Kinds
<1>23. ASSUME GatewayRestarts PROVE CallInv'
  BY <1>23 DEF GatewayRestarts, GatewayLeaves, flags, brokers, IInv, Types,
      CallTypes, BrokerTypes, FlagInv, CallInv, Entered, Side, Sides,
      BrokerCancelled, Kinds
<1>24. ASSUME NEW s \in Sides, BrokerRestarts(s) PROVE CallInv'
  BY <1>24 DEF BrokerRestarts, IInv, Types, CallTypes, BrokerTypes, FlagInv,
      CallInv, Entered, Side, Sides, BrokerCancelled, Kinds
<1>25. ASSUME NEW o \in Operators,
           PauseFlag(o) \/ PauseCancel(o) \/ ResumeFlag(o) \/ (\E r \in
               {"rootPause", "rootResume"} : RootAsks(o, r))
      PROVE CallInv'
  <2>1. UNCHANGED <<kind, br, bgen, bG, bCancelled>>
    BY <1>25 DEF PauseFlag, PauseCancel, ResumeFlag, RootAsks, controller,
        operators, call, flags, brokers
  <2> QED BY <2>1 DEF IInv, CallInv, Side, BrokerCancelled
<1> QED BY <1>1, <1>2, <1>3, <1>4, <1>5, <1>6, <1>7, <1>8, <1>9, <1>10,
    <1>11, <1>12, <1>13, <1>14, <1>15, <1>16, <1>17, <1>18, <1>19, <1>20,
    <1>21, <1>22, <1>23, <1>24, <1>25 DEF StopNext, Control, RootControl, Route,
    Guard

(* The two sides of a call stay in step.                                    *)
LEMMA HopStep == IInv /\ [StopNext]_stopVars => HopInv'
<1> SUFFICES ASSUME IInv, [StopNext]_stopVars PROVE HopInv'
  OBVIOUS
<1>1. CASE UNCHANGED stopVars
  BY <1>1 DEF stopVars, controller, operators, call, flags, brokers, IInv, HopInv
<1>2. ASSUME NEW c \in Calls, NEW k \in Kinds, Admit(c, k) PROVE HopInv'
  BY <1>2 DEF Admit, InGateway, IInv, Types, CallTypes, HopInv, Kinds,
      GatewayPCs, BrokerPCs
<1>3. ASSUME NEW c \in Calls, Acquire(c) PROVE HopInv'
  BY <1>3 DEF Acquire, Over, InGateway, InBroker, IInv, Types, CallTypes,
      HopInv, Kinds, GatewayPCs, BrokerPCs
<1>4. ASSUME NEW c \in Calls, Send(c) PROVE HopInv'
  BY <1>4 DEF Send, InGateway, InBroker, IInv, Types, CallTypes, HopInv,
      Kinds, GatewayPCs, BrokerPCs
<1>5. ASSUME NEW c \in Calls, SendFails(c) PROVE HopInv'
  BY <1>5 DEF SendFails, Over, FreeGatewaySlot, InGateway, InBroker, IInv,
      Types, CallTypes, HopInv, Kinds, GatewayPCs, BrokerPCs
<1>6. ASSUME NEW c \in Calls, Respond(c) PROVE HopInv'
  BY <1>6 DEF Respond, Over, FreeGatewaySlot, InGateway, InBroker, IInv,
      Types, CallTypes, HopInv, Kinds, GatewayPCs, BrokerPCs
<1>7. ASSUME NEW c \in Calls, GiveUp(c) PROVE HopInv'
  BY <1>7 DEF GiveUp, FreeGatewaySlot, InGateway, IInv, Types, CallTypes,
      HopInv, Kinds, GatewayPCs, BrokerPCs
<1>8. ASSUME NEW c \in Calls, StopReaches(c) PROVE HopInv'
  BY <1>8 DEF StopReaches, IInv, Types, CallTypes, HopInv, Kinds, GatewayPCs,
      BrokerPCs
<1>9. ASSUME NEW c \in Calls, Expire(c) PROVE HopInv'
  BY <1>9 DEF Expire, IInv, Types, CallTypes, HopInv, Kinds, GatewayPCs,
      BrokerPCs
<1>10. ASSUME NEW c \in Calls, HopNotices(c) PROVE HopInv'
  BY <1>10 DEF HopNotices, IInv, Types, CallTypes, HopInv, Kinds, GatewayPCs,
      BrokerPCs
<1>11. ASSUME NEW c \in Calls, Unauthorized(c) PROVE HopInv'
  BY <1>11 DEF Unauthorized, Answer, Over, InGateway, InBroker, IInv, Types,
      CallTypes, HopInv, Kinds, GatewayPCs, BrokerPCs, Side
<1>12. ASSUME NEW c \in Calls, Refuse(c) PROVE HopInv'
  BY <1>12 DEF Refuse, Answer, Over, InGateway, InBroker, IInv, Types,
      CallTypes, HopInv, Kinds, GatewayPCs, BrokerPCs, Side
<1>13. ASSUME NEW c \in Calls, Enter(c) PROVE HopInv'
  BY <1>13 DEF Enter, InBroker, IInv, Types, CallTypes, HopInv, Kinds,
      GatewayPCs, BrokerPCs, Side
<1>14. ASSUME NEW c \in Calls, TakeSlot(c) PROVE HopInv'
  BY <1>14 DEF TakeSlot, InBroker, IInv, Types, CallTypes, HopInv, Kinds,
      GatewayPCs, BrokerPCs, Side
<1>15. ASSUME NEW c \in Calls, LeaveQueue(c) PROVE HopInv'
  BY <1>15 DEF LeaveQueue, Answer, Over, InGateway, InBroker, IInv, Types,
      CallTypes, HopInv, Kinds, GatewayPCs, BrokerPCs
<1>16. ASSUME NEW c \in Calls, Recheck(c) PROVE HopInv'
  BY <1>16 DEF Recheck, Answer, Over, FreeBrokerSlot, InGateway, InBroker,
      IInv, Types, CallTypes, HopInv, Kinds, GatewayPCs, BrokerPCs, Side
<1>17. ASSUME NEW c \in Calls, StartComputer(c) PROVE HopInv'
  BY <1>17 DEF StartComputer, InBroker, IInv, Types, CallTypes, HopInv, Kinds,
      GatewayPCs, BrokerPCs
<1>18. ASSUME NEW c \in Calls, Finish(c) PROVE HopInv'
  BY <1>18 DEF Finish, Answer, Over, FreeBrokerSlot, InGateway, InBroker,
      IInv, Types, CallTypes, HopInv, Kinds, GatewayPCs, BrokerPCs, Side
<1>19. ASSUME GatewayRestarts PROVE HopInv'
  BY <1>19 DEF GatewayRestarts, GatewayLeaves, IInv, Types, CallTypes, HopInv,
      Kinds, GatewayPCs, BrokerPCs
<1>20. ASSUME NEW s \in Sides, BrokerRestarts(s) PROVE HopInv'
  BY <1>20 DEF BrokerRestarts, IInv, Types, CallTypes, HopInv, Kinds,
      GatewayPCs, BrokerPCs, Side
<1>21. ASSUME NEW o \in Operators,
           PauseFlag(o) \/ PauseCancel(o) \/ PauseTell(o) \/ ResumeFlag(o)
               \/ ResumeTell(o) \/ RootPause(o) \/ RootResume(o) \/ (\E r
               \in {"rootPause", "rootResume"} : RootAsks(o, r))
      PROVE HopInv'
  <2>1. UNCHANGED <<gw, kind, br>>
    BY <1>21 DEF PauseFlag, PauseCancel, PauseTell, ResumeFlag, ResumeTell,
        RootPause, RootResume, RootAsks, SessionPause, SetPaused,
        BrokerResume, controller, operators, call, flags, brokers
  <2> QED BY <2>1 DEF IInv, HopInv
<1> QED BY <1>1, <1>2, <1>3, <1>4, <1>5, <1>6, <1>7, <1>8, <1>9, <1>10,
    <1>11, <1>12, <1>13, <1>14, <1>15, <1>16, <1>17, <1>18, <1>19, <1>20,
    <1>21 DEF StopNext, Control, RootControl, Route, Guard

-----------------------------------------------------------------------------
(* The semaphores: what each step does to the sets of slot holders.         *)

(* Counting one holder more, or one less.                                   *)
LEMMA OneMore ==
  ASSUME NEW S, NEW x, x \notin S, IsFiniteSet(S)
  PROVE  Cardinality(S \cup {x}) = Cardinality(S) + 1
  BY FS_AddElement

LEMMA OneLess ==
  ASSUME NEW S, NEW x \in S, IsFiniteSet(S)
  PROVE  Cardinality(S \ {x}) = Cardinality(S) - 1
  BY FS_RemoveElement

(* Finitely many calls hold slots.                                          *)
LEMMA HoldersFinite ==
  /\ IsFiniteSet(InCall) /\ Cardinality(InCall) \in Nat
  /\ \A s \in Sides : IsFiniteSet(Holders(s)) /\ Cardinality(Holders(s)) \in Nat
<1>1. InCall \in SUBSET Calls /\ \A s \in Sides : Holders(s) \in SUBSET Calls
  BY DEF InCall, Holders
<1>2. IsFiniteSet(InCall) /\ \A s \in Sides : IsFiniteSet(Holders(s))
  BY <1>1, CallsAssumption, FS_Subset
<1> QED BY <1>2, FS_CardinalityType

(* A call that is over holds nothing, and the others hold what they held.   *)
LEMMA OverHolds ==
  ASSUME CallTypes, NEW c \in Calls, Over(c)
  PROVE  /\ InCall' = InCall \ {c}
         /\ \A s \in Sides : Holders(s)' = Holders(s) \ {c}
<1>1. gw' = [gw EXCEPT ![c] = "idle"] /\ br' = [br EXCEPT ![c] = "none"]
  BY DEF Over, InGateway, InBroker
<1>2. \A d \in Calls : d # c => kind'[d] = kind[d]
  BY DEF Over, CallTypes
<1>3. InCall' = InCall \ {c}
  BY <1>1 DEF CallTypes, InCall
<1>4. \A s \in Sides : Holders(s)' = Holders(s) \ {c}
  BY <1>1, <1>2 DEF CallTypes, Holders, Side
<1> QED BY <1>3, <1>4

(* A broker's answer frees no slot of the gateway: a gateway that no longer *)
(* waits has given its slot back before.                                    *)
LEMMA AnswerHolds ==
  ASSUME CallTypes, HopInv, NEW c \in Calls, br[c] # "none", Answer(c)
  PROVE  /\ InCall' = InCall
         /\ \A s \in Sides : Holders(s)' = Holders(s) \ {c}
<1>1. CASE gw[c] = "sent"
  <2>1. gw' = gw /\ kind' = kind /\ br' = [br EXCEPT ![c] = "answered"]
    BY <1>1 DEF Answer, InBroker
  <2> QED BY <2>1 DEF CallTypes, InCall, Holders, Side
<1>2. CASE gw[c] # "sent"
  <2>1. c \notin InCall
    BY <1>2 DEF HopInv, InCall
  <2> QED BY <1>2, <2>1, OverHolds DEF Answer
<1> QED BY <1>1, <1>2

(* No path through the gateway keeps a slot or frees it twice.              *)
LEMMA GatewayStep == IInv /\ [StopNext]_stopVars => GatewayBalance'
<1> SUFFICES ASSUME IInv, [StopNext]_stopVars PROVE GatewayBalance'
  OBVIOUS
<1> DEFINE Kept == InCall' = InCall /\ gwSlots' = gwSlots
           Freed(c) == c \in InCall /\ InCall' = InCall \ {c} /\ gwSlots' = gwSlots + 1
<1>0. gwSlots \in Nat /\ Cardinality(InCall) \in Nat /\ IsFiniteSet(InCall)
      /\ gwSlots + Cardinality(InCall) = GatewaySlots
  BY HoldersFinite DEF IInv, Types, SlotTypes, GatewayBalance
<1>a. Kept => GatewayBalance'
  BY DEF IInv, GatewayBalance
<1>b. ASSUME NEW c \in Calls, Freed(c) PROVE GatewayBalance'
  BY <1>0, <1>b, OneLess DEF GatewayBalance
<1>1. CASE UNCHANGED stopVars
  BY <1>1, <1>a DEF stopVars, call, InCall
<1>2. ASSUME NEW o \in Operators, Control(o) \/ RootControl(o) PROVE GatewayBalance'
  <2>1. UNCHANGED <<gw, gwSlots>>
    BY <1>2 DEF Control, RootControl, PauseFlag, PauseCancel, PauseTell, ResumeFlag,
        ResumeTell, RootAsks, RootPause, RootResume, call
  <2> QED BY <2>1, <1>a DEF InCall
<1>3. ASSUME NEW c \in Calls, NEW k \in Kinds, Admit(c, k) PROVE GatewayBalance'
  <2>1. Kept
    BY <1>3 DEF Admit, InGateway, IInv, Types, CallTypes, InCall
  <2> QED BY <2>1, <1>a
<1>4. ASSUME NEW c \in Calls, Acquire(c) PROVE GatewayBalance'
  <2>1. c \notin InCall
    BY <1>4 DEF Acquire, InCall
  <2>2. CASE gwSlots > 0
    <3>1. InCall' = InCall \cup {c} /\ gwSlots' = gwSlots - 1
      BY <1>4, <2>2 DEF Acquire, InGateway, IInv, Types, CallTypes, InCall
    <3> QED BY <1>0, <2>1, <3>1, OneMore DEF GatewayBalance
  <2>3. CASE ~(gwSlots > 0)
    <3>1. Over(c) /\ gwSlots' = gwSlots
      BY <1>4, <2>3 DEF Acquire
    <3> QED BY <2>1, <3>1, <1>a, OverHolds DEF IInv, Types
  <2> QED BY <2>2, <2>3
<1>5. ASSUME NEW c \in Calls, Send(c) PROVE GatewayBalance'
  <2>1. Kept
    BY <1>5 DEF Send, InGateway, IInv, Types, CallTypes, InCall
  <2> QED BY <2>1, <1>a
<1>6. ASSUME NEW c \in Calls, SendFails(c) \/ Respond(c) PROVE GatewayBalance'
  <2>1. c \in InCall /\ Over(c) /\ gwSlots' = gwSlots + 1
    BY <1>6 DEF SendFails, Respond, FreeGatewaySlot, InCall
  <2> QED BY <2>1, <1>b, OverHolds DEF IInv, Types
<1>7. ASSUME NEW c \in Calls, GiveUp(c) PROVE GatewayBalance'
  <2>1. Freed(c)
    BY <1>7 DEF GiveUp, FreeGatewaySlot, InGateway, IInv, Types, CallTypes, InCall
  <2> QED BY <2>1, <1>b
<1>8. ASSUME NEW c \in Calls,
             StopReaches(c) \/ Expire(c) \/ HopNotices(c) \/ Enter(c) \/ TakeSlot(c)
             \/ StartComputer(c)
      PROVE GatewayBalance'
  <2>1. UNCHANGED <<gw, gwSlots>>
    BY <1>8 DEF StopReaches, Expire, HopNotices, Enter, TakeSlot, StartComputer
  <2> QED BY <2>1, <1>a DEF InCall
<1>9. ASSUME NEW c \in Calls, Unauthorized(c) \/ Refuse(c) \/ LeaveQueue(c) \/ Finish(c)
      PROVE GatewayBalance'
  <2>1. br[c] # "none" /\ Answer(c) /\ gwSlots' = gwSlots
    BY <1>9 DEF Unauthorized, Refuse, LeaveQueue, Finish
  <2> QED BY <2>1, <1>a, AnswerHolds DEF IInv, Types
<1>10. ASSUME NEW c \in Calls, Recheck(c) PROVE GatewayBalance'
  <2>1. CASE RecheckFails(c)
    <3>1. br[c] # "none" /\ Answer(c) /\ gwSlots' = gwSlots
      BY <1>10, <2>1 DEF Recheck
    <3> QED BY <3>1, <1>a, AnswerHolds DEF IInv, Types
  <2>2. CASE ~RecheckFails(c)
    BY <1>10, <2>2, <1>a DEF Recheck, InCall
  <2> QED BY <2>1, <2>2
<1>11. ASSUME GatewayRestarts PROVE GatewayBalance'
  <2>1. gwSlots' = GatewaySlots /\ \A d \in Calls : gw'[d] = "idle"
    BY <1>11 DEF GatewayRestarts, GatewayLeaves
  <2>2. InCall' = {}
    BY <2>1 DEF InCall
  <2> QED BY <2>1, <2>2, FS_EmptySet, SlotsAssumption DEF GatewayBalance
<1>12. ASSUME NEW s \in Sides, BrokerRestarts(s) PROVE GatewayBalance'
  BY <1>12, <1>a DEF BrokerRestarts, InCall
<1> QED BY <1>1, <1>2, <1>3, <1>4, <1>5, <1>6, <1>7, <1>8, <1>9, <1>10, <1>11, <1>12
        DEF StopNext, Route, Guard

(* No path through a broker does either.                                    *)
LEMMA BrokerStep == IInv /\ [StopNext]_stopVars => BrokerBalance'
<1> SUFFICES ASSUME IInv, [StopNext]_stopVars PROVE BrokerBalance'
  OBVIOUS
<1> DEFINE Same == (\A s \in Sides : Holders(s)' = Holders(s)) /\ bSlots' = bSlots
<1>0. \A s \in Sides : /\ bSlots[s] \in Nat /\ Cardinality(Holders(s)) \in Nat
                       /\ IsFiniteSet(Holders(s))
                       /\ bSlots[s] + Cardinality(Holders(s)) = BrokerSlots
  BY HoldersFinite DEF IInv, Types, SlotTypes, BrokerBalance
<1>a. Same => BrokerBalance'
  BY DEF IInv, BrokerBalance
<1>b. ASSUME NEW c \in Calls, c \in Holders(Side(c)), Side(c) \in Sides,
             \A s \in Sides : Holders(s)' = Holders(s) \ {c},
             bSlots' = [bSlots EXCEPT ![Side(c)] = @ + 1]
      PROVE BrokerBalance'
  <2> SUFFICES ASSUME NEW s \in Sides
               PROVE  bSlots'[s] + Cardinality(Holders(s)') = BrokerSlots
    BY DEF BrokerBalance
  <2>1. CASE s = Side(c)
    <3>1. bSlots'[s] = bSlots[s] + 1
      BY <1>b, <2>1 DEF IInv, Types, SlotTypes
    <3>2. Cardinality(Holders(s)') = Cardinality(Holders(s)) - 1
      BY <1>0, <1>b, <2>1, OneLess
    <3> QED BY <1>0, <3>1, <3>2
  <2>2. CASE s # Side(c)
    <3>1. Holders(s)' = Holders(s) /\ bSlots'[s] = bSlots[s]
      BY <1>b, <2>2 DEF IInv, Types, SlotTypes, Holders
    <3> QED BY <1>0, <3>1
  <2> QED BY <2>1, <2>2
<1>c. ASSUME NEW c \in Calls, Over(c), br[c] \notin {"holding", "running"}, bSlots' = bSlots
      PROVE BrokerBalance'
  <2>1. \A s \in Sides : c \notin Holders(s)
    BY <1>c DEF Holders
  <2> QED BY <2>1, <1>a, <1>c, OverHolds DEF IInv, Types
<1>d. ASSUME NEW c \in Calls, Answer(c), br[c] \in {"arrived", "queued"}, bSlots' = bSlots
      PROVE BrokerBalance'
  <2>1. \A s \in Sides : c \notin Holders(s)
    BY <1>d DEF Holders
  <2> QED BY <2>1, <1>a, <1>d, AnswerHolds DEF IInv, Types
<1>1. CASE UNCHANGED stopVars
  BY <1>1, <1>a DEF stopVars, call, brokers, Holders, Side
<1>2. ASSUME NEW o \in Operators, Control(o) \/ RootControl(o) PROVE BrokerBalance'
  <2>1. UNCHANGED <<br, kind, bSlots>>
    BY <1>2 DEF Control, RootControl, PauseFlag, PauseCancel, PauseTell, ResumeFlag,
        ResumeTell, RootAsks, RootPause, RootResume, call, brokers, SessionPause,
        SetPaused, BrokerResume
  <2> QED BY <2>1, <1>a DEF Holders, Side
<1>3. ASSUME NEW c \in Calls, NEW k \in Kinds, Admit(c, k) PROVE BrokerBalance'
  <2>1. Same
    BY <1>3 DEF Admit, brokers, IInv, Types, CallTypes, Holders, Side
  <2> QED BY <2>1, <1>a
<1>4. ASSUME NEW c \in Calls, Acquire(c) PROVE BrokerBalance'
  <2>1. br[c] = "none" /\ bSlots' = bSlots
    BY <1>4 DEF Acquire, brokers, IInv, HopInv
  <2>2. CASE gwSlots > 0
    BY <1>4, <2>1, <2>2, <1>a DEF Acquire, Holders, Side
  <2>3. CASE ~(gwSlots > 0)
    BY <1>4, <2>1, <2>3, <1>c DEF Acquire
  <2> QED BY <2>2, <2>3
<1>5. ASSUME NEW c \in Calls, Send(c) PROVE BrokerBalance'
  <2>1. br[c] = "none" /\ br' = [br EXCEPT ![c] = "arrived"] /\ UNCHANGED <<kind, bSlots>>
    BY <1>5 DEF Send, InBroker, brokers, IInv, HopInv
  <2>2. Same
    BY <2>1 DEF IInv, Types, CallTypes, Holders, Side
  <2> QED BY <2>2, <1>a
<1>6. ASSUME NEW c \in Calls, SendFails(c) \/ Respond(c) PROVE BrokerBalance'
  <2>1. Over(c) /\ br[c] \notin {"holding", "running"} /\ bSlots' = bSlots
    BY <1>6 DEF SendFails, Respond, brokers, IInv, HopInv
  <2> QED BY <2>1, <1>c
<1>7. ASSUME NEW c \in Calls, GiveUp(c) \/ StopReaches(c) \/ Expire(c) \/ HopNotices(c)
      PROVE BrokerBalance'
  <2>1. UNCHANGED <<br, kind, bSlots>>
    BY <1>7 DEF GiveUp, StopReaches, Expire, HopNotices, brokers
  <2> QED BY <2>1, <1>a DEF Holders, Side
<1>8. ASSUME NEW c \in Calls, Unauthorized(c) \/ Refuse(c) \/ LeaveQueue(c)
      PROVE BrokerBalance'
  <2>1. br[c] \in {"arrived", "queued"} /\ Answer(c) /\ bSlots' = bSlots
    BY <1>8 DEF Unauthorized, Refuse, LeaveQueue, brokers
  <2> QED BY <2>1, <1>d
<1>9. ASSUME NEW c \in Calls, Enter(c) PROVE BrokerBalance'
  <2>1. Same
    BY <1>9 DEF Enter, InBroker, brokers, IInv, Types, CallTypes, Holders, Side
  <2> QED BY <2>1, <1>a
<1>10. ASSUME NEW c \in Calls, TakeSlot(c) PROVE BrokerBalance'
  <2>1. /\ kind[c] # "computer" /\ bSlots[Side(c)] > 0 /\ Side(c) \in Sides
        /\ \A s \in Sides : c \notin Holders(s)
    BY <1>10 DEF TakeSlot, IInv, HopInv, Side, Sides, Holders
  <2>2. /\ br' = [br EXCEPT ![c] = "holding"] /\ kind' = kind
        /\ bSlots' = [bSlots EXCEPT ![Side(c)] = @ - 1]
    BY <1>10 DEF TakeSlot, InBroker
  <2> SUFFICES ASSUME NEW s \in Sides
               PROVE  bSlots'[s] + Cardinality(Holders(s)') = BrokerSlots
    BY DEF BrokerBalance
  <2>3. CASE s = Side(c)
    <3>1. bSlots'[s] = bSlots[s] - 1
      BY <2>2, <2>3 DEF IInv, Types, SlotTypes
    <3>2. Holders(s)' = Holders(s) \cup {c}
      BY <2>1, <2>2, <2>3 DEF IInv, Types, CallTypes, Holders, Side
    <3>3. Cardinality(Holders(s)') = Cardinality(Holders(s)) + 1
      BY <1>0, <2>1, <3>2, OneMore
    <3> QED BY <1>0, <3>1, <3>3
  <2>4. CASE s # Side(c)
    <3>1. bSlots'[s] = bSlots[s]
      BY <2>2, <2>4 DEF IInv, Types, SlotTypes
    <3>2. Holders(s)' = Holders(s)
      BY <2>1, <2>2, <2>4 DEF IInv, Types, CallTypes, Holders, Side
    <3> QED BY <1>0, <3>1, <3>2
  <2> QED BY <2>3, <2>4
<1>11. ASSUME NEW c \in Calls, Recheck(c) PROVE BrokerBalance'
  <2>1. br[c] = "holding" /\ c \in Holders(Side(c)) /\ Side(c) \in Sides
    BY <1>11 DEF Recheck, IInv, HopInv, Holders, Side, Sides
  <2>2. CASE RecheckFails(c)
    <3>1. Answer(c) /\ bSlots' = [bSlots EXCEPT ![Side(c)] = @ + 1]
      BY <1>11, <2>2 DEF Recheck, FreeBrokerSlot
    <3> QED BY <2>1, <3>1, <1>b, AnswerHolds DEF IInv, Types
  <2>3. CASE ~RecheckFails(c)
    <3>1. br' = [br EXCEPT ![c] = "running"] /\ UNCHANGED <<kind, bSlots>>
      BY <1>11, <2>3 DEF Recheck, InBroker
    <3>2. Same
      BY <2>1, <3>1 DEF IInv, Types, CallTypes, Holders, Side
    <3> QED BY <3>2, <1>a
  <2> QED BY <2>2, <2>3
<1>12. ASSUME NEW c \in Calls, StartComputer(c) PROVE BrokerBalance'
  <2>1. /\ br[c] = "entered" /\ kind[c] = "computer"
        /\ br' = [br EXCEPT ![c] = "running"] /\ UNCHANGED <<kind, bSlots>>
    BY <1>12 DEF StartComputer, InBroker, brokers, IInv, HopInv
  <2>2. Same
    BY <2>1 DEF IInv, Types, CallTypes, Holders, Side
  <2> QED BY <2>2, <1>a
<1>13. ASSUME NEW c \in Calls, Finish(c) PROVE BrokerBalance'
  <2>1. br[c] = "running" /\ Answer(c) /\ Side(c) \in Sides
    BY <1>13 DEF Finish, Side, Sides
  <2>2. \A s \in Sides : Holders(s)' = Holders(s) \ {c}
    BY <2>1, AnswerHolds DEF IInv, Types
  <2>3. CASE kind[c] = "computer"
    <3>1. \A s \in Sides : c \notin Holders(s)
      BY <2>3 DEF Holders
    <3>2. bSlots' = bSlots
      BY <1>13, <2>3 DEF Finish
    <3> QED BY <2>2, <3>1, <3>2, <1>a
  <2>4. CASE kind[c] # "computer"
    <3>1. c \in Holders(Side(c))
      BY <2>1, <2>4 DEF Holders
    <3>2. bSlots' = [bSlots EXCEPT ![Side(c)] = @ + 1]
      BY <1>13, <2>4 DEF Finish, FreeBrokerSlot
    <3> QED BY <2>1, <2>2, <3>1, <3>2, <1>b
  <2> QED BY <2>3, <2>4
<1>14. ASSUME GatewayRestarts PROVE BrokerBalance'
  <2> DEFINE Gone == {c \in Calls : br[c] \in {"none", "answered"}}
  <2>1. GatewayLeaves(Gone, Calls \ Gone) /\ bSlots' = bSlots
    BY <1>14 DEF GatewayRestarts, brokers
  <2>2. \A c \in Calls \ Gone : br'[c] = br[c] /\ kind'[c] = kind[c]
    BY <2>1 DEF GatewayLeaves
  <2>3. \A c \in Gone : br'[c] = "none"
    BY <2>1 DEF GatewayLeaves
  <2>4. Same
    BY <2>1, <2>2, <2>3 DEF Holders, Side
  <2> QED BY <2>4, <1>a
<1>15. ASSUME NEW s \in Sides, BrokerRestarts(s) PROVE BrokerBalance'
  <2>1. \A c \in Calls : br'[c] \in {"holding", "running"} =>
           Side(c) # s /\ br'[c] = br[c] /\ kind'[c] = kind[c]
    BY <1>15 DEF BrokerRestarts
  <2>2. \A c \in Calls : Side(c) # s /\ br[c] # "none" =>
           br'[c] = br[c] /\ kind'[c] = kind[c]
    BY <1>15 DEF BrokerRestarts
  <2>3. bSlots' = [bSlots EXCEPT ![s] = BrokerSlots]
    BY <1>15 DEF BrokerRestarts
  <2> SUFFICES ASSUME NEW u \in Sides
               PROVE  bSlots'[u] + Cardinality(Holders(u)') = BrokerSlots
    BY DEF BrokerBalance
  <2>4. CASE u = s
    <3>1. Holders(u)' = {}
      BY <2>1, <2>4 DEF Holders, Side
    <3>2. bSlots'[u] = BrokerSlots
      BY <2>3, <2>4 DEF IInv, Types, SlotTypes
    <3> QED BY <3>1, <3>2, FS_EmptySet, SlotsAssumption
  <2>5. CASE u # s
    <3>1. Holders(u)' = Holders(u)
      BY <2>1, <2>2, <2>5 DEF Holders, Side
    <3>2. bSlots'[u] = bSlots[u]
      BY <2>3, <2>5 DEF IInv, Types, SlotTypes
    <3> QED BY <1>0, <3>1, <3>2
  <2> QED BY <2>4, <2>5
<1> QED BY <1>1, <1>2, <1>3, <1>4, <1>5, <1>6, <1>7, <1>8, <1>9, <1>10, <1>11, <1>12,
           <1>13, <1>14, <1>15
        DEF StopNext, Route, Guard

-----------------------------------------------------------------------------
(* The initial states, and the invariant as a whole.                        *)
LEMMA InitInv == StopInit => IInv
<1> SUFFICES ASSUME StopInit PROVE IInv
  OBVIOUS
<1>1. ControllerTypes
  BY GensAreNat DEF StopInit, ControllerTypes, Ops
<1>2. CallTypes
  BY GensAreNat DEF StopInit, CallTypes, GatewayPCs, BrokerPCs, Kinds
<1>3. BrokerTypes /\ SlotTypes
  BY GensAreNat, SlotsAssumption DEF StopInit, BrokerTypes, SlotTypes
<1>4. GenInv /\ FlagInv
  BY DEF StopInit, GenInv, FlagInv
<1>5. CallInv /\ HopInv
  BY DEF StopInit, CallInv, HopInv, Entered
<1>6. InCall = {} /\ \A s \in Sides : Holders(s) = {}
  BY DEF StopInit, InCall, Holders
<1>7. GatewayBalance /\ BrokerBalance
  BY <1>6, FS_EmptySet, SlotsAssumption DEF StopInit, GatewayBalance, BrokerBalance
<1> QED BY <1>1, <1>2, <1>3, <1>4, <1>5, <1>7 DEF IInv, Types

LEMMA InvStep == IInv /\ [StopNext]_stopVars => IInv'
  BY ControllerTypesStep, CallTypesStep, BrokerTypesStep, SlotTypesStep, GenStep,
     FlagStep, CallStep, HopStep, GatewayStep, BrokerStep DEF IInv, Types

LEMMA Invariant == StopSpec => []IInv
<1>1. StopInit => IInv
  BY InitInv
<1>2. IInv /\ [StopNext]_stopVars => IInv'
  BY InvStep
<1> QED BY <1>1, <1>2, PTL DEF StopSpec

(* Controller, calls, brokers and semaphores keep their types: no counter   *)
(* leaves its range and no semaphore admits more than its capacity.         *)
THEOREM StopTypeCorrect == StopSpec => []StopTypeOK
<1>1. IInv => StopTypeOK
  <2> SUFFICES ASSUME IInv PROVE StopTypeOK
    OBVIOUS
  <2>1. gwSlots \in 0 .. GatewaySlots
    BY HoldersFinite, SlotsAssumption DEF IInv, Types, SlotTypes, GatewayBalance
  <2>2. \A s \in Sides : bSlots[s] \in 0 .. BrokerSlots
    BY HoldersFinite, SlotsAssumption DEF IInv, Types, SlotTypes, BrokerBalance
  <2>3. bSlots \in [Sides -> 0 .. BrokerSlots]
    BY <2>2 DEF IInv, Types, SlotTypes
  <2> QED BY <2>1, <2>3 DEF IInv, Types, ControllerTypes, CallTypes, BrokerTypes, StopTypeOK
<1> QED BY <1>1, Invariant, PTL

(* Flag and generation agree, whatever pauses and resumes overlap.          *)
THEOREM StopGenerations == StopSpec => []GenerationFollowsFlag
<1>1. IInv => GenerationFollowsFlag
  BY DEF IInv, GenInv, FlagInv, GenerationFollowsFlag
<1> QED BY <1>1, Invariant, PTL

(* A paused broker has no call whose context lives.                         *)
THEOREM StopQuiet == StopSpec => []PausedBrokerHasNoLiveCall
<1>1. IInv => PausedBrokerHasNoLiveCall
  <2> SUFFICES ASSUME IInv, NEW c \in Calls, bPaused[Side(c)],
                      br[c] \in {"queued", "holding", "entered", "running"}
               PROVE  BrokerCancelled(c)
    BY DEF PausedBrokerHasNoLiveCall
  <2>1. bG[Side(c)] \in bCancelled[Side(c)]
    BY DEF IInv, FlagInv, Side, Sides
  <2> QED BY <2>1 DEF IInv, CallInv, Entered, BrokerCancelled
<1> QED BY <1>1, Invariant, PTL

(* No shell or file call starts in a broker that is paused.                 *)
THEOREM StopNoStart == StopSpec => NothingStartsInPausedBroker
<1> DEFINE NoStart == \A c \in Calls :
               br[c] = "holding" /\ br'[c] = "running" => ~bPaused[Side(c)]
<1>1. ASSUME IInv, StopNext PROVE NoStart
  <2> SUFFICES ASSUME NEW c \in Calls, br[c] = "holding", br'[c] = "running"
               PROVE  ~bPaused[Side(c)]
    OBVIOUS
  <2>1. Recheck(c) /\ ~BrokerCancelled(c)
    <3>1. ASSUME NEW o \in Operators, Control(o) \/ RootControl(o) PROVE FALSE
      BY <3>1 DEF Control, RootControl, PauseFlag, PauseCancel, PauseTell, ResumeFlag,
         ResumeTell, RootAsks, RootPause, RootResume, call
    <3>2. ASSUME NEW d \in Calls, Route(d) PROVE FALSE
      BY <3>2, <1>1 DEF Route, Admit, Acquire, Send, SendFails, Respond, GiveUp,
         StopReaches, Expire, Over, InBroker, IInv, Types, CallTypes
    <3>3. GatewayRestarts => FALSE
      BY DEF GatewayRestarts, GatewayLeaves
    <3>4. ASSUME NEW s \in Sides, BrokerRestarts(s) PROVE FALSE
      BY <3>4, <1>1 DEF BrokerRestarts, IInv, Types, CallTypes
    <3>5. ASSUME NEW d \in Calls, Guard(d) PROVE Recheck(c) /\ ~BrokerCancelled(c)
      <4>1. ASSUME HopNotices(d) PROVE FALSE
        BY <4>1 DEF HopNotices
      <4>2. ASSUME Unauthorized(d) \/ Refuse(d) \/ LeaveQueue(d) \/ Finish(d) PROVE FALSE
        <5>1. Answer(d)
          BY <4>2 DEF Unauthorized, Refuse, LeaveQueue, Finish
        <5> QED BY <5>1, <1>1 DEF Answer, Over, InBroker, IInv, Types, CallTypes
      <4>3. ASSUME Enter(d) \/ TakeSlot(d) \/ StartComputer(d) PROVE FALSE
        BY <4>3, <1>1 DEF Enter, TakeSlot, StartComputer, InBroker, IInv, Types, CallTypes
      <4>4. ASSUME Recheck(d) PROVE Recheck(c) /\ ~BrokerCancelled(c)
        <5>1. CASE RecheckFails(d)
          BY <4>4, <5>1, <1>1 DEF Recheck, Answer, Over, InBroker, IInv, Types, CallTypes
        <5>2. CASE ~RecheckFails(d)
          BY <4>4, <5>2, <1>1 DEF Recheck, RecheckFails, InBroker, IInv, Types, CallTypes
        <5> QED BY <5>1, <5>2
      <4> QED BY <3>5, <4>1, <4>2, <4>3, <4>4 DEF Guard
    <3> QED BY <1>1, <3>1, <3>2, <3>3, <3>4, <3>5 DEF StopNext
  <2>2. bPaused[Side(c)] => BrokerCancelled(c)
    BY <1>1 DEF IInv, FlagInv, CallInv, Entered, BrokerCancelled, Side, Sides
  <2> QED BY <2>1, <2>2
<1>2. IInv /\ [StopNext]_stopVars => [NoStart]_stopVars
  BY <1>1
<1> QED BY <1>2, Invariant, PTL DEF StopSpec, NothingStartsInPausedBroker

(* Every slot that is taken is given back exactly once.                     *)
THEOREM StopSlotsBalance == StopSpec => []SlotsBalance
<1>1. IInv => SlotsBalance
  BY DEF IInv, GatewayBalance, BrokerBalance, InCall, Holders, SlotsBalance
<1> QED BY <1>1, Invariant, PTL
=============================================================================
