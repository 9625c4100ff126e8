------------------------------ MODULE CuaClient ------------------------------
(***************************************************************************)
(* The desktop driver of the session broker: CuaComputer                   *)
(* (agent/internal/session/service.go) starts a cua.Client on demand, one  *)
(* at a time; the client (agent/internal/cua/client.go) is one child       *)
(* process and the campaign that replaces it when it died; Resume stops    *)
(* the client and Close ends everything.                                   *)
(*                                                                         *)
(* A caller is one computer_use or browser call; a child is one            *)
(* cua-driver process.                                                     *)
(***************************************************************************)
EXTENDS Integers, FiniteSets

CONSTANTS Callers, NoCaller,
          Children, NoChild,  \* bound: children that are ever started
          MaxClients          \* bound: clients that are ever made

ASSUME CuaNobody == /\ NoCaller \notin Callers /\ NoChild \notin Children
                    /\ Children \cap {"off", "try", "done"} = {}
ASSUME CuaBound == MaxClients \in Nat

CuaClients == 1 .. MaxClients
NoClient == 0

VARIABLES
    cuaCurrent, cuaReady, cuaShut, \* CuaComputer: client and adapter, ready, closed
    starter,                       \* who holds startMu
    caller, holds, session,        \* a call: where it is, its client, the child it talks to
    clientsMade,                   \* the clients are 1 .. clientsMade
    child, connected, clientClosed, \* cua.Client: session, ready, closed
    campaign, reconnecting,        \* its reconnectLoop
    childAlive, childUnused,       \* the cua-driver processes
    toClose,                       \* clients that Stop or Close took and closes after the lock
    notices                        \* notifyReady goroutines under way

computer == <<cuaCurrent, cuaReady, cuaShut, starter>>
calls == <<caller, holds, session>>
clients == <<clientsMade, child, connected, clientClosed, campaign, reconnecting>>
children == <<childAlive, childUnused>>
cuaVars == <<computer, calls, clients, children, toClose, notices>>

CuaInit ==
    /\ cuaCurrent = NoClient /\ cuaReady = FALSE /\ cuaShut = FALSE /\ starter = NoCaller
    /\ caller = [k \in Callers |-> "idle"] /\ holds = [k \in Callers |-> NoClient]
    /\ session = [k \in Callers |-> NoChild]
    /\ clientsMade = 0 /\ child = [c \in CuaClients |-> NoChild]
    /\ connected = [c \in CuaClients |-> FALSE] /\ clientClosed = [c \in CuaClients |-> FALSE]
    /\ campaign = [c \in CuaClients |-> "off"] /\ reconnecting = [c \in CuaClients |-> FALSE]
    /\ childAlive = {} /\ childUnused = Children
    /\ toClose = {} /\ notices = {}

-----------------------------------------------------------------------------
(* ensure *)

CallGoes(k, p) == caller' = [caller EXCEPT ![k] = p]
Drops(k) == CallGoes(k, "idle") /\ holds' = [holds EXCEPT ![k] = NoClient]
Gets(k, c) == CallGoes(k, "call") /\ holds' = [holds EXCEPT ![k] = c]

\* What the call finds under c.mu: the adapter, or nothing, or a closed backend.
FindsClient(k) == ~cuaShut /\ cuaCurrent # NoClient /\ Gets(k, cuaCurrent)
FindsNone_firstLook == ~cuaShut
FindsNone == ~cuaShut /\ cuaCurrent = NoClient

EnsureLooks(k) ==
    /\ caller[k] = "idle"
    /\ \/ FindsClient(k)
       \/ ~cuaShut /\ cuaCurrent = NoClient /\ CallGoes(k, "wait") /\ UNCHANGED holds
    /\ UNCHANGED <<computer, session, clients, children, toClose, notices>>

\* startMu, and the second look; without a desktop session nothing is started.
EnsureLocks(k) ==
    /\ caller[k] = "wait" /\ starter = NoCaller
    /\ \/ FindsClient(k) /\ UNCHANGED starter
       \/ Drops(k) /\ UNCHANGED starter
       \/ FindsNone /\ CallGoes(k, "start") /\ starter' = k /\ UNCHANGED holds
    /\ UNCHANGED <<cuaCurrent, cuaReady, cuaShut, session, clients, children, toClose, notices>>

\* cua.Start: the child of this start is session[k] until a client has it.
StartFails(k) ==
    /\ caller[k] = "start"
    /\ Drops(k) /\ starter' = NoCaller
    /\ UNCHANGED <<cuaCurrent, cuaReady, cuaShut, session, clients, children, toClose, notices>>

StartConnects(k) ==
    /\ caller[k] = "start"
    /\ \E p \in childUnused :
         /\ childAlive' = childAlive \cup {p} /\ childUnused' = childUnused \ {p}
         /\ session' = [session EXCEPT ![k] = p]
    /\ CallGoes(k, "adopt")
    /\ UNCHANGED <<computer, holds, clients, toClose, notices>>

StartAdopts(k) ==
    /\ caller[k] = "adopt"
    /\ starter' = NoCaller /\ session' = [session EXCEPT ![k] = NoChild]
    /\ IF cuaShut
       THEN /\ childAlive' = childAlive \ {session[k]} /\ Drops(k)
            /\ UNCHANGED <<cuaCurrent, cuaReady, clientsMade, child, connected>>
       ELSE /\ clientsMade < MaxClients /\ clientsMade' = clientsMade + 1
            /\ child' = [child EXCEPT ![clientsMade'] = session[k]]
            /\ connected' = [connected EXCEPT ![clientsMade'] = TRUE]
            /\ cuaCurrent' = clientsMade' /\ cuaReady' = TRUE
            /\ Gets(k, clientsMade') /\ UNCHANGED childAlive
    /\ UNCHANGED <<cuaShut, clientClosed, campaign, reconnecting, childUnused, toClose, notices>>

-----------------------------------------------------------------------------
(* Client.Call *)

\* callMu: one call at a time; a disconnected client fails it at once.
CallFailsFast(k) ==
    /\ caller[k] = "call" /\ \A j \in Callers : ~(caller[j] = "calling" /\ holds[j] = holds[k])
    /\ ~connected[holds[k]]
    /\ Drops(k)
    /\ UNCHANGED <<computer, session, clients, children, toClose, notices>>

CallSends(k) ==
    /\ caller[k] = "call" /\ \A j \in Callers : ~(caller[j] = "calling" /\ holds[j] = holds[k])
    /\ connected[holds[k]]
    /\ CallGoes(k, "calling") /\ session' = [session EXCEPT ![k] = child[holds[k]]]
    /\ UNCHANGED <<computer, holds, clients, children, toClose, notices>>

\* An answer, or the context's error, which is not the child's fault.
CallAnswers(k) ==
    /\ caller[k] = "calling"
    /\ Drops(k) /\ session' = [session EXCEPT ![k] = NoChild]
    /\ UNCHANGED <<computer, clients, children, toClose, notices>>

\* onDisconnect starts a campaign unless one runs or the client is closed.
StartsCampaign(c) == ~reconnecting[c] /\ ~clientClosed[c]

Notify(c, up) == notices' = notices \cup {<<c, up>>}

\* Any other error, of a dead child or a protocol error of a live one, whose
\* session is dropped without being closed.
CallErrs(k) ==
    LET c == holds[k] IN
    /\ caller[k] = "calling"
    /\ Drops(k) /\ session' = [session EXCEPT ![k] = NoChild]
    /\ child' = [child EXCEPT ![c] = NoChild] /\ connected' = [connected EXCEPT ![c] = FALSE]
    /\ IF connected[c] THEN Notify(c, FALSE) ELSE UNCHANGED notices
    /\ IF StartsCampaign(c)
       THEN reconnecting' = [reconnecting EXCEPT ![c] = TRUE]
            /\ campaign' = [campaign EXCEPT ![c] = "try"]
       ELSE UNCHANGED <<reconnecting, campaign>>
    /\ UNCHANGED <<computer, clientsMade, clientClosed, children, toClose>>

-----------------------------------------------------------------------------
(* reconnectLoop: campaign[c] is off, try, the child it connected to, or done *)

\* The client was closed, or reconnectBudget has elapsed.
CampaignEnds(c) ==
    /\ campaign[c] = "try"
    /\ campaign' = [campaign EXCEPT ![c] = "done"]
    /\ UNCHANGED <<computer, calls, clientsMade, child, connected, clientClosed, reconnecting, children, toClose, notices>>

CampaignConnects(c) ==
    /\ campaign[c] = "try"
    /\ \E p \in childUnused :
         /\ childAlive' = childAlive \cup {p} /\ childUnused' = childUnused \ {p}
         /\ campaign' = [campaign EXCEPT ![c] = p]
    /\ UNCHANGED <<computer, calls, clientsMade, child, connected, clientClosed, reconnecting, toClose, notices>>

TooLate_never(c) == FALSE
TooLate(c) == clientClosed[c]

CampaignInstalls(c) ==
    /\ campaign[c] \in Children
    /\ campaign' = [campaign EXCEPT ![c] = "done"]
    /\ IF TooLate(c)
       THEN /\ childAlive' = childAlive \ {campaign[c]}
            /\ UNCHANGED <<child, connected, notices>>
       ELSE /\ child' = [child EXCEPT ![c] = campaign[c]]
            /\ connected' = [connected EXCEPT ![c] = TRUE]
            /\ Notify(c, TRUE) /\ UNCHANGED childAlive
    /\ UNCHANGED <<computer, calls, clientsMade, clientClosed, reconnecting, childUnused, toClose>>

\* The deferred reset comes after everything else.
CampaignOver(c) ==
    /\ campaign[c] = "done"
    /\ campaign' = [campaign EXCEPT ![c] = "off"]
    /\ reconnecting' = [reconnecting EXCEPT ![c] = FALSE]
    /\ UNCHANGED <<computer, calls, clientsMade, child, connected, clientClosed, children, toClose, notices>>

\* onReady, from a goroutine of its own.
ReadyNotice ==
    /\ \E n \in notices :
         /\ notices' = notices \ {n}
         /\ cuaReady' = IF cuaShut THEN cuaReady ELSE n[2]
    /\ UNCHANGED <<cuaCurrent, cuaShut, starter, calls, clients, children, toClose>>

-----------------------------------------------------------------------------
(* Stop, Close and the children *)

TakesClient == toClose' = IF cuaCurrent = NoClient THEN toClose ELSE toClose \cup {cuaCurrent}

StopTakes ==
    /\ TakesClient /\ cuaCurrent' = NoClient /\ cuaReady' = FALSE
    /\ cuaCurrent # NoClient
    /\ UNCHANGED <<cuaShut, starter, calls, clients, children, notices>>

ShutTakes ==
    /\ ~cuaShut /\ cuaShut' = TRUE
    /\ TakesClient /\ cuaCurrent' = NoClient /\ cuaReady' = FALSE
    /\ UNCHANGED <<starter, calls, clients, children, notices>>

\* Client.Close, after the lock of the computer.
ClientCloses(c) ==
    /\ c \in toClose /\ toClose' = toClose \ {c}
    /\ clientClosed' = [clientClosed EXCEPT ![c] = TRUE]
    /\ child' = [child EXCEPT ![c] = NoChild] /\ connected' = [connected EXCEPT ![c] = FALSE]
    /\ childAlive' = childAlive \ {child[c]}
    /\ UNCHANGED <<computer, calls, clientsMade, campaign, reconnecting, childUnused, notices>>

ChildDies ==
    /\ \E p \in childAlive : childAlive' = childAlive \ {p}
    /\ UNCHANGED <<computer, calls, clients, childUnused, toClose, notices>>

-----------------------------------------------------------------------------
CuaCall(k) ==
    \/ EnsureLooks(k) \/ EnsureLocks(k) \/ StartFails(k) \/ StartConnects(k) \/ StartAdopts(k)
    \/ CallFailsFast(k) \/ CallSends(k) \/ CallAnswers(k) \/ CallErrs(k)
Campaign(c) == CampaignEnds(c) \/ CampaignConnects(c) \/ CampaignInstalls(c) \/ CampaignOver(c)

CuaNext ==
    \/ \E k \in Callers : CuaCall(k)
    \/ \E c \in CuaClients : Campaign(c) \/ ClientCloses(c)
    \/ ReadyNotice \/ StopTakes \/ ShutTakes \/ ChildDies

CuaSpec == CuaInit /\ [][CuaNext]_cuaVars

\* The agent keeps calling, and goroutines go on.
CuaFairness ==
    /\ \A k \in Callers : WF_cuaVars(CuaCall(k))
    /\ \A c \in CuaClients : WF_cuaVars(Campaign(c)) /\ WF_cuaVars(ClientCloses(c))

CuaFairSpec == CuaSpec /\ CuaFairness

-----------------------------------------------------------------------------
(* Properties *)

\* Concurrent first uses, a stop and a resume in between: at most one client is
\* open, besides those that a Stop is about to close.
OneOpenClient ==
    \A c, d \in (1 .. clientsMade) \ toClose : ~clientClosed[c] /\ ~clientClosed[d] => c = d

\* A child has an owner that will close it: an open client, a start or a
\* campaign that has just connected, unless a failed call dropped it.  Neither
\* Stop nor Close, at whatever moment of a start or a campaign, leaves one
\* running behind.
Owned(p) ==
    \/ \E c \in 1 .. clientsMade : child[c] = p /\ ~clientClosed[c] /\ (c = cuaCurrent \/ c \in toClose)
    \/ \E k \in Callers : session[k] = p /\ caller[k] = "adopt"
    \/ \E c \in 1 .. clientsMade : campaign[c] = p

OnlyACallDropsAChild ==
    [][\A p \in Children :
         (p \in childAlive /\ Owned(p) /\ p \in childAlive' /\ ~Owned(p)') =>
            \E k \in Callers : caller[k] = "calling" /\ caller'[k] = "idle"]_cuaVars

\* The comment at client.go:22-26: when a campaign is exhausted, a later Call
\* failure starts a fresh one.  While calls go on, a disconnected client has a
\* campaign again, or is replaced.
DeadChildIsRetried ==
    \A c \in CuaClients :
        (cuaCurrent = c /\ ~connected[c] /\ ~reconnecting[c])
            ~> (cuaCurrent # c \/ connected[c] \/ reconnecting[c])
=============================================================================
