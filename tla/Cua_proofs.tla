----------------------------- MODULE Cua_proofs ------------------------------
(*****************************************************************************)
(* The promises of the desktop driver.  Of its client, for every set of      *)
(* callers and of children and any number of clients; of the calls that have *)
(* the seat, for every set of agents and of elements of a page.              *)
(*****************************************************************************)
EXTENDS CuaClient, DesktopSeat, TLAPS
-----------------------------------------------------------------------------
(* The driver and its client (agent/internal/session, agent/internal/cua) *)

Made == 1 .. clientsMade
Open(c) == c \in Made /\ ~clientClosed[c]
Starting(k) == caller[k] \in {"start", "adopt"}

(* A call that has a client has one that was made.                           *)
CallPlaces == {"idle", "wait", "start", "adopt", "call", "calling"}
CallsOK ==
    /\ caller \in [Callers -> CallPlaces]
    /\ holds \in [Callers -> 0 .. clientsMade]
    /\ \A k \in Callers : caller[k] \in {"call", "calling"} => holds[k] # NoClient

(* What the variables are.                                                   *)
CuaTypeOK ==
    /\ clientsMade \in 0 .. MaxClients
    /\ cuaCurrent \in 0 .. clientsMade
    /\ CallsOK
    /\ session \in [Callers -> Children \cup {NoChild}]
    /\ child \in [CuaClients -> Children \cup {NoChild}]
    /\ connected \in [CuaClients -> BOOLEAN]
    /\ clientClosed \in [CuaClients -> BOOLEAN]
    /\ reconnecting \in [CuaClients -> BOOLEAN]
    /\ campaign \in [CuaClients -> {"off", "try", "done"} \cup Children]
    /\ toClose \subseteq Made /\ childUnused \subseteq Children
(* startMu is held by who starts a client, and until then there is none.     *)
StartInv ==
    \A k \in Callers : Starting(k) => starter = k /\ cuaCurrent = NoClient

(* A client that is not closed is the current one, or about to be closed;    *)
(* one that was not made was not closed and has no child.                    *)
OpenInv ==
    /\ \A c \in Made : ~clientClosed[c] => c = cuaCurrent \/ c \in toClose
    /\ \A c \in CuaClients \ Made :
         /\ ~clientClosed[c] /\ campaign[c] = "off" /\ ~reconnecting[c]

(* While a campaign goes on there is no child that it could replace.         *)
CampaignInv ==
    \A c \in CuaClients :
        /\ campaign[c] # "off" => reconnecting[c]
        /\ campaign[c] \notin {"off", "done"} => child[c] = NoChild /\ ~connected[c]
        /\ clientClosed[c] => child[c] = NoChild
        /\ ~connected[c] => child[c] = NoChild

CuaInv == CuaTypeOK /\ StartInv /\ OpenInv /\ CampaignInv

-----------------------------------------------------------------------------
(* One lemma for each part of the invariant. *)

LEMMA CallMoves ==
    ASSUME CuaTypeOK, NEW k \in Callers, clientsMade' \in {clientsMade, clientsMade + 1},
           \/ Drops(k)
           \/ \E c \in 1 .. clientsMade' : Gets(k, c)
           \/ UNCHANGED holds /\ \E p \in {"wait", "start", "adopt"} : CallGoes(k, p)
           \/ UNCHANGED holds /\ caller[k] = "call" /\ CallGoes(k, "calling")
    PROVE  CallsOK'
<1> USE DEF CuaTypeOK, CallsOK, CallPlaces, NoClient, CallGoes
<1>1. clientsMade \in Nat /\ holds \in [Callers -> 0 .. clientsMade']
  OBVIOUS
<1>2. CASE Drops(k)
  BY <1>1, <1>2 DEF Drops
<1>3. ASSUME NEW c \in 1 .. clientsMade', Gets(k, c) PROVE CallsOK'
  BY <1>1, <1>3 DEF Gets
<1>4. ASSUME UNCHANGED holds, NEW p \in {"wait", "start", "adopt"}, CallGoes(k, p) PROVE CallsOK'
  BY <1>1, <1>4
<1>5. CASE UNCHANGED holds /\ caller[k] = "call" /\ CallGoes(k, "calling")
  BY <1>1, <1>5
<1> QED BY <1>2, <1>3, <1>4, <1>5

LEMMA CuaTypeStep == ASSUME CuaInv, CuaNext PROVE CuaTypeOK'
<1> USE CuaNobody, CuaBound DEF CuaInv, CuaTypeOK, Made, CuaClients, NoClient
<1>1. ASSUME NEW k \in Callers, EnsureLooks(k) \/ EnsureLocks(k) PROVE CuaTypeOK'
  <2>1. /\ UNCHANGED <<cuaCurrent, session, clients, children, toClose>>
        /\ \/ Gets(k, cuaCurrent) /\ cuaCurrent # NoClient
           \/ Drops(k)
           \/ UNCHANGED holds /\ (CallGoes(k, "wait") \/ CallGoes(k, "start"))
    BY <1>1 DEF EnsureLooks, EnsureLocks, FindsClient, computer
  <2>2. CallsOK'
    BY <2>1, CallMoves DEF clients
  <2> QED BY <2>1, <2>2 DEF clients, children
<1>2. ASSUME NEW k \in Callers, StartFails(k) \/ StartConnects(k) PROVE CuaTypeOK'
  <2>1. UNCHANGED <<cuaCurrent, clients, toClose>> /\ childUnused' \subseteq Children
    BY <1>2 DEF StartFails, StartConnects, computer, children
  <2>2. session' \in [Callers -> Children \cup {NoChild}]
    BY <1>2 DEF StartFails, StartConnects
  <2>3. Drops(k) \/ (UNCHANGED holds /\ CallGoes(k, "adopt"))
    BY <1>2 DEF StartFails, StartConnects
  <2>4. CallsOK'
    BY <2>1, <2>3, CallMoves DEF clients
  <2> QED BY <2>1, <2>2, <2>4 DEF clients
<1>3. ASSUME NEW k \in Callers, StartAdopts(k) PROVE CuaTypeOK'
  <2>1. /\ session' \in [Callers -> Children \cup {NoChild}]
        /\ UNCHANGED <<clientClosed, campaign, reconnecting, childUnused, toClose>>
    BY <1>3 DEF StartAdopts
  <2>2. CASE cuaShut
    <3>1. Drops(k) /\ UNCHANGED <<cuaCurrent, clientsMade, child, connected>>
      BY <1>3, <2>2 DEF StartAdopts
    <3>2. CallsOK'
      BY <3>1, CallMoves
    <3> QED BY <2>1, <3>1, <3>2
  <2>3. CASE ~cuaShut
    <3>1. /\ clientsMade' = clientsMade + 1 /\ clientsMade < MaxClients
          /\ child' = [child EXCEPT ![clientsMade'] = session[k]]
          /\ connected' = [connected EXCEPT ![clientsMade'] = TRUE]
          /\ cuaCurrent' = clientsMade'
          /\ Gets(k, clientsMade')
      BY <1>3, <2>3 DEF StartAdopts
    <3>2. clientsMade' \in 1 .. MaxClients /\ cuaCurrent' \in 0 .. clientsMade'
      BY <3>1
    <3>3. child' \in [CuaClients -> Children \cup {NoChild}] /\ connected' \in [CuaClients -> BOOLEAN]
      BY <3>1
    <3>4. CallsOK'
      BY <3>1, <3>2, CallMoves
    <3> QED BY <2>1, <3>1, <3>2, <3>3, <3>4
  <2> QED BY <2>2, <2>3
<1>4. ASSUME NEW k \in Callers, CallFailsFast(k) \/ CallSends(k) \/ CallAnswers(k) PROVE CuaTypeOK'
  <2>1. UNCHANGED <<computer, clients, children, toClose>>
    BY <1>4 DEF CallFailsFast, CallSends, CallAnswers
  <2>2. session' \in [Callers -> Children \cup {NoChild}]
    <3>1. CASE CallSends(k)
      <4>1. holds[k] \in CuaClients
        BY <3>1 DEF CallSends, CallsOK
      <4> QED BY <3>1, <4>1 DEF CallSends
    <3>2. CASE CallFailsFast(k) \/ CallAnswers(k)
      BY <3>2 DEF CallFailsFast, CallAnswers
    <3> QED BY <1>4, <3>1, <3>2
  <2>3. Drops(k) \/ (UNCHANGED holds /\ caller[k] = "call" /\ CallGoes(k, "calling"))
    BY <1>4 DEF CallFailsFast, CallSends, CallAnswers
  <2>4. CallsOK'
    BY <2>1, <2>3, CallMoves DEF clients
  <2> QED BY <2>1, <2>2, <2>4 DEF computer, clients, children
<1>5. ASSUME NEW k \in Callers, CallErrs(k) PROVE CuaTypeOK'
  <2>1. UNCHANGED <<computer, clientsMade, clientClosed, children, toClose>>
    BY <1>5 DEF CallErrs
  <2>2. Drops(k) /\ session' = [session EXCEPT ![k] = NoChild]
    BY <1>5 DEF CallErrs
  <2>3. child' \in [CuaClients -> Children \cup {NoChild}] /\ connected' \in [CuaClients -> BOOLEAN]
    BY <1>5 DEF CallErrs
  <2>4. reconnecting' \in [CuaClients -> BOOLEAN]
        /\ campaign' \in [CuaClients -> {"off", "try", "done"} \cup Children]
    BY <1>5 DEF CallErrs
  <2>5. CallsOK'
    BY <2>1, <2>2, CallMoves
  <2> QED BY <2>1, <2>2, <2>3, <2>4, <2>5 DEF computer, children
<1>6. ASSUME NEW c \in CuaClients, Campaign(c) PROVE CuaTypeOK'
  <2>1. UNCHANGED <<computer, calls, clientsMade, clientClosed, toClose>>
    BY <1>6 DEF Campaign, CampaignEnds, CampaignConnects, CampaignInstalls, CampaignOver
  <2>2. /\ campaign' \in [CuaClients -> {"off", "try", "done"} \cup Children]
        /\ childUnused' \subseteq Children
    <3>1. /\ childUnused' \subseteq childUnused
          /\ \E q \in {"off", "done"} \cup childUnused : campaign' = [campaign EXCEPT ![c] = q]
      BY <1>6 DEF Campaign, CampaignEnds, CampaignConnects, CampaignInstalls, CampaignOver, children
    <3> QED BY <3>1
  <2>3. /\ child' \in [CuaClients -> Children \cup {NoChild}]
        /\ connected' \in [CuaClients -> BOOLEAN]
        /\ reconnecting' \in [CuaClients -> BOOLEAN]
    BY <1>6 DEF Campaign, CampaignEnds, CampaignConnects, CampaignInstalls, CampaignOver
  <2> QED BY <2>1, <2>2, <2>3 DEF computer, calls, CallsOK
<1>7. ASSUME NEW c \in CuaClients, ClientCloses(c) PROVE CuaTypeOK'
  <2>1. UNCHANGED <<computer, calls, clientsMade, campaign, reconnecting, childUnused>>
    BY <1>7 DEF ClientCloses
  <2>2. /\ toClose' \subseteq Made
        /\ child' \in [CuaClients -> Children \cup {NoChild}]
        /\ connected' \in [CuaClients -> BOOLEAN]
        /\ clientClosed' \in [CuaClients -> BOOLEAN]
    BY <1>7 DEF ClientCloses
  <2> QED BY <2>1, <2>2 DEF computer, calls, CallsOK
<1>8. CASE ReadyNotice \/ ChildDies
  BY <1>8 DEF ReadyNotice, ChildDies, computer, calls, clients, children, CallsOK
<1>9. CASE StopTakes \/ ShutTakes
  <2>1. UNCHANGED <<calls, clients, children>> /\ cuaCurrent' = NoClient
        /\ toClose' \subseteq toClose \cup ({cuaCurrent} \ {NoClient})
    BY <1>9 DEF StopTakes, ShutTakes, TakesClient
  <2>2. cuaCurrent' \in 0 .. clientsMade /\ toClose' \subseteq 1 .. clientsMade
    BY <2>1
  <2> QED BY <2>1, <2>2 DEF calls, clients, children, CallsOK
<1> QED BY <1>1, <1>2, <1>3, <1>4, <1>5, <1>6, <1>7, <1>8, <1>9 DEF CuaNext, CuaCall

(* Only who holds startMu makes a client, and it looks again before.         *)
LEMMA StartStep == ASSUME CuaInv, CuaNext PROVE StartInv'
<1> USE CuaNobody DEF CuaInv, CuaTypeOK, CallsOK, StartInv, Starting, NoClient
<1>1. ASSUME NEW k \in Callers, EnsureLooks(k) PROVE StartInv'
  BY <1>1 DEF EnsureLooks, FindsClient, Gets, CallGoes, computer
<1>2. ASSUME NEW k \in Callers, EnsureLocks(k) PROVE StartInv'
  <2>1. starter = NoCaller /\ cuaCurrent' = cuaCurrent
    BY <1>2 DEF EnsureLocks
  <2>2. \A j \in Callers : ~Starting(j)
    BY <2>1
  <2>3. CASE FindsNone /\ CallGoes(k, "start") /\ starter' = k
    BY <2>1, <2>2, <2>3 DEF FindsNone, CallGoes
  <2>4. CASE FindsClient(k) \/ Drops(k)
    BY <2>2, <2>4 DEF FindsClient, Gets, Drops, CallGoes
  <2> QED BY <1>2, <2>3, <2>4 DEF EnsureLocks
<1>3. ASSUME NEW k \in Callers, StartFails(k) \/ StartAdopts(k) PROVE StartInv'
  <2>1. \A j \in Callers : Starting(j) => j = k
    BY <1>3 DEF StartFails, StartAdopts
  <2>2. caller' = [caller EXCEPT ![k] = "idle"] \/ caller' = [caller EXCEPT ![k] = "call"]
    BY <1>3 DEF StartFails, StartAdopts, Drops, Gets, CallGoes
  <2> QED BY <2>1, <2>2
<1>4. ASSUME NEW k \in Callers, StartConnects(k) PROVE StartInv'
  BY <1>4 DEF StartConnects, CallGoes, computer
<1>5. ASSUME NEW k \in Callers,
             CallFailsFast(k) \/ CallSends(k) \/ CallAnswers(k) \/ CallErrs(k)
      PROVE  StartInv'
  <2>1. UNCHANGED computer /\ \E p \in {"idle", "calling"} : CallGoes(k, p)
    BY <1>5 DEF CallFailsFast, CallSends, CallAnswers, CallErrs, Drops
  <2> QED BY <2>1 DEF computer, CallGoes
<1>6. CASE \E c \in CuaClients : Campaign(c) \/ ClientCloses(c)
  BY <1>6 DEF Campaign, CampaignEnds, CampaignConnects, CampaignInstalls, CampaignOver,
     ClientCloses, computer, calls
<1>7. CASE ReadyNotice \/ StopTakes \/ ShutTakes \/ ChildDies
  BY <1>7 DEF ReadyNotice, StopTakes, ShutTakes, ChildDies, computer, calls
<1> QED BY <1>1, <1>2, <1>3, <1>4, <1>5, <1>6, <1>7 DEF CuaNext, CuaCall

(* No client is left open without somebody who will close it.                *)
LEMMA OpenStep == ASSUME CuaInv, CuaNext PROVE OpenInv'
<1> USE CuaNobody, CuaBound DEF CuaInv, CuaTypeOK, OpenInv, Made, CuaClients, NoClient
<1>1. ASSUME NEW k \in Callers, StartAdopts(k) PROVE OpenInv'
  <2>1. cuaCurrent = NoClient /\ UNCHANGED <<clientClosed, campaign, reconnecting, toClose>>
    BY <1>1 DEF StartAdopts, StartInv, Starting
  <2>2. \/ UNCHANGED <<cuaCurrent, clientsMade>>
        \/ clientsMade' = clientsMade + 1 /\ cuaCurrent' = clientsMade'
    BY <1>1 DEF StartAdopts
  <2> QED BY <2>1, <2>2
<1>2. ASSUME NEW k \in Callers, CallErrs(k) PROVE OpenInv'
  <2>1. holds[k] \in Made /\ UNCHANGED <<cuaCurrent, clientsMade, clientClosed, toClose>>
    BY <1>2 DEF CallErrs, CallsOK, computer
  <2>2. \A c \in CuaClients \ {holds[k]} :
          campaign'[c] = campaign[c] /\ reconnecting'[c] = reconnecting[c]
    BY <1>2 DEF CallErrs
  <2> QED BY <2>1, <2>2
<1>3. ASSUME NEW k \in Callers,
             \/ EnsureLooks(k) \/ EnsureLocks(k) \/ StartFails(k) \/ StartConnects(k)
             \/ CallFailsFast(k) \/ CallSends(k) \/ CallAnswers(k)
      PROVE  OpenInv'
  <2>1. UNCHANGED <<cuaCurrent, clients, toClose>>
    BY <1>3 DEF EnsureLooks, EnsureLocks, StartFails, StartConnects, CallFailsFast, CallSends,
       CallAnswers, computer
  <2> QED BY <2>1 DEF clients
<1>4. ASSUME NEW c \in CuaClients, Campaign(c) PROVE OpenInv'
  <2>1. campaign[c] # "off" /\ UNCHANGED <<cuaCurrent, clientsMade, clientClosed, toClose>>
    BY <1>4 DEF Campaign, CampaignEnds, CampaignConnects, CampaignInstalls, CampaignOver, computer
  <2>2. \A d \in CuaClients \ {c} :
          campaign'[d] = campaign[d] /\ reconnecting'[d] = reconnecting[d]
    BY <1>4 DEF Campaign, CampaignEnds, CampaignConnects, CampaignInstalls, CampaignOver
  <2> QED BY <2>1, <2>2
<1>5. ASSUME NEW c \in CuaClients, ClientCloses(c) PROVE OpenInv'
  <2>1. /\ c \in Made /\ UNCHANGED <<cuaCurrent, clientsMade, campaign, reconnecting>>
        /\ clientClosed' = [clientClosed EXCEPT ![c] = TRUE] /\ toClose' = toClose \ {c}
    BY <1>5 DEF ClientCloses, computer
  <2> QED BY <2>1
<1>6. CASE StopTakes \/ ShutTakes
  <2>1. /\ UNCHANGED clients /\ cuaCurrent' = NoClient
        /\ toClose' = IF cuaCurrent = NoClient THEN toClose ELSE toClose \cup {cuaCurrent}
    BY <1>6 DEF StopTakes, ShutTakes, TakesClient
  <2> QED BY <2>1 DEF clients
<1>7. CASE ReadyNotice \/ ChildDies
  BY <1>7 DEF ReadyNotice, ChildDies, computer, clients
<1> QED BY <1>1, <1>2, <1>3, <1>4, <1>5, <1>6, <1>7 DEF CuaNext, CuaCall

(* A campaign finds no child in its way, and a closed client gets none.      *)
LEMMA CampaignStep == ASSUME CuaInv, CuaNext PROVE CampaignInv'
<1> USE CuaNobody, CuaBound DEF CuaInv, CuaTypeOK, CampaignInv, CuaClients, NoClient
<1>1. ASSUME NEW k \in Callers, StartAdopts(k) PROVE CampaignInv'
  <2>1. UNCHANGED <<clientClosed, campaign, reconnecting>>
    BY <1>1 DEF StartAdopts
  <2>2. CASE cuaShut
    BY <1>1, <2>1, <2>2 DEF StartAdopts
  <2>3. CASE ~cuaShut
    <3>1. PICK c \in CuaClients \ Made :
            /\ child' = [child EXCEPT ![c] = session[k]]
            /\ connected' = [connected EXCEPT ![c] = TRUE]
      BY <1>1, <2>3 DEF StartAdopts, Made
    <3>2. ~clientClosed[c] /\ campaign[c] = "off"
      BY DEF OpenInv
    <3> QED BY <2>1, <3>1, <3>2
  <2> QED BY <2>2, <2>3
<1>2. ASSUME NEW k \in Callers, CallErrs(k) PROVE CampaignInv'
  <2> DEFINE c == holds[k]
  <2>1. c \in CuaClients /\ UNCHANGED clientClosed
    BY <1>2 DEF CallErrs, CallsOK
  <2>2. /\ child' = [child EXCEPT ![c] = NoChild] /\ connected' = [connected EXCEPT ![c] = FALSE]
        /\ \/ UNCHANGED <<reconnecting, campaign>>
           \/ /\ reconnecting' = [reconnecting EXCEPT ![c] = TRUE]
              /\ campaign' = [campaign EXCEPT ![c] = "try"]
    BY <1>2 DEF CallErrs
  <2> HIDE DEF c
  <2> QED BY <2>1, <2>2
<1>3. ASSUME NEW k \in Callers,
             \/ EnsureLooks(k) \/ EnsureLocks(k) \/ StartFails(k) \/ StartConnects(k)
             \/ CallFailsFast(k) \/ CallSends(k) \/ CallAnswers(k)
      PROVE  CampaignInv'
  <2>1. UNCHANGED clients
    BY <1>3 DEF EnsureLooks, EnsureLocks, StartFails, StartConnects, CallFailsFast, CallSends,
       CallAnswers
  <2> QED BY <2>1 DEF clients
<1>4. ASSUME NEW c \in CuaClients, CampaignEnds(c) \/ CampaignConnects(c) PROVE CampaignInv'
  <2>1. /\ campaign[c] = "try" /\ UNCHANGED <<child, connected, clientClosed, reconnecting>>
        /\ \E q \in {"done"} \cup Children : campaign' = [campaign EXCEPT ![c] = q]
    BY <1>4 DEF CampaignEnds, CampaignConnects
  <2> QED BY <2>1
<1>5. ASSUME NEW c \in CuaClients, CampaignInstalls(c) PROVE CampaignInv'
  <2>1. /\ campaign[c] \in Children /\ campaign' = [campaign EXCEPT ![c] = "done"]
        /\ UNCHANGED <<clientClosed, reconnecting>>
        /\ \/ UNCHANGED <<child, connected>>
           \/ /\ ~clientClosed[c] /\ child' = [child EXCEPT ![c] = campaign[c]]
              /\ connected' = [connected EXCEPT ![c] = TRUE]
    BY <1>5 DEF CampaignInstalls, TooLate
  <2>2. reconnecting[c] /\ child[c] = NoChild /\ ~connected[c]
    BY <2>1
  <2>3. \A d \in CuaClients \ {c} :
          campaign'[d] = campaign[d] /\ child'[d] = child[d] /\ connected'[d] = connected[d]
    BY <2>1
  <2>4. campaign'[c] = "done" /\ (connected'[c] \/ child'[c] = NoChild)
        /\ (clientClosed[c] => child'[c] = NoChild)
    BY <2>1, <2>2
  <2> QED BY <2>1, <2>2, <2>3, <2>4
<1>6. ASSUME NEW c \in CuaClients, CampaignOver(c) PROVE CampaignInv'
  BY <1>6 DEF CampaignOver
<1>7. ASSUME NEW c \in CuaClients, ClientCloses(c) PROVE CampaignInv'
  <2>1. /\ child' = [child EXCEPT ![c] = NoChild] /\ connected' = [connected EXCEPT ![c] = FALSE]
        /\ clientClosed' = [clientClosed EXCEPT ![c] = TRUE] /\ UNCHANGED <<campaign, reconnecting>>
    BY <1>7 DEF ClientCloses
  <2> QED BY <2>1
<1>8. CASE ReadyNotice \/ StopTakes \/ ShutTakes \/ ChildDies
  BY <1>8 DEF ReadyNotice, StopTakes, ShutTakes, ChildDies, clients
<1> QED BY <1>1, <1>2, <1>3, <1>4, <1>5, <1>6, <1>7, <1>8 DEF CuaNext, CuaCall, Campaign

LEMMA CuaInvariant == CuaSpec => []CuaInv
<1>1. CuaInit => CuaInv
  BY CuaNobody, CuaBound DEF CuaInit, CuaInv, CuaTypeOK, CallsOK, CallPlaces, StartInv, Starting,
     OpenInv, CampaignInv, Made, CuaClients, NoClient
<1>2. CuaInv /\ [CuaNext]_cuaVars => CuaInv'
  <2>1. ASSUME CuaInv, UNCHANGED cuaVars PROVE CuaInv'
    BY <2>1 DEF CuaInv, CuaTypeOK, CallsOK, StartInv, Starting, OpenInv, CampaignInv, Made, cuaVars,
       computer, calls, clients, children
  <2> QED BY <2>1, CuaTypeStep, StartStep, OpenStep, CampaignStep DEF CuaInv
<1> QED BY <1>1, <1>2, PTL DEF CuaSpec

-----------------------------------------------------------------------------
(* Concurrent first uses, a stop and a resume in between: at most one client *)
(* is open, besides those that a Stop is about to close (ensure, Stop).      *)
THEOREM OneClient == CuaSpec => []OneOpenClient
<1>1. CuaInv => OneOpenClient
  BY DEF CuaInv, CuaTypeOK, OpenInv, OneOpenClient, Made
<1> QED BY <1>1, CuaInvariant, PTL

(* A child that an open client, a start or a campaign has, and that lives    *)
(* on, keeps an owner that will close it; only a failed call drops one       *)
(* (StartAdopts, CampaignInstalls, ClientCloses against each other).         *)
THEOREM ChildrenAreOwned == CuaSpec => OnlyACallDropsAChild
<1> DEFINE Kept ==
      \A p \in Children :
         (p \in childAlive /\ Owned(p) /\ p \in childAlive' /\ ~Owned(p)') =>
            \E k \in Callers : caller[k] = "calling" /\ caller'[k] = "idle"
<1>1. ASSUME CuaInv, CuaNext PROVE Kept
  <2> SUFFICES ASSUME NEW p \in Children, p \in childAlive', Owned(p),
                      \A k \in Callers : ~(caller[k] = "calling" /\ caller'[k] = "idle")
               PROVE  Owned(p)'
    OBVIOUS
  <2> USE <1>1, CuaNobody, CuaBound DEF CuaInv, CuaTypeOK, CuaClients, NoClient, Owned
  <2>1. ASSUME NEW k \in Callers, EnsureLooks(k) \/ EnsureLocks(k) \/ StartFails(k)
                                  \/ CallFailsFast(k) \/ CallSends(k)
        PROVE  Owned(p)'
    <3>1. UNCHANGED <<cuaCurrent, clients, toClose>>
      BY <2>1 DEF EnsureLooks, EnsureLocks, StartFails, CallFailsFast, CallSends, computer
    <3>2. caller[k] # "adopt" /\ \A j \in Callers \ {k} : caller'[j] = caller[j] /\ session'[j] = session[j]
      BY <2>1 DEF EnsureLooks, EnsureLocks, StartFails, CallFailsFast, CallSends, FindsClient, Gets,
         Drops, CallGoes, CallsOK
    <3> QED BY <3>1, <3>2 DEF clients
  <2>2. ASSUME NEW k \in Callers, StartConnects(k) PROVE Owned(p)'
    <3>1. caller[k] # "adopt" /\ \A j \in Callers \ {k} : caller'[j] = caller[j] /\ session'[j] = session[j]
      BY <2>2 DEF StartConnects, CallGoes, CallsOK
    <3> QED BY <2>2, <3>1 DEF StartConnects, clients, computer
  <2>3. ASSUME NEW k \in Callers, StartAdopts(k) PROVE Owned(p)'
    <3>1. cuaCurrent = NoClient /\ \A j \in Callers : caller[j] = "adopt" => j = k
      BY <2>3 DEF StartAdopts, StartInv, Starting
    <3>2. UNCHANGED <<clientClosed, campaign, toClose>>
      BY <2>3 DEF StartAdopts
    <3>3. CASE cuaShut
      <4>1. p # session[k] /\ UNCHANGED <<cuaCurrent, clientsMade, child>>
        BY <2>3, <3>3 DEF StartAdopts
      <4> QED BY <3>1, <3>2, <4>1
    <3>4. CASE ~cuaShut
      <4>1. /\ clientsMade' = clientsMade + 1 /\ cuaCurrent' = clientsMade'
            /\ clientsMade' \in CuaClients \ Made
            /\ child' = [child EXCEPT ![clientsMade'] = session[k]]
        BY <2>3, <3>4 DEF StartAdopts, Made
      <4>2. ~clientClosed[clientsMade']
        BY <4>1 DEF OpenInv
      <4>3. CASE p = session[k]
        BY <3>2, <4>1, <4>2, <4>3
      <4>4. CASE p # session[k]
        <5>1. CASE \E c \in 1 .. clientsMade : campaign[c] = p
          BY <3>2, <4>1, <5>1
        <5>2. CASE \E c \in 1 .. clientsMade : child[c] = p /\ ~clientClosed[c] /\ c \in toClose
          <6>1. PICK c \in 1 .. clientsMade : child[c] = p /\ ~clientClosed[c] /\ c \in toClose
            BY <5>2
          <6>2. child'[c] = p
            BY <4>1, <6>1 DEF Made
          <6> QED BY <3>2, <4>1, <6>1, <6>2
        <5> QED BY <3>1, <4>4, <5>1, <5>2
      <4> QED BY <4>3, <4>4
    <3> QED BY <3>3, <3>4
  <2>4. ASSUME NEW k \in Callers, CallAnswers(k) \/ CallErrs(k) PROVE Owned(p)'
    BY <2>4 DEF CallAnswers, CallErrs, Drops, CallGoes, CallsOK
  <2>5. ASSUME NEW c \in CuaClients, CampaignEnds(c) \/ CampaignConnects(c) \/ CampaignOver(c)
        PROVE  Owned(p)'
    <3>1. /\ campaign[c] \notin Children /\ \A d \in CuaClients \ {c} : campaign'[d] = campaign[d]
          /\ UNCHANGED <<computer, calls, clientsMade, child, clientClosed, toClose>>
      BY <2>5 DEF CampaignEnds, CampaignConnects, CampaignOver
    <3> QED BY <3>1 DEF computer, calls
  <2>6. ASSUME NEW c \in CuaClients, CampaignInstalls(c) PROVE Owned(p)'
    <3>1. /\ campaign[c] \in Children /\ campaign' = [campaign EXCEPT ![c] = "done"]
          /\ UNCHANGED <<computer, calls, clientsMade, clientClosed, toClose>>
      BY <2>6 DEF CampaignInstalls
    <3>2. CASE clientClosed[c]
      <4>1. childAlive' = childAlive \ {campaign[c]} /\ UNCHANGED child
        BY <2>6, <3>2 DEF CampaignInstalls, TooLate
      <4> QED BY <3>1, <4>1 DEF computer, calls
    <3>3. CASE ~clientClosed[c]
      <4>1. child' = [child EXCEPT ![c] = campaign[c]] /\ child[c] = NoChild
        BY <2>6, <3>1, <3>3 DEF CampaignInstalls, TooLate, CampaignInv
      <4>2. c \in 1 .. clientsMade /\ (c = cuaCurrent \/ c \in toClose)
        BY <3>1, <3>3 DEF OpenInv, Made
      <4> QED BY <3>1, <3>3, <4>1, <4>2 DEF computer, calls
    <3> QED BY <3>2, <3>3
  <2>7. ASSUME NEW c \in CuaClients, ClientCloses(c) PROVE Owned(p)'
    <3>1. /\ child[c] # p /\ toClose' = toClose \ {c}
          /\ clientClosed' = [clientClosed EXCEPT ![c] = TRUE] /\ child' = [child EXCEPT ![c] = NoChild]
          /\ UNCHANGED <<computer, calls, clientsMade, campaign>>
      BY <2>7 DEF ClientCloses
    <3> QED BY <3>1 DEF computer, calls
  <2>8. CASE StopTakes \/ ShutTakes
    <3>1. /\ UNCHANGED <<calls, clients>> /\ cuaCurrent' = NoClient
          /\ toClose' = IF cuaCurrent = NoClient THEN toClose ELSE toClose \cup {cuaCurrent}
      BY <2>8 DEF StopTakes, ShutTakes, TakesClient
    <3> QED BY <3>1 DEF calls, clients
  <2>9. CASE ReadyNotice \/ ChildDies
    BY <2>9 DEF ReadyNotice, ChildDies, computer, calls, clients
  <2> QED BY <2>1, <2>2, <2>3, <2>4, <2>5, <2>6, <2>7, <2>8, <2>9 DEF CuaNext, CuaCall, Campaign
<1>2. CuaInv /\ [CuaNext]_cuaVars => [Kept]_cuaVars
  BY <1>1
<1> QED BY <1>2, CuaInvariant, PTL DEF CuaSpec, OnlyACallDropsAChild

-----------------------------------------------------------------------------
(* The seat and the calls (agent/internal/cua) *)

\* What a call with the seat is for, and what may be left of it.  When the rest
\* is settled, nothing is left but to wait and to read the page.
Goals == {"desktop", "window", "read", "act", "snapshot", "move", "page", "click", "type", "text"}
Settled == {<<"settle", "state">>, <<"state">>, <<>>}
Left(goal) ==
    CASE goal = "desktop" -> {<<"setDesktop", "picture", "setWindow">>, <<"picture", "setWindow">>,
                              <<"setWindow">>, <<>>}
      [] goal = "window" -> {<<"lookup", "picture">>, <<"picture">>, <<>>}
      [] goal = "read" -> {<<"lookup", "read">>, <<"read">>, <<>>}
      [] goal = "act" -> {<<"lookup", "act">>, <<"act">>, <<>>}
      [] goal = "snapshot" -> {<<"resolve", "snapshot", "frame">>, <<"snapshot", "frame">>,
                               <<"frame">>, <<>>}
      [] goal = "move" -> {<<"resolve", "script">>, <<"script">>,
                           <<"resolve", "script", "settle", "state">>,
                           <<"script", "settle", "state">>} \cup Settled
      [] goal = "page" -> {<<"resolve", "state">>, <<"state">>, <<>>}
      [] goal = "click" -> {<<"resolve", "measure", "frame">>, <<"measure", "frame">>, <<"frame">>,
                            ClickBy("pointer"), ClickBy("clickScript")} \cup Settled
      [] goal = "type" -> {<<"resolve", "touch">>, <<"touch">>,
                           <<"resolve", "touch", "settle", "state">>,
                           <<"touch", "settle", "state">>} \cup Settled
      [] goal = "text" -> {<<"resolve", "look">>, <<"look">>, <<>>}

Todos == UNION {Left(g) : g \in Goals}
Steps == {"setDesktop", "picture", "setWindow", "lookup", "read", "act", "resolve", "snapshot",
          "frame", "script", "settle", "state", "measure", "pointer", "clickScript", "touch", "look"}
CallStates ==
    [goal : {"none", "wait", "queued"} \cup Goals, todo : Todos, live : BOOLEAN, done : BOOLEAN,
     hit : Somewhere, aim : Somewhere, shown : {"none", "window", "desktop"}, failed : {"none"} \cup Steps,
     retry : BOOLEAN]

\* How a set_config fails: with an error of the driver or of the connection, or
\* by the end of the context.
SetConfigFails == {"tool", "lost", "context"}

(* What the variables are. *)
SeatTypeOK ==
    /\ seat \in Agents \cup {NoAgent} /\ taker \in Agents \cup {NoAgent}
    /\ known \in Somewhere /\ hadronRefs \in Somewhere
    /\ link \in {"up", "down", "closed"} /\ scope \in {"window", "desktop"}
    /\ setConfig \in {"answered"} \cup SetConfigFails
    /\ request \in [Agents -> CallStates]

\* Who has the seat runs a program, and only who has it.
OwnerInv ==
    \A k \in Agents :
        /\ Running(k) <=> seat = k
        /\ seat # k => request[k].todo = <<>> /\ request[k].aim = NoElement

\* What is left of the call that has the seat, and what it has done before.
ProgramInv ==
    \A k \in Agents : seat = k =>
        /\ request[k].todo \in Left(request[k].goal)
        /\ request[k].failed # "none" => request[k].todo \in {<<>>, <<"setWindow">>}
        /\ request[k].done => request[k].todo \in Settled
        /\ request[k].done /\ request[k].failed # "none" => request[k].todo = <<>>
        /\ request[k].retry => request[k].failed # "none" /\ (request[k].done => request[k].failed = "state")

\* When the scope is what the call with the seat takes it for.
ScopeInv ==
    /\ link = "up" =>
         \/ scope = "window" \/ setConfig # "answered"
         \/ \E k \in Agents : seat = k /\ request[k].goal = "desktop"
                /\ request[k].todo \in {<<"picture", "setWindow">>, <<"setWindow">>}
    /\ \A k \in Agents : seat = k /\ request[k].goal = "desktop" /\ request[k].failed = "none" =>
         /\ request[k].todo = <<"picture", "setWindow">> => scope = "desktop" /\ link # "down"
         /\ request[k].todo \in {<<"setWindow">>, <<>>} => request[k].shown = "desktop"
    /\ \A k \in Agents : seat = k /\ request[k].goal = "window" /\ request[k].failed = "none" /\ request[k].todo = <<>> =>
         request[k].shown = "window" \/ (setConfig # "answered" /\ link # "down")

\* What the ref of the page names; what was measured is still there; a call that
\* has done its work has done it to the ref its taker knows.
RefInv ==
    /\ taker # NoAgent => hadronRefs \in {known, NoElement}
    /\ \A k \in Agents : request[k].aim # NoElement => request[k].aim = hadronRefs /\ request[k].goal = "click"
    /\ \A k \in Agents : seat = k /\ request[k].goal \in ByRef /\ request[k].failed = "none" /\ request[k].todo \in Settled
         /\ taker = k => request[k].hit = known \/ (request[k].goal = "click" /\ request[k].aim = NoElement)

\* The programs of a call are what may be left of it before its first step.
LEMMA GoalsAre ==
    /\ DOMAIN Programs = Goals
    /\ DOMAIN Browser = {"snapshot", "move", "page", "click", "type", "text"}
    /\ \A goal \in Goals : Programs[goal] \subseteq Left(goal) /\ <<>> \notin Programs[goal]
<1>1. DOMAIN Browser = {"snapshot", "move", "page", "click", "type", "text"}
  BY DEF Browser
<1>2. DOMAIN ComputerUse = {"desktop", "window", "read", "act"}
  BY DEF ComputerUse
<1>3. DOMAIN Programs = Goals
  BY <1>1, <1>2 DEF Programs, Goals
<1>4. /\ \A g \in DOMAIN ComputerUse : Programs[g] = ComputerUse[g]
      /\ \A g \in DOMAIN Browser : Programs[g] = Browser[g]
  BY <1>1, <1>2 DEF Programs
<1>5. \A g \in DOMAIN ComputerUse : ComputerUse[g] \subseteq Left(g) /\ <<>> \notin ComputerUse[g]
  BY <1>2 DEF ComputerUse, Left
<1>6. \A g \in DOMAIN Browser : Browser[g] \subseteq Left(g) /\ <<>> \notin Browser[g]
  BY <1>1 DEF Browser, Left
<1> QED BY <1>1, <1>2, <1>3, <1>4, <1>5, <1>6 DEF Goals

\* A rest of a program by its first step.
Is(todo, step, rest) == todo # <<>> /\ Head(todo) = step /\ Tail(todo) = rest

\* First steps and rests of the programs.
LEMMA Heads ==
    /\ Is(<<"setDesktop", "picture", "setWindow">>, "setDesktop", <<"picture", "setWindow">>)
    /\ Is(<<"picture", "setWindow">>, "picture", <<"setWindow">>)
    /\ Is(<<"setWindow">>, "setWindow", <<>>)
    /\ Is(<<"lookup", "picture">>, "lookup", <<"picture">>)
    /\ Is(<<"picture">>, "picture", <<>>)
    /\ Is(<<"lookup", "read">>, "lookup", <<"read">>)
    /\ Is(<<"read">>, "read", <<>>)
    /\ Is(<<"lookup", "act">>, "lookup", <<"act">>)
    /\ Is(<<"act">>, "act", <<>>)
    /\ Is(<<"resolve", "snapshot", "frame">>, "resolve", <<"snapshot", "frame">>)
    /\ Is(<<"snapshot", "frame">>, "snapshot", <<"frame">>)
    /\ Is(<<"frame">>, "frame", <<>>)
    /\ Is(<<"resolve", "script">>, "resolve", <<"script">>)
    /\ Is(<<"script">>, "script", <<>>)
    /\ Is(<<"resolve", "script", "settle", "state">>, "resolve", <<"script", "settle", "state">>)
    /\ Is(<<"script", "settle", "state">>, "script", <<"settle", "state">>)
    /\ Is(<<"settle", "state">>, "settle", <<"state">>)
    /\ Is(<<"state">>, "state", <<>>)
    /\ Is(<<"resolve", "state">>, "resolve", <<"state">>)
    /\ Is(<<"resolve", "measure", "frame">>, "resolve", <<"measure", "frame">>)
    /\ Is(<<"measure", "frame">>, "measure", <<"frame">>)
    /\ Is(<<"pointer", "settle", "state">>, "pointer", <<"settle", "state">>)
    /\ Is(<<"clickScript", "settle", "state">>, "clickScript", <<"settle", "state">>)
    /\ Is(<<"resolve", "touch">>, "resolve", <<"touch">>)
    /\ Is(<<"touch">>, "touch", <<>>)
    /\ Is(<<"resolve", "touch", "settle", "state">>, "resolve", <<"touch", "settle", "state">>)
    /\ Is(<<"touch", "settle", "state">>, "touch", <<"settle", "state">>)
    /\ Is(<<"resolve", "look">>, "resolve", <<"look">>)
    /\ Is(<<"look">>, "look", <<>>)
BY DEF Is

\* What may be left of a call, by what it is for.
LEMMA TodoIs ==
    ASSUME NEW goal \in Goals, NEW todo \in Left(goal), todo # <<>>
    PROVE  /\ goal = "desktop" => \/ Is(todo, "setDesktop", <<"picture", "setWindow">>)
                                  \/ Is(todo, "picture", <<"setWindow">>)
                                  \/ Is(todo, "setWindow", <<>>)
           /\ goal = "window" => \/ Is(todo, "lookup", <<"picture">>)
                                 \/ Is(todo, "picture", <<>>)
           /\ goal = "read" => Is(todo, "lookup", <<"read">>) \/ Is(todo, "read", <<>>)
           /\ goal = "act" => Is(todo, "lookup", <<"act">>) \/ Is(todo, "act", <<>>)
           /\ goal = "snapshot" => \/ Is(todo, "resolve", <<"snapshot", "frame">>)
                                   \/ Is(todo, "snapshot", <<"frame">>)
                                   \/ Is(todo, "frame", <<>>)
           /\ goal = "move" => \/ Is(todo, "resolve", <<"script">>)
                               \/ Is(todo, "resolve", <<"script", "settle", "state">>)
                               \/ Is(todo, "script", <<>>)
                               \/ Is(todo, "script", <<"settle", "state">>)
                               \/ Is(todo, "settle", <<"state">>)
                               \/ Is(todo, "state", <<>>)
           /\ goal = "click" => \/ Is(todo, "resolve", <<"measure", "frame">>)
                                \/ Is(todo, "measure", <<"frame">>)
                                \/ Is(todo, "frame", <<>>)
                                \/ Is(todo, "pointer", <<"settle", "state">>)
                                \/ Is(todo, "clickScript", <<"settle", "state">>)
                                \/ Is(todo, "settle", <<"state">>)
                                \/ Is(todo, "state", <<>>)
           /\ goal = "type" => \/ Is(todo, "resolve", <<"touch">>)
                               \/ Is(todo, "resolve", <<"touch", "settle", "state">>)
                               \/ Is(todo, "touch", <<>>)
                               \/ Is(todo, "touch", <<"settle", "state">>)
                               \/ Is(todo, "settle", <<"state">>)
                               \/ Is(todo, "state", <<>>)
           /\ goal = "page" => Is(todo, "resolve", <<"state">>) \/ Is(todo, "state", <<>>)
           /\ goal = "text" => Is(todo, "resolve", <<"look">>) \/ Is(todo, "look", <<>>)
<1>1. CASE goal = "desktop"
  BY <1>1, Heads DEF Left
<1>2. CASE goal = "window"
  BY <1>2, Heads DEF Left
<1>3. CASE goal = "read"
  BY <1>3, Heads DEF Left
<1>4. CASE goal = "act"
  BY <1>4, Heads DEF Left
<1>5. CASE goal = "snapshot"
  BY <1>5, Heads DEF Left
<1>6. CASE goal = "page"
  BY <1>6, Heads DEF Left
<1>7. CASE goal = "text"
  BY <1>7, Heads DEF Left
<1>8. CASE goal = "move"
  BY <1>8, Heads DEF Left, Settled
<1>9. CASE goal = "click"
  BY <1>9, Heads DEF Left, Settled, ClickBy
<1>10. CASE goal = "type"
  BY <1>10, Heads DEF Left, Settled
<1> QED BY <1>1, <1>2, <1>3, <1>4, <1>5, <1>6, <1>7, <1>8, <1>9, <1>10

\* What a step leaves to do, and which steps can be whose.
LEMMA LeftSteps ==
    ASSUME NEW goal \in Goals, NEW todo \in Left(goal), todo # <<>>
    PROVE  /\ goal # "click" \/ Head(todo) # "frame" => Tail(todo) \in Left(goal)
           /\ Head(todo) \in {"act", "script", "touch", "clickScript", "pointer", "look", "settle", "state"} =>
                Tail(todo) \in Settled
           /\ todo \in Settled => Head(todo) \in {"settle", "state"}
           /\ Head(todo) \in {"settle", "state"} => goal \in {"move", "page", "click", "type"}
           /\ Head(todo) = "setWindow" => goal = "desktop" /\ todo = <<"setWindow">> /\ Tail(todo) = <<>>
           /\ Head(todo) = "setDesktop" => goal = "desktop" /\ Tail(todo) = <<"picture", "setWindow">>
           /\ Head(todo) = "picture" => \/ goal = "desktop" /\ Tail(todo) = <<"setWindow">>
                                        \/ goal = "window" /\ Tail(todo) = <<>>
<1>1. /\ \A g \in Goals : <<>> \in Left(g)
      /\ \A t \in Settled : t = <<>> \/ Is(t, "settle", <<"state">>) \/ Is(t, "state", <<>>)
  BY Heads DEF Goals, Left, Settled
<1>7. <<"settle", "state">> \in Settled /\ <<"state">> \in Settled /\ <<>> \in Settled
  BY DEF Settled
<1>2. CASE goal \in {"desktop", "window"}
  BY <1>1, <1>2, TodoIs DEF Is, Left, Settled
<1>8. CASE goal \in {"read", "act"}
  BY <1>1, <1>8, TodoIs DEF Is, Left, Settled
<1>3. CASE goal = "snapshot"
  BY <1>1, <1>3, TodoIs DEF Is, Left, Settled
<1>9. CASE goal \in {"page", "text"}
  <2>1. \/ goal = "page" /\ (Is(todo, "resolve", <<"state">>) \/ Is(todo, "state", <<>>))
        \/ goal = "text" /\ (Is(todo, "resolve", <<"look">>) \/ Is(todo, "look", <<>>))
    BY <1>9, TodoIs
  <2>2. <<"state">> \in Left("page") /\ <<"look">> \in Left("text")
    BY DEF Left
  <2> QED BY <1>1, <1>7, <2>1, <2>2 DEF Is, Goals
<1>4. CASE goal = "move"
  <2>1. \/ Is(todo, "resolve", <<"script">>) \/ Is(todo, "resolve", <<"script", "settle", "state">>)
        \/ Is(todo, "script", <<>>) \/ Is(todo, "script", <<"settle", "state">>)
        \/ Is(todo, "settle", <<"state">>) \/ Is(todo, "state", <<>>)
    BY <1>4, TodoIs
  <2>2. {<<"script">>, <<"script", "settle", "state">>} \cup Settled \subseteq Left(goal)
    BY <1>4 DEF Left
  <2> QED BY <1>1, <1>4, <1>7, <2>1, <2>2 DEF Is
<1>5. CASE goal = "click"
  <2>1. \/ Is(todo, "resolve", <<"measure", "frame">>) \/ Is(todo, "measure", <<"frame">>)
        \/ Is(todo, "frame", <<>>)
        \/ Is(todo, "pointer", <<"settle", "state">>) \/ Is(todo, "clickScript", <<"settle", "state">>)
        \/ Is(todo, "settle", <<"state">>) \/ Is(todo, "state", <<>>)
    BY <1>5, TodoIs
  <2>2. {<<"measure", "frame">>, <<"frame">>} \cup Settled \subseteq Left(goal)
    BY <1>5 DEF Left
  <2> QED BY <1>1, <1>5, <1>7, <2>1, <2>2 DEF Is
<1>6. CASE goal = "type"
  <2>1. \/ Is(todo, "resolve", <<"touch">>) \/ Is(todo, "resolve", <<"touch", "settle", "state">>)
        \/ Is(todo, "touch", <<>>) \/ Is(todo, "touch", <<"settle", "state">>)
        \/ Is(todo, "settle", <<"state">>) \/ Is(todo, "state", <<>>)
    BY <1>6, TodoIs
  <2>2. {<<"touch">>, <<"touch", "settle", "state">>} \cup Settled \subseteq Left(goal)
    BY <1>6 DEF Left
  <2> QED BY <1>1, <1>6, <1>7, <2>1, <2>2 DEF Is
<1> QED BY <1>2, <1>3, <1>4, <1>5, <1>6, <1>8, <1>9 DEF Goals

\* What is left of a call after a step that touches the page: only the steps
\* that act on the ref come right before the settled rest.
LEMMA ByRefSteps ==
    ASSUME NEW goal \in Goals, NEW todo \in Left(goal), todo # <<>>
    PROVE  /\ Head(todo) \in {"settle", "state"} /\ goal \in ByRef => todo \in Settled
           /\ Head(todo) = "measure" => goal = "click"
           /\ Head(todo) = "snapshot" => goal = "snapshot"
           /\ Head(todo) \in {"clickScript", "pointer"} => goal = "click"
           /\ goal \in ByRef /\ Tail(todo) \in Settled /\ ~(goal = "click" /\ Head(todo) = "frame") =>
                Head(todo) \in {"touch", "look", "clickScript", "pointer", "settle", "state"}
           /\ goal = "desktop" => Head(todo) \in {"setDesktop", "picture", "setWindow"}
           /\ goal = "window" => Head(todo) \in {"picture", "lookup"}
           /\ goal = "window" /\ Head(todo) = "lookup" => Tail(todo) = <<"picture">>
<1>1. \A t \in Settled : t = <<>> \/ Is(t, "settle", <<"state">>) \/ Is(t, "state", <<>>)
  BY Heads DEF Settled
<1>2. /\ <<"frame">> \notin Settled /\ <<"measure", "frame">> \notin Settled
      /\ <<"touch">> \notin Settled /\ <<"touch", "settle", "state">> \notin Settled
      /\ <<"look">> \notin Settled
  BY <1>1, Heads DEF Is
<1>3. CASE goal = "desktop"
  BY <1>3, TodoIs DEF Is, ByRef
<1>9. CASE goal = "window"
  BY <1>9, TodoIs DEF Is, ByRef
<1>4. CASE goal \in {"read", "act"}
  BY <1>4, TodoIs DEF Is, ByRef
<1>5. CASE goal \in {"snapshot", "move", "page"}
  BY <1>5, TodoIs DEF Is, ByRef
<1>6. CASE goal = "click"
  <2>1. \/ todo \in Settled
        \/ Is(todo, "resolve", <<"measure", "frame">>) \/ Is(todo, "measure", <<"frame">>)
        \/ Is(todo, "frame", <<>>)
        \/ Is(todo, "pointer", <<"settle", "state">>) \/ Is(todo, "clickScript", <<"settle", "state">>)
    BY <1>6, Heads DEF Left, ClickBy
  <2> QED BY <1>1, <1>2, <1>6, <2>1 DEF Is
<1>7. CASE goal = "type"
  <2>1. \/ todo \in Settled
        \/ Is(todo, "resolve", <<"touch">>) \/ Is(todo, "resolve", <<"touch", "settle", "state">>)
        \/ Is(todo, "touch", <<>>) \/ Is(todo, "touch", <<"settle", "state">>)
    BY <1>7, Heads DEF Left
  <2> QED BY <1>1, <1>2, <1>7, <2>1 DEF Is
<1>8. CASE goal = "text"
  <2>1. Is(todo, "resolve", <<"look">>) \/ Is(todo, "look", <<>>)
    BY <1>8, TodoIs
  <2> QED BY <1>2, <1>8, <2>1 DEF Is
<1> QED BY <1>3, <1>4, <1>5, <1>6, <1>7, <1>8, <1>9 DEF Goals

\* Steps of the desktop are of computer_use calls, steps of a page of browser
\* calls.
LEMMA StepOf ==
    ASSUME NEW goal \in Goals, NEW todo \in Left(goal), todo # <<>>
    PROVE  /\ Head(todo) \in Steps
           /\ Head(todo) \in {"picture", "setDesktop", "setWindow", "act"} => goal \notin DOMAIN Browser
           /\ Head(todo) \in {"script", "snapshot", "measure", "touch", "clickScript", "look", "pointer"} =>
                goal \in DOMAIN Browser
<1>0. DOMAIN Browser = {"snapshot", "move", "page", "click", "type", "text"}
  BY GoalsAre
<1>1. CASE goal = "desktop"
  BY <1>0, <1>1, TodoIs DEF Is, Steps
<1>2. CASE goal = "window"
  BY <1>0, <1>2, TodoIs DEF Is, Steps
<1>3. CASE goal = "read"
  BY <1>0, <1>3, TodoIs DEF Is, Steps
<1>4. CASE goal = "act"
  BY <1>0, <1>4, TodoIs DEF Is, Steps
<1>5. CASE goal = "snapshot"
  BY <1>0, <1>5, TodoIs DEF Is, Steps
<1>6. CASE goal = "move"
  BY <1>0, <1>6, TodoIs DEF Is, Steps
<1>7. CASE goal = "page"
  BY <1>0, <1>7, TodoIs DEF Is, Steps
<1>8. CASE goal = "click"
  BY <1>0, <1>8, TodoIs DEF Is, Steps
<1>9. CASE goal = "type"
  BY <1>0, <1>9, TodoIs DEF Is, Steps
<1>10. CASE goal = "text"
  BY <1>0, <1>10, TodoIs DEF Is, Steps
<1> QED BY <1>1, <1>2, <1>3, <1>4, <1>5, <1>6, <1>7, <1>8, <1>9, <1>10 DEF Goals

-----------------------------------------------------------------------------
(* The steps of the call that has the seat *)

SeatInv == SeatTypeOK /\ OwnerInv /\ ProgramInv /\ ScopeInv /\ RefInv

\* The step of k may have had its effect: c is the call, sc the scope and refs
\* the refs after it.  It had it, where the call succeeds.
Effect(k, c, sc, refs) ==
    /\ c \in CallStates /\ sc \in {"window", "desktop"} /\ refs \in Somewhere
    /\ c.goal = request[k].goal /\ c.todo = request[k].todo /\ c.live = request[k].live
    /\ c.failed = request[k].failed /\ c.retry = request[k].retry
    /\ c.done => request[k].done \/ Step(k) \in Mutations
    /\ c.shown = request[k].shown \/ Step(k) = "picture"
    /\ c.aim = request[k].aim \/ (Step(k) = "measure" /\ c.aim = hadronRefs)
    /\ c.hit = request[k].hit \/ Step(k) \in {"touch", "clickScript", "look", "pointer"}
    /\ sc = scope \/ Step(k) \in SetConfig
    /\ refs = hadronRefs \/ Step(k) = "snapshot"
FullEffect(k, c, sc) ==
    /\ Step(k) = "picture" => c.shown = scope
    /\ Step(k) = "setDesktop" => sc = "desktop"
    /\ Step(k) = "setWindow" => sc = "window"
    /\ Step(k) \in {"touch", "clickScript", "look"} => c.hit = hadronRefs
    /\ Step(k) = "pointer" /\ request[k].aim # NoElement => c.hit = request[k].aim

\* A step that is answered had its effect, and nothing else did.
LEMMA ResultIs ==
    ASSUME SeatTypeOK, ProgramInv, NEW k \in Agents, seat = k, Running(k), request[k].todo # <<>>
    PROVE  /\ Effect(k, request[k], scope, hadronRefs)
           /\ Same(k).call = request[k] /\ Same(k).scope = scope /\ Same(k).refs = hadronRefs
           /\ \A r \in Results(k) : Effect(k, r.call, r.scope, r.refs) /\ FullEffect(k, r.call, r.scope)
<1> DEFINE b == request[k]
<1>1. /\ b \in CallStates /\ b.goal \in Goals /\ b.todo \in Left(b.goal)
      /\ scope \in {"window", "desktop"} /\ hadronRefs \in Somewhere
  BY GoalsAre DEF SeatTypeOK, ProgramInv, Running
<1>2. Effect(k, b, scope, hadronRefs)
  BY <1>1 DEF Effect
<1>3. /\ Step(k) \in {"picture", "setDesktop", "setWindow", "act"} => b.goal \notin DOMAIN Browser
      /\ Step(k) \in {"script", "snapshot", "measure", "touch", "clickScript", "look", "pointer"} =>
           b.goal \in DOMAIN Browser
  BY <1>1, StepOf DEF Step
<1>4. Same(k).call = b /\ Same(k).scope = scope /\ Same(k).refs = hadronRefs
  BY DEF Same
<1>e. ASSUME NEW d \in BOOLEAN
      PROVE  /\ [b EXCEPT !.done = d] \in CallStates
             /\ [b EXCEPT !.done = d].goal = b.goal /\ [b EXCEPT !.done = d].todo = b.todo
             /\ [b EXCEPT !.done = d].live = b.live /\ [b EXCEPT !.done = d].failed = b.failed
             /\ [b EXCEPT !.done = d].retry = b.retry /\ [b EXCEPT !.done = d].shown = b.shown
             /\ [b EXCEPT !.done = d].aim = b.aim /\ [b EXCEPT !.done = d].hit = b.hit
  BY <1>1 DEF CallStates
<1> USE DEF Effect, FullEffect, Mutations, SetConfig
<1>5. ASSUME b.goal \notin DOMAIN Browser, NEW r \in DriverDoes(k)
      PROVE  Effect(k, r.call, r.scope, r.refs) /\ FullEffect(k, r.call, r.scope)
  <2>1. CASE Step(k) = "act"
    <3>1. r.call = [b EXCEPT !.done = TRUE] /\ r.scope = scope /\ r.refs = hadronRefs
      BY <1>5, <2>1 DEF DriverDoes, Same
    <3> QED BY <1>1, <1>e, <2>1, <3>1
  <2>2. CASE Step(k) \in SetConfig
    BY <1>1, <1>5, <2>2 DEF DriverDoes, Same, CallStates
  <2>3. CASE Step(k) = "picture"
    BY <1>1, <1>5, <2>3 DEF DriverDoes, Same, CallStates
  <2>4. CASE Step(k) \notin SetConfig \cup {"act", "picture"}
    <3>1. r = Same(k)
      BY <1>5, <2>4 DEF DriverDoes
    <3> QED BY <1>2, <1>3, <1>4, <1>5, <2>4, <3>1
  <2> QED BY <2>1, <2>2, <2>3, <2>4
<1>6. ASSUME b.goal \in DOMAIN Browser, NEW r \in PageDoes(k)
      PROVE  Effect(k, r.call, r.scope, r.refs) /\ FullEffect(k, r.call, r.scope)
  <2>0. Somewhere = Elements \cup {NoElement}
    BY DEF Somewhere
  <2>1. CASE Step(k) = "script"
    <3>1. r.call = [b EXCEPT !.done = TRUE] /\ r.scope = scope /\ r.refs = hadronRefs
      BY <1>6, <2>1 DEF PageDoes, Same
    <3> QED BY <1>1, <1>e, <2>1, <3>1
  <2>2. CASE Step(k) = "snapshot"
    BY <1>1, <1>6, <2>2 DEF PageDoes, Same, CallStates
  <2>3. CASE Step(k) = "measure"
    BY <1>1, <1>6, <2>3 DEF PageDoes, Same, CallStates
  <2>4. CASE Step(k) \in {"touch", "clickScript"}
    <3>1. r = Hits(k, hadronRefs)
      BY <1>6, <2>4 DEF PageDoes
    <3> QED BY <1>1, <1>6, <2>4, <3>1 DEF Hits, Same, CallStates
  <2>5. CASE Step(k) = "look"
    BY <1>1, <1>6, <2>5 DEF PageDoes, Same, CallStates
  <2>6. CASE Step(k) = "pointer"
    <3>1. PICK e \in Somewhere : r = Lands(k, e) /\ (b.aim # NoElement => e = b.aim)
      BY <1>1, <1>6, <2>6 DEF PageDoes, CallStates
    <3> QED BY <1>1, <1>6, <2>6, <3>1 DEF Lands, Same, CallStates
  <2>7. CASE Step(k) \notin {"script", "snapshot", "measure", "touch", "clickScript", "look", "pointer"}
    <3>1. r = Same(k)
      BY <1>6, <2>7 DEF PageDoes
    <3> QED BY <1>2, <1>3, <1>4, <1>6, <2>7, <3>1
  <2> QED BY <2>1, <2>2, <2>3, <2>4, <2>5, <2>6, <2>7
<1> QED BY <1>2, <1>4, <1>5, <1>6 DEF Results

\* The call goes on with what Rest gives, or ends but for what is deferred.
WentOn(k, c) ==
    \E t \in Left(c.goal) :
        /\ request'[k] = [c EXCEPT !.todo = t]
        /\ IF c.goal = "click" /\ Step(k) = "frame"
           THEN t \in {ClickBy("pointer"), ClickBy("clickScript")}
           ELSE t = Tail(request[k].todo)
CutShort(k, c, again) ==
    /\ Step(k) \notin BestEffort
    /\ request'[k] = [goal |-> c.goal, todo |-> Deferred(c), live |-> c.live, done |-> c.done,
                   hit |-> NoElement, aim |-> NoElement, shown |-> "none",
                   failed |-> Step(k), retry |-> again]

\* A call that goes on has one step less, or knows how to click.
LEMMA GoesOnIs ==
    ASSUME SeatTypeOK, ProgramInv, NEW k \in Agents, seat = k, Running(k), request[k].todo # <<>>,
           NEW c \in CallStates, c.goal = request[k].goal, c.todo = request[k].todo,
           NEW usable, GoesOn(k, c, usable)
    PROVE  WentOn(k, c)
<1>1. c.goal \in Goals /\ c.todo \in Left(c.goal)
  BY GoalsAre DEF Running, ProgramInv
<1>2. request'[k] = [c EXCEPT !.todo = Rest(c, usable)]
  BY DEF GoesOn, Becomes, SeatTypeOK
<1>3. CASE c.goal = "click" /\ Step(k) = "frame"
  <2>1. Rest(c, usable) \in {ClickBy("pointer"), ClickBy("clickScript")}
    BY <1>3 DEF Rest, Step
  <2>2. ClickBy("pointer") \in Left("click") /\ ClickBy("clickScript") \in Left("click")
    BY DEF Left
  <2> QED BY <1>2, <1>3, <2>1, <2>2 DEF WentOn
<1>4. CASE ~(c.goal = "click" /\ Step(k) = "frame")
  <2>1. Rest(c, usable) = Tail(request[k].todo)
    BY <1>4 DEF Rest, Step
  <2>2. Tail(request[k].todo) \in Left(c.goal)
    BY <1>1, <1>4, LeftSteps DEF Step
  <2> QED BY <1>2, <1>4, <2>1, <2>2 DEF WentOn
<1> QED BY <1>3, <1>4

LEMMA StopsIs ==
    ASSUME SeatTypeOK, NEW k \in Agents, Step(k) \notin BestEffort, NEW c, NEW again, Stops(k, c, again)
    PROVE  CutShort(k, c, again)
BY DEF Stops, Becomes, Failure, NoCall, CutShort, SeatTypeOK

Works(k) == Settles(k) \/ Replies(k) \/ Unresolved(k) \/ FailsFast(k) \/ Errs(k)

\* Every step of a call had its effect, or may have had it, or was not sent;
\* and each of the three has its own way to leave the call.
LEMMA WorkSteps ==
    ASSUME SeatTypeOK, OwnerInv, ProgramInv, NEW k \in Agents, Works(k)
    PROVE  /\ seat = k /\ Running(k) /\ request[k].todo # <<>> /\ UNCHANGED seat
           /\ request' = [request EXCEPT ![k] = request'[k]]
           /\ Step(k) # "snapshot" => UNCHANGED <<taker, known>>
           /\ \/ UNCHANGED <<taker, known, hadronRefs>>
              \/ Step(k) # "snapshot"
              \/ taker' = NoAgent /\ known' = NoElement
              \/ taker' = k /\ known' = hadronRefs'
           /\ \E c \in CallStates, again \in BOOLEAN :
                /\ Effect(k, c, scope', hadronRefs')
                /\ \/ \* had its effect
                      /\ FullEffect(k, c, scope')
                      /\ link = "up" /\ link' = "up" /\ setConfig' = IF Step(k) \in SetConfig THEN "answered" ELSE setConfig
                      /\ (WentOn(k, c) /\ ~FoundStale(k)) \/ (CutShort(k, c, again) /\ ~again /\ FoundStale(k))
                   \/ \* may have had it
                      /\ link = "up" /\ link' \in {"up", "down"}
                      /\ setConfig' \in IF Step(k) \in SetConfig THEN SetConfigFails ELSE {setConfig}
                      /\ \/ WentOn(k, c) /\ Step(k) \in BestEffort
                         \/ CutShort(k, c, again) /\ (again => Step(k) \in ReadOnly)
                   \/ \* was not sent
                      /\ c = request[k] /\ UNCHANGED <<link, scope, setConfig, hadronRefs>>
                      /\ \/ WentOn(k, c) /\ ((Step(k) \in BestEffort /\ link # "up") \/ Step(k) = "settle")
                         \/ CutShort(k, c, again) /\ (again => Step(k) # "settle")
<1>1. /\ Running(k) /\ request[k].todo # <<>> /\ seat = k /\ seat' = seat
  BY DEF Works, Settles, Replies, Unresolved, FailsFast, Errs, InDriver, OwnerInv
<1>2. /\ request[k] \in CallStates /\ request[k].goal \in Goals /\ Step(k) \in Steps
      /\ Effect(k, request[k], scope, hadronRefs)
  BY <1>1, ResultIs, StepOf, GoalsAre DEF SeatTypeOK, ProgramInv, Running, Step
<1>3. \A x : Becomes(k, x) => request' = [request EXCEPT ![k] = request'[k]]
  BY DEF Becomes, SeatTypeOK
<1>4. /\ \A c, usable : GoesOn(k, c, usable) => request' = [request EXCEPT ![k] = request'[k]]
      /\ \A c, again : Stops(k, c, again) => request' = [request EXCEPT ![k] = request'[k]]
  BY <1>3 DEF GoesOn, Stops
<1>5. ASSUME NEW c \in CallStates, c.goal = request[k].goal, c.todo = request[k].todo,
             NEW usable, GoesOn(k, c, usable)
      PROVE  WentOn(k, c)
  BY <1>1, <1>5, GoesOnIs
<1>6. ASSUME NEW c, NEW again, Stops(k, c, again), Step(k) \notin BestEffort
      PROVE  CutShort(k, c, again)
  BY <1>6, StopsIs
<1>7. CASE Settles(k)
  <2>1. Step(k) = "settle" /\ UNCHANGED <<desktop, browser>> /\ Step(k) \notin BestEffort
    BY <1>7 DEF Settles, BestEffort
  <2>2. request' = [request EXCEPT ![k] = request'[k]]
    BY <1>3, <1>7 DEF Settles
  <2>3. WentOn(k, request[k]) \/ CutShort(k, request[k], FALSE)
    <3>1. CASE Becomes(k, [request[k] EXCEPT !.todo = Tail(@)])
      <4>1. request'[k] = [request[k] EXCEPT !.todo = Tail(request[k].todo)]
        BY <3>1 DEF Becomes, SeatTypeOK
      <4>2. Tail(request[k].todo) \in Left(request[k].goal)
        BY <1>1, <1>2, <2>1, LeftSteps DEF ProgramInv, Step
      <4> QED BY <2>1, <4>1, <4>2 DEF WentOn
    <3>2. CASE Becomes(k, Failure(request[k], "settle", FALSE))
      <4>1. Deferred(request[k]) = <<>>
        BY <2>1 DEF Deferred, Step
      <4> QED BY <2>1, <3>2, <4>1 DEF Becomes, Failure, NoCall, CutShort, SeatTypeOK
    <3> QED BY <1>7, <3>1, <3>2 DEF Settles
  <2> QED BY <1>1, <1>2, <2>1, <2>2, <2>3 DEF desktop, browser
<1>8. CASE Replies(k)
  <2>1. PICK r \in Results(k), usable \in BOOLEAN :
        /\ IF FoundStale(k) THEN Stops(k, r.call, FALSE) ELSE GoesOn(k, r.call, usable)
        /\ scope' = r.scope /\ hadronRefs' = r.refs
        /\ IF Step(k) = "snapshot"
           THEN taker' = k /\ known' = r.refs
           ELSE UNCHANGED <<taker, known>>
    BY <1>8 DEF Replies
  <2>2. link = "up" /\ link' = "up" /\ setConfig' = IF Step(k) \in SetConfig THEN "answered" ELSE setConfig
    BY <1>8 DEF Replies, SetConfig
  <2>3. Effect(k, r.call, scope', hadronRefs') /\ FullEffect(k, r.call, scope')
    BY <1>1, <2>1, ResultIs
  <2>4. r.call \in CallStates /\ r.call.goal = request[k].goal /\ r.call.todo = request[k].todo
    BY <2>3 DEF Effect
  <2>5. CASE FoundStale(k)
    <3>1. Step(k) \notin BestEffort /\ Stops(k, r.call, FALSE)
      BY <2>1, <2>5 DEF FoundStale, BestEffort
    <3>2. CutShort(k, r.call, FALSE)
      BY <3>1, <1>6
    <3> QED BY <1>1, <1>4, <2>1, <2>2, <2>3, <2>4, <2>5, <3>1, <3>2
  <2>6. CASE ~FoundStale(k)
    <3>1. GoesOn(k, r.call, usable)
      BY <2>1, <2>6
    <3>2. WentOn(k, r.call)
      BY <1>5, <2>4, <3>1
    <3> QED BY <1>1, <1>4, <2>1, <2>2, <2>3, <2>4, <2>6, <3>1, <3>2
  <2> QED BY <2>5, <2>6
<1>9. CASE Unresolved(k)
  <2>1. PICK again \in BOOLEAN : Stops(k, request[k], again)
    BY <1>9 DEF Unresolved
  <2>2. Step(k) = "resolve" /\ link = "up" /\ UNCHANGED <<desktop, browser>>
    BY <1>9 DEF Unresolved
  <2>3. CutShort(k, request[k], again)
    <3>1. Step(k) \notin BestEffort
      BY <2>2 DEF BestEffort
    <3> QED BY <1>6, <2>1, <3>1
  <2> QED BY <1>1, <1>2, <1>4, <2>1, <2>2, <2>3 DEF desktop, browser, ReadOnly, SetConfig
<1>10. CASE FailsFast(k)
  <2>1. link # "up" /\ UNCHANGED <<desktop, browser>>
    BY <1>10 DEF FailsFast
  <2>2. CASE Step(k) \in BestEffort
    <3>1. GoesOn(k, request[k], FALSE)
      BY <1>10, <2>2 DEF FailsFast
    <3>2. WentOn(k, request[k])
      BY <1>2, <1>5, <3>1
    <3> QED BY <1>1, <1>2, <1>4, <2>1, <2>2, <3>1, <3>2 DEF desktop, browser
  <2>3. CASE Step(k) \notin BestEffort
    <3>1. Retryable(Step(k), "disconnected") \in BOOLEAN /\ Stops(k, request[k], Retryable(Step(k), "disconnected"))
      BY <1>10, <2>3 DEF FailsFast, Retryable
    <3>2. PICK again \in BOOLEAN : Stops(k, request[k], again) /\ CutShort(k, request[k], again)
      BY <1>6, <2>3, <3>1
    <3>3. Step(k) # "settle"
      BY <1>10 DEF FailsFast, InDriver
    <3> QED BY <1>1, <1>2, <1>4, <2>1, <3>2, <3>3 DEF desktop, browser
  <2> QED BY <2>2, <2>3
<1>11. CASE Errs(k)
  <2>1. PICK error \in {"tool", "lost", "context"}, r \in Results(k) \cup {Same(k)} :
        /\ IF Step(k) \in BestEffort
           THEN GoesOn(k, r.call, FALSE)
           ELSE Stops(k, r.call, error # "tool" /\ Retryable(Step(k), error))
        /\ scope' = r.scope /\ hadronRefs' = r.refs
        /\ link' = IF error = "lost" THEN "down" ELSE link
        /\ setConfig' = IF Step(k) \in SetConfig THEN error ELSE setConfig
    BY <1>11 DEF Errs
  <2>2. /\ link = "up" /\ link' \in {"up", "down"}
        /\ setConfig' \in IF Step(k) \in SetConfig THEN SetConfigFails ELSE {setConfig}
        /\ IF Step(k) = "snapshot" THEN taker' = NoAgent /\ known' = NoElement ELSE UNCHANGED <<taker, known>>
    BY <1>11, <2>1 DEF Errs, SetConfigFails
  <2>3. Effect(k, r.call, scope', hadronRefs')
    BY <1>1, <2>1, ResultIs
  <2>4. r.call \in CallStates /\ r.call.goal = request[k].goal /\ r.call.todo = request[k].todo
    BY <2>3 DEF Effect
  <2>5. CASE Step(k) \in BestEffort
    <3>1. WentOn(k, r.call)
      BY <1>5, <2>1, <2>4, <2>5
    <3> QED BY <1>1, <1>4, <2>1, <2>2, <2>3, <2>4, <2>5, <3>1
  <2>6. CASE Step(k) \notin BestEffort
    <3>1. PICK again \in BOOLEAN : /\ Stops(k, r.call, again)
                                   /\ again => Step(k) \in ReadOnly
      BY <2>1, <2>6 DEF Retryable
    <3>2. CutShort(k, r.call, again)
      BY <1>6, <2>6, <3>1
    <3> QED BY <1>1, <1>4, <2>1, <2>2, <2>3, <2>4, <3>1, <3>2
  <2> QED BY <2>5, <2>6
<1> QED BY <1>7, <1>8, <1>9, <1>10, <1>11 DEF Works

\* The two ways a call is left.
LEMMA Left1 ==
    ASSUME NEW k, NEW c \in CallStates, c.goal \in Goals, WentOn(k, c)
    PROVE  /\ request'[k] \in CallStates /\ request'[k].todo \in Left(c.goal)
           /\ request'[k].goal = c.goal /\ request'[k].done = c.done /\ request'[k].hit = c.hit
           /\ request'[k].aim = c.aim /\ request'[k].shown = c.shown /\ request'[k].failed = c.failed
           /\ request'[k].retry = c.retry
           /\ IF c.goal = "click" /\ Step(k) = "frame"
              THEN request'[k].todo \in {ClickBy("pointer"), ClickBy("clickScript")}
              ELSE request'[k].todo = Tail(request[k].todo)
<1>1. PICK t \in Left(c.goal) :
        /\ request'[k] = [c EXCEPT !.todo = t]
        /\ IF c.goal = "click" /\ Step(k) = "frame"
           THEN t \in {ClickBy("pointer"), ClickBy("clickScript")}
           ELSE t = Tail(request[k].todo)
  BY DEF WentOn
<1>2. t \in Todos
  BY DEF Todos
<1> QED BY <1>1, <1>2 DEF CallStates

LEMMA Left2 ==
    ASSUME NEW k, NEW c \in CallStates, c.goal \in Goals, NEW again \in BOOLEAN,
           Step(k) \in Steps, CutShort(k, c, again)
    PROVE  /\ request'[k] \in CallStates /\ request'[k].todo \in Left(c.goal) /\ request'[k].todo = Deferred(c)
           /\ request'[k].goal = c.goal /\ request'[k].done = c.done /\ request'[k].hit = NoElement
           /\ request'[k].aim = NoElement /\ request'[k].shown = "none" /\ request'[k].failed = Step(k)
           /\ request'[k].retry = again /\ Step(k) \notin BestEffort
<1>1. Deferred(c) \in Left(c.goal)
  BY DEF Deferred, Left, Goals, Settled
<1>2. Deferred(c) \in Todos /\ NoElement \in Somewhere
  BY <1>1 DEF Todos, Somewhere
<1> QED BY <1>1, <1>2 DEF CutShort, CallStates

Idles(k) == Enters(k) \/ ContextEnds(k) \/ LeavesQueue(k)

LEMMA SeatSteps ==
    ASSUME [SeatNext]_seatVars
    PROVE  \/ UNCHANGED seatVars
           \/ \E k \in Agents : Idles(k) \/ TakesSeat(k) \/ Returns(k) \/ Works(k)
           \/ Connects \/ Closes \/ PageChanges
BY DEF SeatNext, Idles, Works

\* What a call does without the seat.
LEMMA IdleSteps ==
    ASSUME SeatTypeOK, NEW k \in Agents, Idles(k)
    PROVE  /\ UNCHANGED <<seat, taker, known, link, scope, setConfig, hadronRefs>>
           /\ request' \in [Agents -> CallStates] /\ \A j \in Agents : j # k => request'[j] = request[j]
           /\ \/ /\ ~Running(k) /\ request'[k].goal \in {"none", "wait", "queued"}
                 /\ request'[k].todo = <<>> /\ request'[k].aim = NoElement
              \/ /\ request'[k].goal = request[k].goal /\ request'[k].todo = request[k].todo
                 /\ request'[k].done = request[k].done /\ request'[k].hit = request[k].hit
                 /\ request'[k].aim = request[k].aim /\ request'[k].shown = request[k].shown
                 /\ request'[k].failed = request[k].failed /\ request'[k].retry = request[k].retry
<1>1. UNCHANGED <<seat, taker, known, link, scope, setConfig, hadronRefs>>
  BY DEF Idles, Enters, ContextEnds, LeavesQueue, desktop, browser
<1>2. <<>> \in Todos /\ NoElement \in Somewhere
  BY DEF Todos, Left, Goals, Somewhere
<1>3. ASSUME NEW c \in CallStates, Becomes(k, c)
      PROVE  /\ request' \in [Agents -> CallStates] /\ request'[k] = c
             /\ \A j \in Agents : j # k => request'[j] = request[j]
  BY <1>3 DEF Becomes, SeatTypeOK
<1>n. NoCall \in CallStates /\ NoCall.goal = "none" /\ NoCall.todo = <<>> /\ NoCall.aim = NoElement
  BY <1>2 DEF NoCall, CallStates
<1>4. CASE Enters(k)
  <2>1. PICK goal \in {"wait", "queued"} : Becomes(k, [NoCall EXCEPT !.goal = goal])
    BY <1>4 DEF Enters
  <2>2. ~Running(k)
    BY <1>4, <1>n, GoalsAre DEF Enters, Running, Goals
  <2>3. /\ [NoCall EXCEPT !.goal = goal] \in CallStates
        /\ [NoCall EXCEPT !.goal = goal].goal = goal /\ [NoCall EXCEPT !.goal = goal].todo = <<>>
        /\ [NoCall EXCEPT !.goal = goal].aim = NoElement
    BY <1>2 DEF NoCall, CallStates
  <2> QED BY <1>1, <1>3, <2>1, <2>2, <2>3
<1>6. CASE LeavesQueue(k)
  <2>1. ~Running(k)
    BY <1>6, GoalsAre DEF LeavesQueue, Queued, Running, Goals
  <2> QED BY <1>1, <1>3, <1>n, <1>6, <2>1 DEF LeavesQueue
<1>5. CASE ContextEnds(k)
  <2>1. Becomes(k, [request[k] EXCEPT !.live = FALSE]) /\ request[k] \in CallStates
    BY <1>5 DEF ContextEnds, SeatTypeOK
  <2>2. [request[k] EXCEPT !.live = FALSE] \in CallStates
    BY <2>1 DEF CallStates
  <2>3. request'[k] = [request[k] EXCEPT !.live = FALSE]
    BY <1>3, <2>1, <2>2
  <2> QED BY <1>1, <1>3, <2>1, <2>2, <2>3 DEF CallStates
<1> QED BY <1>4, <1>5, <1>6 DEF Idles

\* Taking the seat and giving it back.
LEMMA TakeSteps ==
    ASSUME SeatTypeOK, NEW k \in Agents, TakesSeat(k)
    PROVE  /\ UNCHANGED <<taker, known, link, scope, setConfig, hadronRefs>>
           /\ seat = NoAgent /\ seat' = k
           /\ request' \in [Agents -> CallStates] /\ \A j \in Agents : j # k => request'[j] = request[j]
           /\ request'[k].goal \in Goals /\ request'[k].todo \in Left(request'[k].goal) /\ request'[k].todo # <<>>
           /\ request'[k].aim = NoElement /\ ~request'[k].done /\ ~request'[k].retry
           /\ request'[k].failed = "none" /\ request'[k].todo \in Programs[request'[k].goal]
<1>1. PICK goal \in DOMAIN Programs : \E program \in Programs[goal] :
        Becomes(k, [NoCall EXCEPT !.goal = goal, !.todo = program])
  BY DEF TakesSeat
<1>2. PICK program \in Programs[goal] : Becomes(k, [NoCall EXCEPT !.goal = goal, !.todo = program])
  BY <1>1
<1>3. goal \in Goals /\ program \in Left(goal) /\ program # <<>> /\ program \in Todos
  BY GoalsAre DEF Todos
<1>4. [NoCall EXCEPT !.goal = goal, !.todo = program] \in CallStates
  BY <1>3 DEF NoCall, CallStates, Somewhere
<1>5. /\ request' \in [Agents -> CallStates] /\ \A j \in Agents : j # k => request'[j] = request[j]
      /\ request'[k] = [NoCall EXCEPT !.goal = goal, !.todo = program]
  BY <1>2, <1>4 DEF Becomes, SeatTypeOK
<1>6. /\ request'[k].goal = goal /\ request'[k].todo = program /\ request'[k].aim = NoElement
      /\ ~request'[k].done /\ ~request'[k].retry /\ request'[k].failed = "none"
  BY <1>5 DEF NoCall
<1>7. UNCHANGED <<taker, known, link, scope, setConfig, hadronRefs>> /\ seat = NoAgent /\ seat' = k
  BY DEF TakesSeat, desktop, browser
<1> QED BY <1>3, <1>5, <1>6, <1>7

LEMMA ReturnSteps ==
    ASSUME SeatTypeOK, OwnerInv, NEW k \in Agents, Returns(k)
    PROVE  /\ UNCHANGED <<taker, known, link, scope, setConfig, hadronRefs>>
           /\ seat = k /\ seat' = NoAgent /\ request[k].todo = <<>>
           /\ request' \in [Agents -> CallStates] /\ \A j \in Agents : j # k => request'[j] = request[j]
           /\ request'[k].goal = "none" /\ request'[k].todo = <<>> /\ request'[k].aim = NoElement
<1>1. NoCall \in CallStates
  BY DEF NoCall, CallStates, Todos, Left, Goals, Somewhere
<1>2. /\ request' \in [Agents -> CallStates] /\ \A j \in Agents : j # k => request'[j] = request[j]
      /\ request'[k] = NoCall
  BY <1>1 DEF Returns, Becomes, SeatTypeOK
<1>3. UNCHANGED <<taker, known, link, scope, setConfig, hadronRefs>>
      /\ seat = k /\ seat' = NoAgent /\ request[k].todo = <<>>
  BY DEF Returns, Ended, OwnerInv, desktop, browser
<1> QED BY <1>2, <1>3 DEF NoCall

\* A page that changes makes every measure useless, and nothing more.
LEMMA PageSteps ==
    ASSUME SeatTypeOK, PageChanges
    PROVE  /\ UNCHANGED <<seat, taker, known, link, scope, setConfig>>
           /\ hadronRefs' \in {hadronRefs, NoElement} /\ request' \in [Agents -> CallStates]
           /\ \A k \in Agents :
                /\ request'[k].goal = request[k].goal /\ request'[k].todo = request[k].todo
                /\ request'[k].done = request[k].done /\ request'[k].hit = request[k].hit
                /\ request'[k].aim = NoElement /\ request'[k].shown = request[k].shown
                /\ request'[k].failed = request[k].failed /\ request'[k].retry = request[k].retry
<1>1. UNCHANGED <<seat, taker, known, link, scope, setConfig>> /\ hadronRefs' \in {hadronRefs, NoElement}
  BY DEF PageChanges, desktop
<1>2. request' = [k \in Agents |-> [request[k] EXCEPT !.aim = NoElement]]
  BY DEF PageChanges
<1>3. ASSUME NEW c \in CallStates
      PROVE  /\ [c EXCEPT !.aim = NoElement] \in CallStates
             /\ [c EXCEPT !.aim = NoElement].goal = c.goal /\ [c EXCEPT !.aim = NoElement].todo = c.todo
             /\ [c EXCEPT !.aim = NoElement].done = c.done /\ [c EXCEPT !.aim = NoElement].hit = c.hit
             /\ [c EXCEPT !.aim = NoElement].aim = NoElement
             /\ [c EXCEPT !.aim = NoElement].shown = c.shown
             /\ [c EXCEPT !.aim = NoElement].failed = c.failed
             /\ [c EXCEPT !.aim = NoElement].retry = c.retry
  BY DEF CallStates, Somewhere
<1> QED BY <1>1, <1>2, <1>3 DEF SeatTypeOK

\* No program begins where a ref or a picture could already be judged.
LEMMA StartsAre ==
    ASSUME NEW goal \in Goals, NEW program \in Programs[goal]
    PROVE  /\ program \in Left(goal) /\ program # <<>> /\ program \notin Settled
           /\ program \notin {<<"picture", "setWindow">>, <<"setWindow">>}
<1>1. Programs[goal] = IF goal \in DOMAIN Browser THEN Browser[goal] ELSE ComputerUse[goal]
  BY GoalsAre DEF Programs
<1>2. /\ \A t \in Settled : t = <<>> \/ Head(t) \in {"settle", "state"}
      /\ Head(<<"picture", "setWindow">>) = "picture" /\ Tail(<<"picture", "setWindow">>) # <<>>
      /\ Head(<<"setWindow">>) = "setWindow"
  BY Heads DEF Is, Settled
<1>3. CASE goal \in DOMAIN Browser
  <2>1. program # <<>> /\ Head(program) = "resolve"
    BY <1>1, <1>3, GoalsAre, Heads DEF Is, Browser
  <2> QED BY <2>1, <1>2, GoalsAre
<1>4. CASE goal \notin DOMAIN Browser
  <2>1. program # <<>> /\ \/ Head(program) \in {"setDesktop", "lookup", "read", "act"}
                          \/ Head(program) = "picture" /\ Tail(program) = <<>>
    <3>1. goal \in {"desktop", "window", "read", "act"} /\ Programs[goal] = ComputerUse[goal]
      BY <1>1, <1>4, GoalsAre DEF Goals
    <3>2. CASE goal = "desktop"
      BY <3>1, <3>2, Heads DEF Is, ComputerUse
    <3>3. CASE goal = "window"
      <4>1. \/ Is(program, "picture", <<>>) \/ Is(program, "lookup", <<"picture">>)
        BY <3>1, <3>3, Heads DEF ComputerUse
      <4> QED BY <4>1 DEF Is
    <3>4. CASE goal = "read"
      BY <3>1, <3>4, Heads DEF Is, ComputerUse
    <3>5. CASE goal = "act"
      BY <3>1, <3>5, Heads DEF Is, ComputerUse
    <3> QED BY <3>1, <3>2, <3>3, <3>4, <3>5
  <2> QED BY <2>1, <1>2, GoalsAre
<1> QED BY <1>3, <1>4

-----------------------------------------------------------------------------
(* The invariants *)

\* The variables keep their types.
LEMMA SeatTypeStep ==
    ASSUME SeatInv, [SeatNext]_seatVars
    PROVE  SeatTypeOK'
<1> USE DEF SeatInv, SeatTypeOK
<1>1. CASE UNCHANGED seatVars
  BY <1>1 DEF seatVars
<1>2. CASE \E k \in Agents : Idles(k) \/ TakesSeat(k) \/ Returns(k)
  BY <1>2, IdleSteps, TakeSteps, ReturnSteps
<1>3. ASSUME NEW k \in Agents, Works(k) PROVE SeatTypeOK'
  <2>1. /\ seat = k /\ Running(k) /\ request[k].todo # <<>> /\ UNCHANGED seat
        /\ request' = [request EXCEPT ![k] = request'[k]]
        /\ Step(k) # "snapshot" => UNCHANGED <<taker, known>>
        /\ \/ UNCHANGED <<taker, known, hadronRefs>>
           \/ Step(k) # "snapshot"
           \/ taker' = NoAgent /\ known' = NoElement
           \/ taker' = k /\ known' = hadronRefs'
    BY <1>3, WorkSteps
  <2>2. PICK c \in CallStates, again \in BOOLEAN :
          /\ Effect(k, c, scope', hadronRefs')
          /\ WentOn(k, c) \/ CutShort(k, c, again)
          /\ link' \in {"up", "down"} \/ UNCHANGED link
          /\ setConfig' \in {"answered"} \cup SetConfigFails
    BY <1>3, WorkSteps
  <2>3. c.goal \in Goals /\ Step(k) \in Steps
    BY <2>1, <2>2, GoalsAre, StepOf DEF Effect, Running, ProgramInv, Step
  <2>4. request'[k] \in CallStates
    BY <2>2, <2>3, Left1, Left2
  <2>5. request' \in [Agents -> CallStates]
    BY <2>1, <2>4
  <2>6. scope' \in {"window", "desktop"} /\ hadronRefs' \in Somewhere
    BY <2>2 DEF Effect
  <2>7. known' \in Somewhere /\ taker' \in Agents \cup {NoAgent}
    BY <2>1, <2>6 DEF Somewhere
  <2> QED BY <2>1, <2>2, <2>5, <2>6, <2>7
<1>4. CASE Connects \/ Closes
  BY <1>4 DEF Connects, Closes, browser
<1>5. CASE PageChanges
  BY <1>5, PageSteps DEF Somewhere
<1> QED BY <1>1, <1>2, <1>3, <1>4, <1>5, SeatSteps

\* Who runs a program is who has the seat.
LEMMA OwnerStep ==
    ASSUME SeatInv, [SeatNext]_seatVars
    PROVE  OwnerInv'
<1> USE DEF SeatInv
<1>1. CASE UNCHANGED seatVars
  BY <1>1 DEF seatVars, OwnerInv, Running
<1>0. \A k \in Agents : /\ Running(k) <=> request[k].goal \in Goals
                        /\ Running(k)' <=> request'[k].goal \in Goals
  BY GoalsAre DEF Running
<1>2. ASSUME NEW k \in Agents, Idles(k) PROVE OwnerInv'
  <2>1. \A j \in Agents : /\ Running(j)' <=> Running(j)
                          /\ request'[j].todo = request[j].todo \/ (request'[j].todo = <<>> /\ ~Running(j))
                          /\ request'[j].aim = request[j].aim \/ request'[j].aim = NoElement
    BY <1>0, <1>2, IdleSteps DEF Goals
  <2> QED BY <2>1, <1>2, IdleSteps DEF OwnerInv
<1>3. ASSUME NEW k \in Agents, TakesSeat(k) PROVE OwnerInv'
  BY <1>0, <1>3, TakeSteps, SeatAssumption DEF OwnerInv
<1>4. ASSUME NEW k \in Agents, Returns(k) PROVE OwnerInv'
  BY <1>0, <1>4, ReturnSteps, SeatAssumption DEF OwnerInv, Goals
<1>5. ASSUME NEW k \in Agents, Works(k) PROVE OwnerInv'
  <2>1. /\ seat = k /\ Running(k) /\ UNCHANGED seat
        /\ request' = [request EXCEPT ![k] = request'[k]]
    BY <1>5, WorkSteps
  <2>2. PICK c \in CallStates, again \in BOOLEAN :
          /\ Effect(k, c, scope', hadronRefs')
          /\ WentOn(k, c) \/ CutShort(k, c, again)
    BY <1>5, WorkSteps
  <2>3. c.goal \in Goals /\ Step(k) \in Steps
    BY <1>5, <2>1, <2>2, <1>0, StepOf, WorkSteps DEF Effect, ProgramInv, Step
  <2>4. request'[k].goal \in Goals
    BY <2>2, <2>3, Left1, Left2
  <2>5. \A j \in Agents : j # k => request'[j] = request[j]
    BY <2>1 DEF SeatTypeOK
  <2> QED BY <1>0, <2>1, <2>4, <2>5 DEF OwnerInv
<1>6. CASE Connects \/ Closes
  BY <1>6 DEF Connects, Closes, OwnerInv, Running
<1>7. CASE PageChanges
  BY <1>0, <1>7, PageSteps DEF OwnerInv
<1> QED BY <1>1, <1>2, <1>3, <1>4, <1>5, <1>6, <1>7, SeatSteps

\* What is left of a program is a rest of it; after a change only settling
\* and reading are left, and an error leaves nothing but the restore.
LEMMA ProgramStep ==
    ASSUME SeatInv, [SeatNext]_seatVars
    PROVE  ProgramInv'
<1> USE DEF SeatInv
<1>1. CASE UNCHANGED seatVars
  BY <1>1 DEF seatVars, ProgramInv
<1>2. ASSUME NEW k \in Agents, Idles(k) PROVE ProgramInv'
  BY <1>2, IdleSteps DEF ProgramInv, OwnerInv
<1>3. ASSUME NEW k \in Agents, TakesSeat(k) PROVE ProgramInv'
  BY <1>3, TakeSteps DEF ProgramInv
<1>4. ASSUME NEW k \in Agents, Returns(k) PROVE ProgramInv'
  BY <1>4, ReturnSteps, SeatAssumption DEF ProgramInv
<1>5. ASSUME NEW k \in Agents, Works(k) PROVE ProgramInv'
  <2> DEFINE b == request[k]
  <2>1. seat = k /\ Running(k) /\ b.todo # <<>> /\ UNCHANGED seat
    BY <1>5, WorkSteps
  <2>2. PICK c \in CallStates, again \in BOOLEAN :
          /\ Effect(k, c, scope', hadronRefs')
          /\ \/ WentOn(k, c)
             \/ CutShort(k, c, again) /\ (again => (c = b /\ Step(k) # "settle") \/ Step(k) \in ReadOnly)
    BY <1>5, WorkSteps
  <2>3. b.goal \in Goals /\ b.todo \in Left(b.goal) /\ Step(k) \in Steps /\ c.goal = b.goal
    BY <2>1, <2>2, GoalsAre, StepOf DEF Effect, Running, ProgramInv, Step
  <2>4. /\ c.done => b.done \/ Step(k) \in Mutations
        /\ b.done => Step(k) \in {"settle", "state"}
        /\ Step(k) \in Mutations \cup {"settle", "state"} => Tail(b.todo) \in Settled
        /\ b.failed # "none" => Step(k) = "setWindow" /\ Tail(b.todo) = <<>> /\ ~b.done
    <3>1. c.done => b.done \/ Step(k) \in Mutations
      BY <2>2 DEF Effect
    <3>2. b.done => Step(k) \in {"settle", "state"}
      BY <2>1, <2>3, LeftSteps DEF ProgramInv, Step
    <3>3. Step(k) \in Mutations \cup {"settle", "state"} => Tail(b.todo) \in Settled
      BY <2>1, <2>3, LeftSteps DEF Mutations, Step
    <3>4. b.failed # "none" => b.todo = <<"setWindow">> /\ ~b.done
      BY <2>1 DEF ProgramInv
    <3>5. Head(<<"setWindow">>) = "setWindow" /\ Tail(<<"setWindow">>) = <<>>
      BY Heads DEF Is
    <3> QED BY <3>1, <3>2, <3>3, <3>4, <3>5 DEF Step
  <2>5. SUFFICES /\ request'[k].todo \in Left(request'[k].goal)
                 /\ request'[k].failed # "none" => request'[k].todo \in {<<>>, <<"setWindow">>}
                 /\ request'[k].done => request'[k].todo \in Settled
                 /\ request'[k].done /\ request'[k].failed # "none" => request'[k].todo = <<>>
                 /\ request'[k].retry => request'[k].failed # "none" /\ (request'[k].done => request'[k].failed = "state")
    BY <2>1, SeatAssumption DEF ProgramInv
  <2>6. CASE WentOn(k, c)
    <3>1. /\ request'[k].todo \in Left(c.goal) /\ request'[k].goal = c.goal
          /\ request'[k].done = c.done /\ request'[k].failed = c.failed /\ request'[k].retry = c.retry
          /\ (c.goal = "click" /\ Step(k) = "frame") \/ request'[k].todo = Tail(b.todo)
      BY <2>3, <2>6, Left1
    <3>2. c.failed = b.failed /\ c.retry = b.retry /\ (b.retry => b.failed # "none")
      BY <2>1, <2>2 DEF Effect, ProgramInv
    <3> QED BY <2>4, <3>1, <3>2 DEF Mutations
  <2>7. CASE CutShort(k, c, again) /\ (again => (c = b /\ Step(k) # "settle") \/ Step(k) \in ReadOnly)
    <3>1. /\ request'[k].todo \in Left(c.goal) /\ request'[k].todo = Deferred(c)
          /\ request'[k].goal = c.goal /\ request'[k].done = c.done
          /\ request'[k].failed = Step(k) /\ request'[k].retry = again
      BY <2>3, <2>7, Left2
    <3>2. Deferred(c) \in {<<>>, <<"setWindow">>} /\ (Step(k) # "picture" => Deferred(c) = <<>>)
      BY <2>2 DEF Deferred, Effect, Step
    <3>3. Step(k) # "none"
      BY <2>3 DEF Steps
    <3>4. c.done => Step(k) # "picture"
      BY <2>4 DEF Mutations
    <3>5. again /\ c.done => Step(k) = "state"
      BY <2>4, <2>7 DEF Mutations, ReadOnly
    <3> QED BY <3>1, <3>2, <3>3, <3>4, <3>5 DEF Settled
  <2> QED BY <2>2, <2>6, <2>7
<1>6. CASE Connects \/ Closes
  BY <1>6 DEF Connects, Closes, ProgramInv
<1>7. CASE PageChanges
  BY <1>7, PageSteps DEF ProgramInv
<1> QED BY <1>1, <1>2, <1>3, <1>4, <1>5, <1>6, <1>7, SeatSteps

\* What a step of the call that has the seat makes of it.
LEMMA WorkOn ==
    ASSUME SeatInv, NEW k \in Agents, Works(k)
    PROVE  /\ seat = k /\ UNCHANGED seat /\ \A j \in Agents : j # k => request'[j] = request[j]
           /\ request[k].goal \in Goals /\ request[k].todo \in Left(request[k].goal) /\ request[k].todo # <<>>
           /\ Step(k) \in Steps
           /\ Step(k) # "snapshot" => UNCHANGED <<taker, known>>
           /\ \/ UNCHANGED <<taker, known, hadronRefs>>
              \/ Step(k) # "snapshot"
              \/ taker' = NoAgent /\ known' = NoElement
              \/ taker' = k /\ known' = hadronRefs'
<1>1. /\ seat = k /\ Running(k) /\ request[k].todo # <<>> /\ UNCHANGED seat
      /\ request' = [request EXCEPT ![k] = request'[k]]
      /\ Step(k) # "snapshot" => UNCHANGED <<taker, known>>
      /\ \/ UNCHANGED <<taker, known, hadronRefs>>
         \/ Step(k) # "snapshot"
         \/ taker' = NoAgent /\ known' = NoElement
         \/ taker' = k /\ known' = hadronRefs'
  BY WorkSteps DEF SeatInv
<1>2. request[k].goal \in Goals /\ request[k].todo \in Left(request[k].goal)
  BY <1>1, GoalsAre DEF SeatInv, ProgramInv, Running
<1>3. Step(k) \in Steps
  BY <1>1, <1>2, StepOf DEF Step
<1>4. \A j \in Agents : j # k => request'[j] = request[j]
  BY <1>1 DEF SeatInv, SeatTypeOK
<1> QED BY <1>1, <1>2, <1>3, <1>4

\* The capture scope is window but for the picture of a desktop, or a
\* set_config failed since the driver connected.
LEMMA ScopeStep ==
    ASSUME SeatInv, [SeatNext]_seatVars
    PROVE  ScopeInv'
<1> USE DEF SeatInv
<1>1. CASE UNCHANGED seatVars
  BY <1>1 DEF seatVars, ScopeInv
<1>2. ASSUME NEW k \in Agents, Idles(k) PROVE ScopeInv'
  <2>1. \A j \in Agents : seat = j =>
          /\ request'[j].goal = request[j].goal /\ request'[j].todo = request[j].todo
          /\ request'[j].shown = request[j].shown /\ request'[j].failed = request[j].failed
    BY <1>2, IdleSteps DEF OwnerInv
  <2> QED BY <1>2, <2>1, IdleSteps DEF ScopeInv
<1>3. ASSUME NEW k \in Agents, TakesSeat(k) PROVE ScopeInv'
  <2>1. /\ request'[k].todo # <<>> /\ request'[k].todo \notin {<<"picture", "setWindow">>, <<"setWindow">>}
        /\ seat = NoAgent /\ seat' = k /\ UNCHANGED <<link, scope, setConfig>>
    BY <1>3, TakeSteps, StartsAre
  <2> QED BY <2>1, SeatAssumption DEF ScopeInv
<1>4. ASSUME NEW k \in Agents, Returns(k) PROVE ScopeInv'
  <2>1. seat = k /\ seat' = NoAgent /\ request[k].todo = <<>> /\ UNCHANGED <<link, scope, setConfig>>
    BY <1>4, ReturnSteps
  <2>2. <<>> \notin {<<"picture", "setWindow">>, <<"setWindow">>}
    BY Heads DEF Is
  <2> QED BY <2>1, <2>2, SeatAssumption DEF ScopeInv
<1>5. ASSUME NEW k \in Agents, Works(k) PROVE ScopeInv'
  <2> DEFINE b == request[k]
  <2>1. /\ seat = k /\ UNCHANGED seat /\ b.goal \in Goals /\ b.todo \in Left(b.goal)
        /\ b.todo # <<>> /\ Step(k) \in Steps
    BY <1>5, WorkOn
  <2>2. PICK c \in CallStates, again \in BOOLEAN :
          /\ Effect(k, c, scope', hadronRefs')
          /\ \/ /\ FullEffect(k, c, scope')
                /\ link = "up" /\ link' = "up" /\ setConfig' = IF Step(k) \in SetConfig THEN "answered" ELSE setConfig
                /\ WentOn(k, c) \/ (CutShort(k, c, again) /\ FoundStale(k))
             \/ /\ link = "up" /\ link' \in {"up", "down"}
                /\ setConfig' \in IF Step(k) \in SetConfig THEN SetConfigFails ELSE {setConfig}
                /\ (WentOn(k, c) /\ Step(k) \in BestEffort) \/ CutShort(k, c, again)
             \/ /\ UNCHANGED <<link, scope, setConfig>>
                /\ \/ WentOn(k, c) /\ ((Step(k) \in BestEffort /\ link # "up") \/ Step(k) = "settle")
                   \/ CutShort(k, c, again)
    BY <1>5, WorkSteps
  <2>3. /\ c.goal = b.goal /\ c.todo = b.todo /\ c.failed = b.failed
        /\ c.shown = b.shown \/ Step(k) = "picture"
        /\ scope' = scope \/ Step(k) \in SetConfig
    BY <2>2 DEF Effect
  <2>4. WentOn(k, c) =>
          /\ request'[k].goal = b.goal /\ request'[k].shown = c.shown /\ request'[k].failed = b.failed
          /\ b.goal # "click" => request'[k].todo = Tail(b.todo)
    BY <2>1, <2>3, Left1
  <2>5. CutShort(k, c, again) =>
          /\ request'[k].goal = b.goal /\ request'[k].failed # "none" /\ Step(k) \notin BestEffort
          /\ b.goal = "desktop" /\ Step(k) = "picture" => request'[k].todo = <<"setWindow">>
    BY <2>1, <2>3, Left2 DEF Deferred, Step, Steps
  <2>6. /\ b.goal = "desktop" => Step(k) \in {"setDesktop", "picture", "setWindow"}
        /\ b.goal = "window" => Step(k) \in {"picture", "lookup"}
        /\ b.goal = "window" /\ Step(k) = "lookup" => Tail(b.todo) = <<"picture">>
        /\ Step(k) \in SetConfig => b.goal = "desktop"
        /\ Step(k) = "setDesktop" => Tail(b.todo) = <<"picture", "setWindow">>
        /\ Step(k) = "picture" /\ b.goal = "desktop" => Tail(b.todo) = <<"setWindow">>
        /\ Step(k) = "setWindow" => Tail(b.todo) = <<>> /\ b.todo = <<"setWindow">>
    <3>1. /\ b.goal = "desktop" => Step(k) \in {"setDesktop", "picture", "setWindow"}
          /\ b.goal = "window" => Step(k) \in {"picture", "lookup"}
          /\ b.goal = "window" /\ Step(k) = "lookup" => Tail(b.todo) = <<"picture">>
      BY <2>1, ByRefSteps DEF Step
    <3>2. /\ Step(k) = "setWindow" =>
               b.goal = "desktop" /\ b.todo = <<"setWindow">> /\ Tail(b.todo) = <<>>
          /\ Step(k) = "setDesktop" => b.goal = "desktop" /\ Tail(b.todo) = <<"picture", "setWindow">>
          /\ Step(k) = "picture" => \/ b.goal = "desktop" /\ Tail(b.todo) = <<"setWindow">>
                                    \/ b.goal = "window"
      BY <2>1, LeftSteps DEF Step
    <3> QED BY <3>1, <3>2 DEF SetConfig
  <2>7. /\ b.goal = "desktop" /\ Step(k) = "picture" => b.todo = <<"picture", "setWindow">>
        /\ <<"picture">> # <<>> /\ <<"picture", "setWindow">> # <<>>
        /\ <<"picture", "setWindow">> # <<"setWindow">> /\ <<"setWindow">> # <<>>
    <3>1. b.goal = "desktop" => \/ b.todo = <<"picture", "setWindow">>
                                \/ b.todo = <<>>
                                \/ Head(b.todo) \in {"setDesktop", "setWindow"}
      <4>1. b.goal = "desktop" =>
              b.todo \in {<<"setDesktop", "picture", "setWindow">>, <<"picture", "setWindow">>,
                         <<"setWindow">>, <<>>}
        BY <2>1 DEF Left
      <4> QED BY <4>1, Heads DEF Is
    <3> QED BY <2>1, <3>1, Heads DEF Step, Is
  <2>8. /\ link = "up" => \/ scope = "window" \/ setConfig # "answered"
                          \/ b.goal = "desktop" /\ Step(k) \in {"picture", "setWindow"}
        /\ b.goal = "desktop" /\ b.failed = "none" =>
             /\ Step(k) = "picture" => scope = "desktop"
             /\ Step(k) = "setWindow" => b.shown = "desktop"
    BY <2>1, <2>6, <2>7, Heads DEF ScopeInv, Is, Step
  <2>9. link' = "up" => \/ scope' = "window" \/ setConfig' # "answered"
                        \/ request'[k].goal = "desktop"
                             /\ request'[k].todo \in {<<"picture", "setWindow">>, <<"setWindow">>}
    BY <2>2, <2>3, <2>4, <2>5, <2>6, <2>8 DEF FullEffect, FoundStale, SetConfig, SetConfigFails, BestEffort
  <2>10. request'[k].goal = "desktop" /\ request'[k].failed = "none" =>
           /\ request'[k].todo = <<"picture", "setWindow">> => scope' = "desktop" /\ link' # "down"
           /\ request'[k].todo \in {<<"setWindow">>, <<>>} => request'[k].shown = "desktop"
    <3>1. SUFFICES ASSUME b.goal = "desktop", b.failed = "none", WentOn(k, c)
                   PROVE  /\ request'[k].todo = <<"picture", "setWindow">> => scope' = "desktop" /\ link' # "down"
                          /\ request'[k].todo \in {<<"setWindow">>, <<>>} => request'[k].shown = "desktop"
      BY <2>2, <2>4, <2>5
    <3>2. CASE Step(k) \in {"setDesktop", "picture"}
      BY <2>2, <2>4, <2>5, <2>6, <2>7, <2>8, <3>1, <3>2 DEF FullEffect, BestEffort
    <3>3. CASE Step(k) = "setWindow"
      BY <2>3, <2>4, <2>6, <2>7, <2>8, <3>1, <3>3
    <3> QED BY <2>6, <3>1, <3>2, <3>3
  <2>11. request'[k].goal = "window" /\ request'[k].failed = "none" /\ request'[k].todo = <<>> =>
           request'[k].shown = "window" \/ (setConfig' # "answered" /\ link' # "down")
    BY <2>2, <2>3, <2>4, <2>5, <2>6, <2>7, <2>8 DEF FullEffect, BestEffort, SetConfig
  <2> QED BY <2>1, <2>9, <2>10, <2>11 DEF ScopeInv
<1>6. CASE Connects
  BY <1>6, SeatAssumption DEF Connects, ScopeInv
<1>7. CASE Closes
  BY <1>7 DEF Closes, ScopeInv
<1>8. CASE PageChanges
  BY <1>8, PageSteps DEF ScopeInv
<1> QED BY <1>1, <1>2, <1>3, <1>4, <1>5, <1>6, <1>7, <1>8, SeatSteps

\* The ref of the page names what the last taker of a snapshot was told, or
\* nothing, and a measure is of the ref.
LEMMA RefStep ==
    ASSUME SeatInv, [SeatNext]_seatVars
    PROVE  RefInv'
<1> USE DEF SeatInv
<1>1. CASE UNCHANGED seatVars
  BY <1>1 DEF seatVars, RefInv
<1>2. ASSUME NEW k \in Agents, Idles(k) PROVE RefInv'
  <2>1. \A j \in Agents : seat = j =>
          /\ request'[j].goal = request[j].goal /\ request'[j].todo = request[j].todo /\ request'[j].hit = request[j].hit
          /\ request'[j].aim = request[j].aim /\ request'[j].failed = request[j].failed
    BY <1>2, IdleSteps DEF OwnerInv
  <2>2. \A j \in Agents : request'[j].aim # NoElement =>
          request'[j].aim = request[j].aim /\ request'[j].goal = request[j].goal
    BY <1>2, IdleSteps
  <2> QED BY <1>2, <2>1, <2>2, IdleSteps DEF RefInv
<1>3. ASSUME NEW k \in Agents, TakesSeat(k) PROVE RefInv'
  <2>1. request'[k].todo \notin Settled
    BY <1>3, TakeSteps, StartsAre
  <2> QED BY <1>3, <2>1, TakeSteps DEF RefInv
<1>4. ASSUME NEW k \in Agents, Returns(k) PROVE RefInv'
  BY <1>4, ReturnSteps, SeatAssumption DEF RefInv
<1>5. ASSUME NEW k \in Agents, Works(k) PROVE RefInv'
  <2> DEFINE b == request[k]
  <2>1. /\ seat = k /\ UNCHANGED seat /\ b.goal \in Goals /\ b.todo \in Left(b.goal)
        /\ b.todo # <<>> /\ Step(k) \in Steps /\ \A j \in Agents : j # k => request'[j] = request[j]
        /\ Step(k) # "snapshot" => UNCHANGED <<taker, known>>
        /\ \/ UNCHANGED <<taker, known, hadronRefs>>
           \/ Step(k) # "snapshot"
           \/ taker' = NoAgent /\ known' = NoElement
           \/ taker' = k /\ known' = hadronRefs'
    BY <1>5, WorkOn
  <2>2. PICK c \in CallStates, again \in BOOLEAN :
          /\ Effect(k, c, scope', hadronRefs')
          /\ \/ FullEffect(k, c, scope') /\ WentOn(k, c) /\ ~FoundStale(k)
             \/ WentOn(k, c) /\ Step(k) \in BestEffort \cup {"settle"}
             \/ CutShort(k, c, again)
    BY <1>5, WorkSteps
  <2>3. /\ c.goal = b.goal /\ c.failed = b.failed
        /\ c.aim = b.aim \/ (Step(k) = "measure" /\ c.aim = hadronRefs)
        /\ c.hit = b.hit \/ Step(k) \in {"touch", "clickScript", "look", "pointer"}
        /\ hadronRefs' = hadronRefs \/ Step(k) = "snapshot"
    BY <2>2 DEF Effect
  <2>4. WentOn(k, c) =>
          /\ request'[k].goal = b.goal /\ request'[k].hit = c.hit /\ request'[k].aim = c.aim
          /\ request'[k].failed = b.failed
          /\ IF b.goal = "click" /\ Step(k) = "frame"
             THEN request'[k].todo \in {ClickBy("pointer"), ClickBy("clickScript")}
             ELSE request'[k].todo = Tail(b.todo)
    BY <2>1, <2>3, Left1
  <2>5. CutShort(k, c, again) => request'[k].aim = NoElement /\ request'[k].failed # "none"
    BY <2>1, <2>3, Left2 DEF Steps
  <2>6. /\ Step(k) = "measure" => b.goal = "click"
        /\ Step(k) = "snapshot" => b.goal = "snapshot"
        /\ Step(k) \in {"clickScript", "pointer"} => b.goal = "click"
        /\ Step(k) \in {"settle", "state"} /\ b.goal \in ByRef => b.todo \in Settled
        /\ b.goal \in ByRef /\ Tail(b.todo) \in Settled /\ ~(b.goal = "click" /\ Step(k) = "frame") =>
             Step(k) \in {"touch", "look", "clickScript", "pointer", "settle", "state"}
    BY <2>1, ByRefSteps DEF Step
  <2>7. taker' # NoAgent => hadronRefs' \in {known', NoElement}
    BY <2>1, <2>3 DEF RefInv
  <2>8. \A j \in Agents : request'[j].aim # NoElement => request'[j].aim = hadronRefs' /\ request'[j].goal = "click"
    <3>1. \A j \in Agents : j # k => request'[j].aim = NoElement
      BY <2>1 DEF OwnerInv
    <3>2. request'[k].aim # NoElement => request'[k].aim = hadronRefs' /\ request'[k].goal = "click"
      BY <2>2, <2>3, <2>4, <2>5, <2>6 DEF RefInv
    <3> QED BY <3>1, <3>2
  <2>9. ASSUME request'[k].goal \in ByRef, request'[k].failed = "none", request'[k].todo \in Settled, taker' = k
        PROVE  request'[k].hit = known' \/ (request'[k].goal = "click" /\ request'[k].aim = NoElement)
    <3>1. /\ WentOn(k, c)
          /\ \/ FullEffect(k, c, scope') /\ ~FoundStale(k)
             \/ Step(k) \in BestEffort \cup {"settle"}
      BY <2>2, <2>5, <2>9
    <3>2. ~(b.goal = "click" /\ Step(k) = "frame")
      <4>1. ClickBy("pointer") \notin Settled /\ ClickBy("clickScript") \notin Settled
        BY Heads DEF ClickBy, Settled, Is
      <4> QED BY <2>4, <2>9, <3>1, <4>1
    <3>3. /\ b.goal \in ByRef /\ b.failed = "none" /\ Tail(b.todo) \in Settled
          /\ request'[k].hit = c.hit /\ request'[k].aim = c.aim /\ request'[k].goal = b.goal
      BY <2>4, <2>9, <3>1, <3>2
    <3>4. Step(k) \in {"touch", "look", "clickScript", "pointer", "settle", "state"}
      BY <2>6, <3>2, <3>3
    <3>5. /\ taker = k /\ taker # NoAgent /\ UNCHANGED <<known, hadronRefs>> /\ c.aim = b.aim
          /\ hadronRefs \in {known, NoElement}
      BY <2>1, <2>3, <2>9, <3>4, SeatAssumption DEF RefInv
    <3>6. CASE Step(k) \in {"settle", "state"}
      BY <2>1, <2>3, <2>6, <3>3, <3>5, <3>6 DEF RefInv
    <3>7. CASE Step(k) \in {"touch", "look"}
      BY <3>1, <3>3, <3>5, <3>7 DEF FullEffect, FoundStale, Stale, BestEffort
    <3>8. CASE Step(k) \in {"clickScript", "pointer"}
      <4>1. FullEffect(k, c, scope') /\ b.goal = "click"
        BY <2>6, <3>1, <3>8 DEF BestEffort
      <4>2. b.aim # NoElement => b.aim = hadronRefs
        BY DEF RefInv
      <4> QED BY <3>3, <3>5, <3>8, <4>1, <4>2 DEF FullEffect
    <3> QED BY <3>4, <3>6, <3>7, <3>8
  <2> QED BY <2>1, <2>7, <2>8, <2>9 DEF RefInv
<1>6. CASE Connects \/ Closes
  BY <1>6 DEF Connects, Closes, browser, RefInv
<1>7. CASE PageChanges
  BY <1>7, PageSteps DEF RefInv
<1> QED BY <1>1, <1>2, <1>3, <1>4, <1>5, <1>6, <1>7, SeatSteps

\* An empty seat is sound.
LEMMA SeatBegins ==
    ASSUME SeatInit
    PROVE  SeatInv
<1>1. NoCall \in CallStates
  BY DEF NoCall, CallStates, Todos, Left, Goals, Somewhere
<1>2. /\ seat = NoAgent /\ taker = NoAgent /\ known = NoElement /\ link = "up" /\ scope = "window"
      /\ setConfig = "answered" /\ hadronRefs = NoElement /\ request \in [Agents -> CallStates]
      /\ \A k \in Agents : request[k] = NoCall
  BY <1>1 DEF SeatInit
<1>3. /\ NoCall.goal = "none" /\ NoCall.todo = <<>> /\ NoCall.aim = NoElement
      /\ "none" \notin Goals
  BY DEF NoCall, Goals
<1>4. \A k \in Agents : seat # k /\ ~Running(k)
  BY <1>2, <1>3, SeatAssumption, GoalsAre DEF Running
<1>5. SeatTypeOK
  BY <1>2 DEF SeatTypeOK, Somewhere
<1> QED BY <1>2, <1>3, <1>4, <1>5 DEF SeatInv, OwnerInv, ProgramInv, ScopeInv, RefInv

\* Whatever fails in a call, before its effect or after it, and whatever the
\* page and the driver do in between, the seat is sound.
THEOREM SeatIsSound == SeatSpec => []SeatInv
<1>1. ASSUME SeatInv, [SeatNext]_seatVars PROVE SeatInv'
  BY <1>1, SeatTypeStep, OwnerStep, ProgramStep, ScopeStep, RefStep DEF SeatInv
<1> QED BY <1>1, SeatBegins, PTL DEF SeatSpec

\* A desktop picture that succeeds is of the desktop, the driver is back at
\* window scope between calls when it answered the last set_config, and what is
\* typed or read by ref was typed into or read from the element that the last
\* snapshot showed, or the call fails (adapter.go, browser.go).
THEOREM SuccessIsTrue == SeatSpec => []OkIsTrue
<1>1. SeatInv => OkIsTrue
  <2> SUFFICES ASSUME SeatInv PROVE OkIsTrue
    OBVIOUS
  <2>1. \A k \in Agents : Ended(k) => seat = k /\ request[k].todo = <<>>
    BY DEF SeatInv, OwnerInv, Ended
  <2>2. DesktopIsShown
    BY <2>1 DEF SeatInv, ScopeInv, DesktopIsShown, Succeeds
  <2>3. ScopeIsRestored
    BY SeatAssumption DEF SeatInv, ScopeInv, ScopeIsRestored
  <2>4. RefHits
    BY <2>1 DEF SeatInv, RefInv, RefHits, Succeeds, Settled, ByRef
  <2> QED BY <2>2, <2>3, <2>4 DEF OkIsTrue
<1> QED BY <1>1, SeatIsSound, PTL

\* A mutating sub-call that fails with leave to try again was never sent: the
\* call has changed nothing, whatever was lost, answered with an error or cut
\* off by the end of the context (classifyErr, adapter.go).
THEOREM RetriesAreSafe == SeatSpec => []RetryIsSafe
<1>1. SeatInv => RetryIsSafe
  BY DEF SeatInv, OwnerInv, ProgramInv, RetryIsSafe, Ended, Mutations
<1> QED BY <1>1, SeatIsSound, PTL
===============================================================================
