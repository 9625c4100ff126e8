-------------------------- MODULE UpdateWatch_proofs --------------------------
(***************************************************************************)
(* The safety of the update service on the bus and of the programs that    *)
(* follow it, for any number of trays and installers, jobs and restarts.   *)
(***************************************************************************)
EXTENDS UpdateWatch, TLAPS

States == {"idle", "error"} \cup Busy \cup Words
TrayPlaces == {"dial", "dialled", "watching", "check", "checking", "peeking", "status"}
InstallerPlaces == {"reviewed", "apply", "applying", "follow", "done"}
Views == States \cup {"down", "refused", "lost", "gone"}

ServiceOK ==
    /\ proc \in {"none", "up", "closing"}
    /\ state \in States
    /\ job \in Clients \cup {NoClient}
    /\ marker \in Words \cup {"none"} /\ outcome \in {"none", "failed", "installed"}
    /\ events \in Seq(States) /\ batch \in Seq(States)
    /\ delivering \in BOOLEAN
    /\ inside \subseteq Clients

ClientsOK ==
    /\ pc \in [Clients -> TrayPlaces \cup InstallerPlaces]
    /\ \A c \in Trays : pc[c] \in TrayPlaces
    /\ \A c \in Installers : pc[c] \in InstallerPlaces
    /\ tries \in [Clients -> {0, 1}]
    /\ view \in [Clients -> Views]
    /\ inbox \in [Clients -> Seq(States \cup {"ownerLost"})]
    /\ last \in [Clients -> {"", "job", "other", "absent"}]
    /\ started \in [Clients -> BOOLEAN]

\* Whose job a state is, and who is inside a call.
JobInv ==
    /\ state \in Busy => job # NoClient
    /\ job # NoClient =>
        /\ proc = "up"
        /\ \/ job \in Trays /\ state = "checking" /\ pc[job] = "checking"
           \/ job \in Installers /\ state \in {"inspecting", "applying"}
    /\ \A c \in Clients : c \in inside <=> pc[c] \in {"checking", "peeking", "applying"}
    /\ proc = "none" => state = "idle" /\ events = <<>> /\ batch = <<>>
    /\ proc # "up" => inside = {}

\* Only what was installed is called so, and with an outcome, or a marker that is
\* left from before it, no other install is started.
MarkerInv ==
    /\ state = "installed" \/ marker = "installed" => outcome = "installed"
    /\ marker # "none" => state \in Words \cup {"applying"} \/ proc = "none"
    /\ outcome # "none" => marker # "none" /\ state # "applying"
    /\ state = "applying" => marker = "started"

\* Whoever heard that an image is installed heard it of one that is.
HeardInv ==
    (\/ Contains(events, "installed") \/ Contains(batch, "installed")
     \/ \E c \in Clients : Contains(inbox[c], "installed")
     \/ \E c \in Installers : view[c] = "installed")
    => outcome = "installed"

\* The newest event under way is the state; with none under way, it is what a
\* tray shows that has seen a status since it subscribed.
NewestInQueue ==
    /\ events # <<>> => events[Len(events)] = state
    /\ events = <<>> /\ batch # <<>> => batch[Len(batch)] = state
NewestAt(c) ==
    events = <<>> /\ batch = <<>> =>
        /\ inbox[c] # <<>> => inbox[c][Len(inbox[c])] = state
        /\ inbox[c] = <<>> /\ last[c] \in {"job", "other"} => view[c] = state
TrayInv ==
    /\ NewestInQueue
    /\ \A c \in Trays : Subscribed(c) =>
        /\ proc # "none" => NewestAt(c)
        /\ proc = "none" => inbox[c] = <<>> /\ last[c] \in {"", "absent"}

WatchInv == ServiceOK /\ ClientsOK /\ JobInv /\ MarkerInv /\ HeardInv /\ DeliverAwake /\ TrayInv
-----------------------------------------------------------------------------
(* Sequences: what taking the first message, or adding one, does to them.   *)

LEMMA TakeOne ==
    ASSUME NEW S, NEW s \in Seq(S), s # <<>>
    PROVE  /\ Head(s) \in S /\ Tail(s) \in Seq(S)
           /\ Contains(s, Head(s))
           /\ Tail(s) # <<>> => Tail(s)[Len(Tail(s))] = s[Len(s)]
           /\ Tail(s) = <<>> => Head(s) = s[Len(s)]
           /\ \A e : Contains(Tail(s), e) => Contains(s, e)
           /\ \A e : Contains(s, e) => Contains(Tail(s), e) \/ e = Head(s)
<1>1. Len(s) \in Nat \ {0} /\ Head(s) = s[1] /\ Len(Tail(s)) = Len(s) - 1
  OBVIOUS
<1>2. \A i \in 1 .. Len(Tail(s)) : Tail(s)[i] = s[i + 1]
  OBVIOUS
<1>3. Head(s) \in S /\ Tail(s) \in Seq(S) /\ Contains(s, Head(s))
  BY <1>1 DEF Contains
<1>4. Tail(s) # <<>> => Tail(s)[Len(Tail(s))] = s[Len(s)]
  BY <1>1, <1>2, <1>3
<1>5. ASSUME Tail(s) = <<>> PROVE Head(s) = s[Len(s)]
  <2>1. Len(<<>>) = 0
    OBVIOUS
  <2>2. Len(Tail(s)) = 0
    BY <1>5, <2>1, Zenon
  <2>3. Len(s) = 1
    <3>1. Len(s) - 1 = 0
      BY <1>1, <2>2, Zenon
    <3>2. Len(s) \in Nat
      OBVIOUS
    <3> QED BY <3>1, <3>2
  <2> QED BY <1>1, <2>3
<1>6. ASSUME NEW e, Contains(Tail(s), e) PROVE Contains(s, e)
  <2>1. PICK i \in 1 .. Len(Tail(s)) : Tail(s)[i] = e
    BY <1>6 DEF Contains
  <2>2. i + 1 \in 1 .. Len(s) /\ s[i + 1] = e
    BY <1>1, <1>2, <2>1
  <2> QED BY <2>2 DEF Contains
<1>7. ASSUME NEW e, Contains(s, e), e # Head(s) PROVE Contains(Tail(s), e)
  <2>1. PICK i \in 1 .. Len(s) : s[i] = e
    BY <1>7 DEF Contains
  <2>2. i - 1 \in 1 .. Len(Tail(s))
    BY <1>1, <1>7, <2>1
  <2>3. Tail(s)[i - 1] = e
    BY <1>1, <1>2, <2>1, <2>2
  <2> QED BY <2>2, <2>3 DEF Contains
<1> QED BY <1>3, <1>4, <1>5, <1>6, <1>7

LEMMA AddOne ==
    ASSUME NEW S, NEW s \in Seq(S), NEW e \in S
    PROVE  /\ Append(s, e) \in Seq(S)
           /\ Append(s, e) # <<>>
           /\ Append(s, e)[Len(Append(s, e))] = e
           /\ \A f : Contains(Append(s, e), f) <=> Contains(s, f) \/ f = e
<1>1. /\ Append(s, e) \in Seq(S) /\ Append(s, e) # <<>>
      /\ Append(s, e)[Len(Append(s, e))] = e /\ Len(Append(s, e)) = Len(s) + 1
      /\ Len(s) \in Nat
  OBVIOUS
<1>2. \A i \in 1 .. Len(s) : Append(s, e)[i] = s[i]
  OBVIOUS
<1>3. ASSUME NEW f, Contains(Append(s, e), f) PROVE Contains(s, f) \/ f = e
  <2>1. PICK i \in 1 .. Len(Append(s, e)) : Append(s, e)[i] = f
    BY <1>3 DEF Contains
  <2>2. CASE i = Len(Append(s, e))
    BY <1>1, <2>1, <2>2
  <2>3. CASE i # Len(Append(s, e))
    <3>1. i \in 1 .. Len(s) /\ s[i] = f
      BY <1>1, <1>2, <2>1, <2>3
    <3> QED BY <3>1 DEF Contains
  <2> QED BY <2>2, <2>3
<1>4. ASSUME NEW f, Contains(s, f) PROVE Contains(Append(s, e), f)
  <2>1. PICK i \in 1 .. Len(s) : s[i] = f
    BY <1>4 DEF Contains
  <2>2. i \in 1 .. Len(Append(s, e)) /\ Append(s, e)[i] = f
    BY <1>1, <1>2, <2>1
  <2> QED BY <2>2 DEF Contains
<1>5. Contains(Append(s, e), e)
  <2>1. Len(Append(s, e)) \in 1 .. Len(Append(s, e))
    BY <1>1
  <2> QED BY <1>1, <2>1 DEF Contains
<1> QED BY <1>1, <1>3, <1>4, <1>5

LEMMA NothingIn ==
    /\ \A e : ~Contains(<<>>, e)
    /\ \A S : <<>> \in Seq(S)
BY DEF Contains

InOrder(v, a, b, d) == <<v>> \o a \o b \o d

\* The last of three sequences put together is the last of the last that is not
\* empty.
LEMMA LastOfAll ==
    ASSUME NEW S, NEW v \in S, NEW a \in Seq(S), NEW b \in Seq(S), NEW d \in Seq(S)
    PROVE  /\ d # <<>> => Last(InOrder(v, a, b, d)) = d[Len(d)]
           /\ d = <<>> /\ b # <<>> => Last(InOrder(v, a, b, d)) = b[Len(b)]
           /\ d = <<>> /\ b = <<>> /\ a # <<>> => Last(InOrder(v, a, b, d)) = a[Len(a)]
           /\ d = <<>> /\ b = <<>> /\ a = <<>> => Last(InOrder(v, a, b, d)) = v
<1>1. <<v>> \in Seq(S) /\ <<v>> # <<>> /\ <<v>>[Len(<<v>>)] = v
  OBVIOUS
<1>2. ASSUME NEW p \in Seq(S), NEW q \in Seq(S), p # <<>>
      PROVE  /\ p \o q \in Seq(S) /\ p \o q # <<>>
             /\ q # <<>> => (p \o q)[Len(p \o q)] = q[Len(q)]
             /\ q = <<>> => (p \o q)[Len(p \o q)] = p[Len(p)]
  BY <1>2
<1>3. /\ <<v>> \o a \in Seq(S) /\ <<v>> \o a # <<>>
      /\ (<<v>> \o a)[Len(<<v>> \o a)] = IF a # <<>> THEN a[Len(a)] ELSE v
  BY <1>1, <1>2
<1>4. /\ (<<v>> \o a) \o b \in Seq(S) /\ (<<v>> \o a) \o b # <<>>
      /\ b # <<>> => ((<<v>> \o a) \o b)[Len((<<v>> \o a) \o b)] = b[Len(b)]
      /\ b = <<>> => ((<<v>> \o a) \o b)[Len((<<v>> \o a) \o b)]
                        = (<<v>> \o a)[Len(<<v>> \o a)]
  BY <1>2, <1>3
<1>5. /\ d # <<>> => Last(<<v>> \o a \o b \o d) = d[Len(d)]
      /\ d = <<>> => Last(<<v>> \o a \o b \o d) = ((<<v>> \o a) \o b)[Len((<<v>> \o a) \o b)]
  BY <1>2, <1>4 DEF Last
<1> QED BY <1>3, <1>4, <1>5 DEF InOrder
-----------------------------------------------------------------------------
(* One lemma for each part of the invariant. *)

\* What is queued stays a sequence of states.
LEMMA ServiceStep ==
    ASSUME WatchInv, WatchNext
    PROVE  ServiceOK'
<1> USE WatchClients DEF WatchInv, ServiceOK, JobInv, States, Words, Busy, Clients
<1>1. <<>> \in Seq(States)
  OBVIOUS
<1>2. ASSUME NEW s \in States, SetState(s)
      PROVE  state' \in States /\ events' \in Seq(States) /\ delivering' \in BOOLEAN
  BY <1>2, AddOne DEF SetState
<1>3. CASE Service
  <2>1. CASE Activate
    BY <1>3, <2>1 DEF Activate, queue, counts, disk
  <2>2. CASE TryClose
    BY <1>3, <2>2 DEF TryClose, daemon, disk, queue, counts
  <2>3. CASE Release
    BY <1>1, <1>3, <2>3 DEF Release, ProcessEnds, disk
  <2>4. CASE Die
    BY <1>1, <1>3, <2>4 DEF Die, ProcessEnds, disk
  <2> QED BY <1>3, <2>1, <2>2, <2>3, <2>4 DEF Service
<1>4. CASE Deliver
  <2>1. CASE DeliverTakes
    BY <1>1, <1>4, <2>1 DEF DeliverTakes, TakeEvents, daemon, disk, service
  <2>2. CASE DeliverEnds
    BY <1>4, <2>2 DEF DeliverEnds, daemon, disk, service
  <2>3. CASE Emit
    <3>1. batch' \in Seq(States)
      BY <2>3, TakeOne DEF Emit
    <3> QED BY <2>3, <3>1 DEF Emit, daemon, disk, service
  <2> QED BY <1>4, <2>1, <2>2, <2>3 DEF Deliver
<1>5. CASE Job \/ Cancel
  BY <1>2, <1>5 DEF Job, JobRefused, JobCommits, JobEnds, Cancel, service, disk
<1>6. ASSUME NEW c \in Clients, Request(c) PROVE ServiceOK'
  <2>1. CASE Exiting(c)
    BY <2>1 DEF Exiting, daemon, disk, queue, service
  <2>2. CASE Dial(c) \/ CheckReads(c) \/ ApplyEnters(c)
    BY <1>6, <2>2 DEF Dial, CheckReads, ApplyEnters, Reached, daemon, disk, queue, service
  <2>3. CASE CheckEnters(c)
    BY <1>2, <1>6, <2>3 DEF CheckEnters, Reached, daemon, disk, queue
  <2>4. CASE CheckEnds(c)
    BY <1>2, <1>6, <2>4 DEF CheckEnds, Leave, disk
  <2>5. CASE PeekEnds(c)
    BY <1>2, <1>6, <2>5 DEF PeekEnds, Leave, disk
  <2>6. CASE ApplyEnds(c)
    BY <1>2, <1>6, <2>6 DEF ApplyEnds, Leave, daemon, disk, queue
  <2> QED BY <1>6, <2>1, <2>2, <2>3, <2>4, <2>5, <2>6 DEF Request
<1>7. ASSUME NEW c \in Clients, CheckDue(c) \/ Watcher(c) PROVE ServiceOK'
  BY <1>7 DEF CheckDue, Watcher, WatchStarts, Signal, Poll, ServiceGone, daemon, disk, queue, service
<1> QED BY <1>3, <1>4, <1>5, <1>6, <1>7 DEF WatchNext

\* The parts of a client: its place, its view and its messages.
LEMMA ClientsStep ==
    ASSUME WatchInv, WatchNext
    PROVE  ClientsOK'
<1> USE WatchClients DEF WatchInv, ClientsOK, Clients
<1>1. state \in States
  BY DEF ServiceOK
<1>2. <<>> \in Seq(States \cup {"ownerLost"})
  BY NothingIn
<1>a. ASSUME NEW c \in Clients, FreshWatch(c) \/ UNCHANGED watch
      PROVE  /\ inbox' \in [Clients -> Seq(States \cup {"ownerLost"})]
             /\ last' \in [Clients -> {"", "job", "other", "absent"}]
  <2>1. CASE FreshWatch(c)
    <3>1. inbox' = [inbox EXCEPT ![c] = <<>>] /\ last' = [last EXCEPT ![c] = ""]
      BY <2>1 DEF FreshWatch
    <3>2. inbox' \in [Clients -> Seq(States \cup {"ownerLost"})]
      BY <1>2, <3>1
    <3>3. last' \in [Clients -> {"", "job", "other", "absent"}]
      BY <3>1
    <3> QED BY <3>2, <3>3
  <2>2. CASE UNCHANGED watch
    BY <2>2 DEF watch
  <2> QED BY <1>a, <2>1, <2>2
<1>b. ASSUME NEW c \in Clients, NEW s \in Views, Shows(c, s) \/ UNCHANGED view
      PROVE  view' \in [Clients -> Views]
  BY <1>b DEF Shows
<1>c. "error" \in Views /\ States \subseteq Views /\ "refused" \in Views /\ "gone" \in Views /\ "down" \in Views
  BY DEF Views, States
<1>3. CASE Service
  <2>1. CASE Activate \/ TryClose
    BY <2>1 DEF Activate, TryClose, watch, client
  <2>2. ASSUME ProcessEnds PROVE inbox' \in [Clients -> Seq(States \cup {"ownerLost"})]
    <3>1. ASSUME NEW c \in Clients
          PROVE  Append(inbox[c], "ownerLost") \in Seq(States \cup {"ownerLost"})
      BY AddOne
    <3> QED BY <1>2, <2>2, <3>1 DEF ProcessEnds
  <2>3. CASE Release
    BY <2>2, <2>3 DEF Release, ProcessEnds, client
  <2>4. CASE Die
    <3>1. pc' \in [Clients -> TrayPlaces \cup InstallerPlaces]
      BY <2>4 DEF Die, Interrupted, TrayPlaces, InstallerPlaces
    <3>2. ASSUME NEW c \in Clients PROVE pc'[c] \in IF c \in Trays THEN TrayPlaces ELSE InstallerPlaces
      BY <2>4 DEF Die, Interrupted, TrayPlaces, InstallerPlaces
    <3>3. view' \in [Clients -> Views]
      BY <2>4 DEF Die, Interrupted, Views
    <3> QED BY <2>2, <2>4, <3>1, <3>2, <3>3 DEF Die, ProcessEnds
  <2> QED BY <1>3, <2>1, <2>3, <2>4 DEF Service
<1>4. CASE Deliver
  <2>1. CASE DeliverTakes \/ DeliverEnds
    BY <2>1 DEF DeliverTakes, DeliverEnds, watch, client
  <2>2. CASE Emit
    <3>1. Head(batch) \in States
      BY <2>2, TakeOne DEF Emit, ServiceOK
    <3>2. ASSUME NEW c \in Clients
          PROVE  Append(inbox[c], Head(batch)) \in Seq(States \cup {"ownerLost"})
      BY <3>1, AddOne
    <3> QED BY <2>2, <3>2 DEF Emit, client
  <2> QED BY <1>4, <2>1, <2>2 DEF Deliver
<1>5. CASE Job \/ Cancel
  BY <1>5 DEF Job, JobRefused, JobCommits, JobEnds, Cancel, watch, client
<1>6. ASSUME NEW c \in Clients, Request(c) PROVE ClientsOK'
  <2> USE DEF Reached, Goto, watch, TrayPlaces, InstallerPlaces
  <2>1. CASE Exiting(c)
    <3>1. /\ inbox' \in [Clients -> Seq(States \cup {"ownerLost"})]
          /\ last' \in [Clients -> {"", "job", "other", "absent"}]
      BY <2>1, <1>a DEF Exiting
    <3>2. tries' \in [Clients -> {0, 1}] /\ started' = started
      BY <2>1 DEF Exiting
    <3>3. \/ UNCHANGED <<pc, view>>
          \/ c \in Installers /\ Goto(c, "done") /\ Shows(c, "refused")
          \/ c \in Trays /\ Shows(c, "down") /\ UNCHANGED pc
          \/ c \in Trays /\ Goto(c, "watching") /\ UNCHANGED view
      BY <2>1 DEF Exiting
    <3>4. view' \in [Clients -> Views]
      BY <1>b, <1>c, <3>3
    <3>5. /\ pc' \in [Clients -> TrayPlaces \cup InstallerPlaces]
          /\ \A k \in Trays : pc'[k] \in TrayPlaces
          /\ \A k \in Installers : pc'[k] \in InstallerPlaces
      BY <3>3
    <3> QED BY <3>1, <3>2, <3>4, <3>5
  <2>2. CASE Dial(c)
    BY <1>1, <1>b, <1>c, <2>2 DEF Dial
  <2>3. CASE CheckEnters(c)
    BY <2>3, ZenonT(40) DEF CheckEnters
  <2>4. CASE CheckEnds(c)
    BY <2>4, ZenonT(40) DEF CheckEnds
  <2>5. CASE PeekEnds(c)
    BY <2>5, ZenonT(40) DEF PeekEnds
  <2>6. CASE CheckReads(c)
    BY <1>1, <1>b, <1>c, <2>6 DEF CheckReads
  <2>7. CASE ApplyEnters(c)
    BY <2>7 DEF ApplyEnters
  <2>8. CASE ApplyEnds(c)
    <3>1. /\ inbox' \in [Clients -> Seq(States \cup {"ownerLost"})]
          /\ last' \in [Clients -> {"", "job", "other", "absent"}]
      BY <2>8, <1>a DEF ApplyEnds
    <3>2. view' \in [Clients -> Views]
      BY <2>8, <1>b, <1>c DEF ApplyEnds
    <3> QED BY <2>8, <3>1, <3>2, ZenonT(40) DEF ApplyEnds
  <2> QED BY <1>6, <2>1, <2>2, <2>3, <2>4, <2>5, <2>6, <2>7, <2>8 DEF Request
<1>7. ASSUME NEW c \in Clients, CheckDue(c) \/ Watcher(c) PROVE ClientsOK'
  <2> USE DEF Goto, watch, TrayPlaces, InstallerPlaces
  <2>1. CASE CheckDue(c)
    BY <2>1 DEF CheckDue
  <2>2. CASE WatchStarts(c)
    <3>1. /\ inbox' \in [Clients -> Seq(States \cup {"ownerLost"})]
          /\ last' \in [Clients -> {"", "job", "other", "absent"}]
      BY <2>2, <1>a DEF WatchStarts
    <3>2. \/ c \in Trays /\ Goto(c, "watching")
          \/ c \in Installers /\ Goto(c, "apply")
      BY <2>2 DEF WatchStarts
    <3>3. UNCHANGED <<tries, view, started>>
      BY <2>2 DEF WatchStarts
    <3>4. /\ pc' \in [Clients -> TrayPlaces \cup InstallerPlaces]
          /\ \A k \in Trays : pc'[k] \in TrayPlaces
          /\ \A k \in Installers : pc'[k] \in InstallerPlaces
      BY <3>2, ZenonT(40)
    <3> QED BY <3>1, <3>3, <3>4
  <2>3. ASSUME NEW s \in States, Sees(c, s)
        PROVE  /\ pc' \in [Clients -> TrayPlaces \cup InstallerPlaces]
               /\ \A k \in Trays : pc'[k] \in TrayPlaces
               /\ \A k \in Installers : pc'[k] \in InstallerPlaces
               /\ view' \in [Clients -> Views]
               /\ last' \in [Clients -> {"", "job", "other", "absent"}]
               /\ started' \in [Clients -> BOOLEAN]
    <3>1. VerdictOf(s) \in Views
      BY DEF VerdictOf, Views, States, Words
    <3>2. last' \in [Clients -> {"", "job", "other", "absent"}]
      BY <2>3 DEF Sees
    <3>3. CASE c \in Trays
      BY <1>b, <1>c, <2>3, <3>2, <3>3 DEF Sees, TraySees
    <3>4. CASE c \notin Trays
      <4>1. InstallerSees(c, s)
        BY <2>3, <3>4 DEF Sees
      <4>2. started' \in [Clients -> BOOLEAN]
        BY <4>1 DEF InstallerSees
      <4>3. (Goto(c, "done") /\ Shows(c, VerdictOf(s))) \/ UNCHANGED <<pc, view>>
        BY <4>1 DEF InstallerSees
      <4>4. view' \in [Clients -> Views]
        BY <1>b, <3>1, <4>3
      <4> QED BY <3>2, <3>4, <4>2, <4>3, <4>4
    <3> QED BY <3>3, <3>4
  <2>4. CASE Signal(c)
    <3>a. inbox[c] \in Seq(States \cup {"ownerLost"}) /\ inbox[c] # <<>>
      BY <2>4 DEF Signal
    <3>b. Head(inbox[c]) \in States \cup {"ownerLost"} /\ Tail(inbox[c]) \in Seq(States \cup {"ownerLost"})
      BY <3>a, TakeOne
    <3>1. Head(inbox[c]) \in States
      BY <2>4, <3>b DEF Signal, Next_
    <3>2. inbox' \in [Clients -> Seq(States \cup {"ownerLost"})]
      BY <1>2, <2>4, <3>b DEF Signal, Drop
    <3> QED BY <2>3, <2>4, <3>1, <3>2 DEF Signal, Next_
  <2>5. CASE Poll(c)
    <3>1. inbox' \in [Clients -> Seq(States \cup {"ownerLost"})]
      BY <1>2, <2>5 DEF Poll
    <3>2. CASE proc = "up"
      BY <1>1, <2>3, <2>5, <3>1, <3>2 DEF Poll
    <3>3. CASE proc # "up"
      BY <2>5, <3>1, <3>3, ZenonT(40) DEF Poll
    <3> QED BY <3>2, <3>3
  <2>6. CASE ServiceGone(c)
    <3>1. /\ inbox' \in [Clients -> Seq(States \cup {"ownerLost"})]
          /\ last' \in [Clients -> {"", "job", "other", "absent"}]
      BY <2>6, <1>a DEF ServiceGone
    <3>2. view' \in [Clients -> Views]
      BY <2>6, <1>b, <1>c DEF ServiceGone
    <3>3. CASE c \in Trays
      <4>1. UNCHANGED <<pc, tries, started>>
        BY <2>6, <3>3 DEF ServiceGone
      <4> QED BY <3>1, <3>2, <4>1
    <3>4. CASE c \notin Trays
      <4>1. Goto(c, "done") /\ UNCHANGED <<tries, started>>
        BY <2>6, <3>4 DEF ServiceGone
      <4> QED BY <3>1, <3>2, <3>4, <4>1
    <3> QED BY <3>3, <3>4
  <2> QED BY <1>7, <2>1, <2>2, <2>4, <2>5, <2>6 DEF Watcher
<1> QED BY <1>3, <1>4, <1>5, <1>6, <1>7 DEF WatchNext

\* The job has its owner, the calls have theirs, and a process that leaves has none.
LEMMA JobStep ==
    ASSUME WatchInv, WatchNext
    PROVE  JobInv'
<1> USE WatchClients
    DEF WatchInv, ServiceOK, ClientsOK, JobInv, Clients, Busy, Words, TrayPlaces, InstallerPlaces
<1>1. CASE Service
  <2>1. CASE Activate
    BY <2>1 DEF Activate, queue, client
  <2>2. CASE TryClose
    BY <2>2 DEF TryClose, MayClose, DaemonBusy, daemon, disk, queue, client
  <2>3. CASE Release
    BY <2>3 DEF Release, ProcessEnds, client
  <2>4. CASE Die
    <3>1. /\ proc' = "none" /\ inside' = {} /\ state' = "idle" /\ job' = NoClient
          /\ events' = <<>> /\ batch' = <<>>
      BY <2>4 DEF Die, ProcessEnds
    <3>2. \A c \in Clients : pc'[c] \notin {"checking", "peeking", "applying"}
      BY <2>4 DEF Die, Interrupted
    <3> QED BY <3>1, <3>2
  <2> QED BY <1>1, <2>1, <2>2, <2>3, <2>4 DEF Service
<1>2. CASE Deliver
  BY <1>2 DEF Deliver, DeliverTakes, DeliverEnds, Emit, TakeEvents, daemon, disk, service, client
<1>3. CASE Job \/ Cancel
  <2>1. proc = "up" /\ UNCHANGED <<proc, inside, pc>>
    BY <1>3 DEF Job, JobRefused, JobCommits, JobEnds, Cancel, service, client
  <2>2. \/ state' = "error" /\ job' = NoClient
        \/ state = "inspecting" /\ state' = "applying" /\ job' = job
        \/ state' \in {"failed", "installed"} /\ job' = NoClient
        \/ state' = "idle" /\ job' = NoClient
    BY <1>3 DEF Job, JobRefused, JobCommits, JobEnds, Cancel, SetState
  <2> QED BY <2>1, <2>2
<1>4. ASSUME NEW c \in Clients, Request(c) PROVE JobInv'
  <2> USE DEF Goto
  <2>1. CASE Exiting(c)
    BY <2>1, ZenonT(40) DEF Exiting, daemon, disk, queue, service
  <2>2. CASE Dial(c) \/ CheckReads(c)
    BY <2>2, ZenonT(40) DEF Dial, CheckReads, Reached, daemon, disk, queue, service
  <2>3. CASE CheckEnters(c)
    <3>1. proc = "up" /\ proc' = "up" /\ pc[c] = "check" /\ c \in Trays
      BY <2>3 DEF CheckEnters, Reached
    <3>2. CASE state \in Busy
      BY <2>3, <3>1, <3>2, ZenonT(40) DEF CheckEnters, daemon, disk, queue
    <3>3. CASE state \notin Busy /\ state \in Words
      <4>1. /\ pc' = [pc EXCEPT ![c] = "peeking"] /\ inside' = inside \cup {c}
            /\ UNCHANGED <<state, job, events, batch>>
        BY <2>3, <3>3 DEF CheckEnters, daemon, disk, queue
      <4> QED BY <3>1, <4>1
    <3>4. CASE state \notin Busy /\ state \notin Words
      <4>1. /\ pc' = [pc EXCEPT ![c] = "checking"] /\ inside' = inside \cup {c}
            /\ state' = "checking" /\ job' = c
        BY <2>3, <3>4 DEF CheckEnters, SetState
      <4> QED BY <3>1, <4>1
    <3> QED BY <3>2, <3>3, <3>4
  <2>4. CASE CheckEnds(c)
    BY <2>4, ZenonT(40) DEF CheckEnds, Leave, SetState
  <2>5. CASE PeekEnds(c)
    BY <2>5 DEF PeekEnds, Leave, SetState
  <2>6. CASE ApplyEnters(c)
    BY <2>6 DEF ApplyEnters, Reached, daemon, disk, queue
  <2>7. CASE ApplyEnds(c)
    BY <2>7, ZenonT(40) DEF ApplyEnds, Leave, SetState, daemon, disk, queue
  <2> QED BY <1>4, <2>1, <2>2, <2>3, <2>4, <2>5, <2>6, <2>7 DEF Request
<1>5. ASSUME NEW c \in Clients, CheckDue(c) \/ Watcher(c) PROVE JobInv'
  <2>1. UNCHANGED <<daemon, queue, service>>
    BY <1>5 DEF CheckDue, Watcher, WatchStarts, Signal, Poll, ServiceGone
  <2>2. /\ \A k \in Clients \ {c} : pc'[k] = pc[k]
        /\ pc'[c] = pc[c]
           \/ {pc[c], pc'[c]} \cap {"checking", "peeking", "applying"} = {}
    <3>1. CASE CheckDue(c)
      BY <3>1 DEF CheckDue, Goto
    <3>2. CASE WatchStarts(c)
      BY <3>2 DEF WatchStarts, Goto
    <3>3. CASE Signal(c) \/ Poll(c)
      <4>1. Reading(c) /\ (UNCHANGED pc \/ Goto(c, "done"))
        BY <3>3 DEF Signal, Poll, Sees, TraySees, InstallerSees
      <4> QED BY <4>1 DEF Reading, Goto
    <3>4. CASE ServiceGone(c)
      BY <3>4 DEF ServiceGone, Reading, Goto
    <3> QED BY <1>5, <3>1, <3>2, <3>3, <3>4 DEF Watcher
  <2> QED BY <2>1, <2>2 DEF daemon, disk, queue, service
<1> QED BY <1>1, <1>2, <1>3, <1>4, <1>5 DEF WatchNext

\* Only a job that is applying has an outcome, and none comes after it.
LEMMA MarkerStep ==
    ASSUME WatchInv, WatchNext
    PROVE  MarkerInv' /\ (outcome = "installed" => outcome' = "installed")
<1> USE WatchClients
    DEF WatchInv, ServiceOK, ClientsOK, JobInv, MarkerInv, Clients, Busy, Words,
        TrayPlaces, InstallerPlaces
<1>1. CASE Service
  BY <1>1 DEF Service, Activate, TryClose, Release, Die, ProcessEnds, daemon, disk, queue
<1>2. CASE Deliver
  BY <1>2 DEF Deliver, DeliverTakes, DeliverEnds, Emit, daemon, disk, service
<1>3. CASE Job \/ Cancel
  BY <1>3 DEF Job, JobRefused, JobCommits, JobEnds, Cancel, SetState, service, disk
<1>4. ASSUME NEW c \in Clients, Request(c) PROVE MarkerInv' /\ outcome' = outcome
  <2>1. CASE Exiting(c) \/ Dial(c) \/ CheckReads(c) \/ ApplyEnters(c)
    BY <2>1 DEF Exiting, Dial, CheckReads, ApplyEnters, Reached, daemon, disk, queue, service
  <2>2. CASE CheckEnters(c)
    BY <2>2 DEF CheckEnters, Reached, SetState, daemon, disk, queue
  <2>3. CASE CheckEnds(c)
    BY <2>3 DEF CheckEnds, Leave, SetState, disk
  <2>4. CASE PeekEnds(c)
    BY <2>4 DEF PeekEnds, Leave, SetState, disk
  <2>5. CASE ApplyEnds(c)
    BY <2>5 DEF ApplyEnds, Leave, SetState, daemon, disk, queue
  <2> QED BY <1>4, <2>1, <2>2, <2>3, <2>4, <2>5 DEF Request
<1>5. ASSUME NEW c \in Clients, CheckDue(c) \/ Watcher(c) PROVE MarkerInv' /\ outcome' = outcome
  BY <1>5 DEF CheckDue, Watcher, WatchStarts, Signal, Poll, ServiceGone, daemon, disk, queue, service
<1> QED BY <1>1, <1>2, <1>3, <1>4, <1>5 DEF WatchNext

\* deliver runs whenever something is queued: it ends only with nothing left.
LEMMA DeliverStep ==
    ASSUME WatchInv, WatchNext
    PROVE  DeliverAwake'
<1> USE DEF WatchInv, DeliverAwake
<1>1. CASE Service
  BY <1>1 DEF Service, Activate, TryClose, Release, Die, ProcessEnds, queue
<1>2. CASE Deliver
  BY <1>2 DEF Deliver, DeliverTakes, DeliverEnds, NothingQueued, Emit, TakeEvents
<1>3. CASE Job \/ Cancel
  BY <1>3 DEF Job, JobRefused, JobCommits, JobEnds, Cancel, SetState
<1>4. ASSUME NEW c \in Clients, Request(c) PROVE DeliverAwake'
  BY <1>4 DEF Request, Exiting, Dial, CheckEnters, CheckEnds, PeekEnds, CheckReads,
     ApplyEnters, ApplyEnds, SetState, queue
<1>5. ASSUME NEW c \in Clients, CheckDue(c) \/ Watcher(c) PROVE DeliverAwake'
  BY <1>5 DEF CheckDue, Watcher, WatchStarts, Signal, Poll, ServiceGone, queue
<1> QED BY <1>1, <1>2, <1>3, <1>4, <1>5 DEF WatchNext

\* A step queues the new state, or nothing.
LEMMA QueueStep ==
    ASSUME WatchInv, WatchNext, ~Deliver, ~Service
    PROVE  /\ UNCHANGED <<batch, proc>>
           /\ \/ UNCHANGED <<events, state>>
              \/ events' = Append(events, state')
<1>1. CASE Job \/ Cancel
  BY <1>1 DEF Job, JobRefused, JobCommits, JobEnds, Cancel, SetState, service
<1>2. ASSUME NEW c \in Clients, Request(c)
      PROVE  /\ UNCHANGED <<batch, proc>>
             /\ UNCHANGED <<events, state>> \/ events' = Append(events, state')
  BY <1>2 DEF Request, Exiting, Dial, CheckEnters, CheckEnds, PeekEnds, CheckReads,
     ApplyEnters, ApplyEnds, SetState, daemon, disk, queue, service
<1>3. ASSUME NEW c \in Clients, CheckDue(c) \/ Watcher(c)
      PROVE  UNCHANGED <<batch, proc, events, state>>
  BY <1>3 DEF CheckDue, Watcher, WatchStarts, Signal, Poll, ServiceGone, daemon, disk, queue, service
<1> QED BY <1>1, <1>2, <1>3 DEF WatchNext

\* A client's step leaves the other clients alone; its messages become fewer or none,
\* and what it shows comes from a message or from the state.
LEMMA ClientStep ==
    ASSUME WatchInv, NEW c \in Clients, Request(c) \/ CheckDue(c) \/ Watcher(c)
    PROVE  /\ \A k \in Clients \ {c} :
                inbox'[k] = inbox[k] /\ view'[k] = view[k] /\ last'[k] = last[k] /\ pc'[k] = pc[k]
           /\ \/ inbox'[c] = inbox[c]
              \/ inbox'[c] = <<>>
              \/ Signal(c) /\ inbox'[c] = Tail(inbox[c])
<1> USE DEF WatchInv, ClientsOK, Goto, Shows, FreshWatch, watch
<1>1. CASE Request(c)
  <2>1. CASE Exiting(c)
    <3>1. /\ UNCHANGED <<pc, view>> \/ (\E p : Goto(c, p)) \/ (\E s : Shows(c, s))
          /\ UNCHANGED pc \/ \E p : Goto(c, p)
          /\ UNCHANGED view \/ \E s : Shows(c, s)
      BY <2>1 DEF Exiting
    <3>2. FreshWatch(c) \/ UNCHANGED watch
      BY <2>1 DEF Exiting
    <3> QED BY <3>1, <3>2
  <2>2. CASE ApplyEnds(c)
    <3>1. /\ UNCHANGED view \/ Shows(c, "refused")
          /\ \E p : Goto(c, p)
          /\ FreshWatch(c) \/ UNCHANGED watch
      BY <2>2 DEF ApplyEnds
    <3> QED BY <3>1
  <2>3. CASE Dial(c) \/ CheckReads(c)
    BY <2>3 DEF Dial, CheckReads
  <2>4. CASE CheckEnters(c) \/ CheckEnds(c) \/ PeekEnds(c) \/ ApplyEnters(c)
    BY <2>4 DEF CheckEnters, CheckEnds, PeekEnds, ApplyEnters
  <2> QED BY <1>1, <2>1, <2>2, <2>3, <2>4 DEF Request
<1>2. CASE CheckDue(c)
  BY <1>2 DEF CheckDue
<1>3. CASE Watcher(c)
  <2>1. CASE WatchStarts(c) \/ ServiceGone(c)
    <3>1. /\ UNCHANGED pc \/ \E p : Goto(c, p)
          /\ UNCHANGED view \/ \E s : Shows(c, s)
          /\ FreshWatch(c)
      BY <2>1 DEF WatchStarts, ServiceGone
    <3> QED BY <3>1
  <2>2. ASSUME NEW s, Sees(c, s)
        PROVE  \A k \in Clients \ {c} : view'[k] = view[k] /\ last'[k] = last[k] /\ pc'[k] = pc[k]
    <3>1. /\ UNCHANGED pc \/ \E p : Goto(c, p)
          /\ UNCHANGED view \/ \E v : Shows(c, v)
      BY <2>2 DEF Sees, TraySees, InstallerSees
    <3>2. \A k \in Clients \ {c} : last'[k] = last[k]
      BY <2>2 DEF Sees
    <3> QED BY <3>1, <3>2
  <2>3. CASE Signal(c)
    <3>1. \A k \in Clients \ {c} : inbox'[k] = inbox[k]
      BY <2>3 DEF Signal, Drop
    <3>2. inbox'[c] = <<>> \/ inbox'[c] = Tail(inbox[c])
      BY <2>3 DEF Signal, Drop
    <3> QED BY <2>2, <2>3, <3>1, <3>2 DEF Signal
  <2>4. CASE Poll(c)
    <3>1. /\ \A k \in Clients \ {c} : inbox'[k] = inbox[k]
          /\ inbox'[c] = inbox[c] \/ inbox'[c] = <<>>
      BY <2>4 DEF Poll
    <3>2. CASE proc = "up"
      BY <2>2, <2>4, <3>1, <3>2 DEF Poll
    <3>3. CASE proc # "up"
      BY <2>4, <3>1, <3>3 DEF Poll
    <3> QED BY <3>2, <3>3
  <2> QED BY <1>3, <2>1, <2>3, <2>4 DEF Watcher
<1> QED BY <1>1, <1>2, <1>3

\* A message says installed only of an image that is, and a verdict comes from a
\* message or from the state itself.
LEMMA HeardStep ==
    ASSUME WatchInv, WatchNext
    PROVE  HeardInv'
<1>1. MarkerInv' /\ (outcome = "installed" => outcome' = "installed") /\ ServiceOK'
  BY MarkerStep, ServiceStep
<1>2. SUFFICES ASSUME outcome' # "installed" PROVE HeardInv'
  BY <1>1 DEF HeardInv
<1>3. /\ ~Contains(events, "installed") /\ ~Contains(batch, "installed")
      /\ \A c \in Clients : ~Contains(inbox[c], "installed")
      /\ \A c \in Installers : view[c] # "installed"
      /\ state # "installed" /\ state' # "installed"
  BY <1>1, <1>2 DEF WatchInv, HeardInv, MarkerInv, Words
<1>4. CASE Service
  <2>1. CASE Activate \/ TryClose
    BY <1>3, <2>1 DEF Activate, TryClose, HeardInv, daemon, disk, queue, watch, client
  <2>2. ASSUME ProcessEnds
        PROVE  /\ ~Contains(events', "installed") /\ ~Contains(batch', "installed")
               /\ \A c \in Clients : ~Contains(inbox'[c], "installed")
    <3>1. ASSUME NEW c \in Clients PROVE ~Contains(Append(inbox[c], "ownerLost"), "installed")
      <4>1. inbox[c] \in Seq(States \cup {"ownerLost"})
        BY DEF WatchInv, ClientsOK
      <4> QED BY <1>3, <4>1, AddOne
    <3>2. ASSUME NEW c \in Clients PROVE ~Contains(inbox'[c], "installed")
      BY <1>3, <2>2, <3>1, NothingIn DEF ProcessEnds
    <3> QED BY <2>2, <3>2, NothingIn DEF ProcessEnds
  <2>3. CASE Release
    BY <1>3, <2>2, <2>3 DEF Release, HeardInv, client
  <2>4. CASE Die
    <3>1. \A c \in Installers : view'[c] # "installed"
      BY <1>3, <2>4 DEF Die, Interrupted, Clients
    <3> QED BY <2>2, <2>4, <3>1 DEF Die, HeardInv
  <2> QED BY <1>4, <2>1, <2>3, <2>4 DEF Service
<1>5. CASE Deliver
  <2>1. CASE DeliverTakes
    BY <1>3, <2>1, NothingIn DEF DeliverTakes, TakeEvents, HeardInv, watch, client
  <2>2. CASE DeliverEnds
    BY <1>3, <2>2 DEF DeliverEnds, HeardInv, watch, client
  <2>3. CASE Emit
    <3>1. /\ Head(batch) \in States /\ Head(batch) # "installed"
          /\ ~Contains(batch', "installed")
      BY <1>3, <2>3, TakeOne DEF Emit, WatchInv, ServiceOK
    <3>2. ASSUME NEW c \in Clients PROVE ~Contains(inbox'[c], "installed")
      <4>1. inbox[c] \in Seq(States \cup {"ownerLost"})
        BY DEF WatchInv, ClientsOK
      <4>2. ~Contains(Append(inbox[c], Head(batch)), "installed")
        BY <1>3, <3>1, <4>1, AddOne
      <4> QED BY <1>3, <2>3, <4>2 DEF Emit
    <3> QED BY <1>3, <2>3, <3>1, <3>2 DEF Emit, HeardInv, client
  <2> QED BY <1>5, <2>1, <2>2, <2>3 DEF Deliver
<1>6. ASSUME ~Service, ~Deliver
      PROVE  ~Contains(events', "installed") /\ ~Contains(batch', "installed")
  <2>1. UNCHANGED batch /\ (UNCHANGED events \/ events' = Append(events, state'))
    BY <1>6, QueueStep
  <2>2. ~Contains(Append(events, state'), "installed")
    BY <1>1, <1>3, AddOne DEF WatchInv, ServiceOK
  <2> QED BY <1>3, <2>1, <2>2
<1>7. CASE (Job \/ Cancel) /\ ~Service /\ ~Deliver
  <2>1. UNCHANGED <<inbox, view>>
    BY <1>7 DEF Job, JobRefused, JobCommits, JobEnds, Cancel, watch, client
  <2> QED BY <1>3, <1>6, <1>7, <2>1 DEF HeardInv
<1>8. ASSUME NEW c \in Clients, Request(c) \/ CheckDue(c) \/ Watcher(c), ~Service, ~Deliver
      PROVE  HeardInv'
  <2>1. inbox[c] \in Seq(States \cup {"ownerLost"})
    BY DEF WatchInv, ClientsOK
  <2>2. \A k \in Clients : ~Contains(inbox'[k], "installed")
    <3>1. ~Contains(inbox'[c], "installed")
      <4>1. CASE Signal(c) /\ inbox'[c] = Tail(inbox[c])
        BY <1>3, <2>1, <4>1, TakeOne DEF Signal
      <4> QED BY <1>3, <1>8, <4>1, ClientStep, NothingIn
    <3> QED BY <1>3, <1>8, <3>1, ClientStep
  <2>3. ASSUME c \in Installers PROVE view'[c] # "installed"
    <3> USE WatchClients DEF WatchInv, ClientsOK, Goto, Shows, InstallerPlaces, TrayPlaces
    <3>1. view[c] # "installed"
      BY <1>3, <2>3
    <3>2. ASSUME NEW s, s # "installed", Sees(c, s) PROVE view'[c] # "installed"
      <4>1. c \notin Trays /\ VerdictOf(s) # "installed"
        BY <2>3, <3>2 DEF VerdictOf, Words
      <4>2. InstallerSees(c, s)
        BY <3>2, <4>1 DEF Sees
      <4> QED BY <3>1, <4>1, <4>2 DEF InstallerSees
    <3>3. CASE Signal(c)
      <4>1. Contains(inbox[c], Head(inbox[c]))
        BY <2>1, <3>3, TakeOne DEF Signal
      <4>2. Head(inbox[c]) # "installed"
        BY <1>3, <4>1
      <4> QED BY <3>2, <3>3, <4>2 DEF Signal, Next_
    <3>4. CASE Poll(c)
      BY <1>3, <3>1, <3>2, <3>4 DEF Poll
    <3>5. CASE WatchStarts(c) \/ CheckDue(c)
      BY <3>1, <3>5 DEF WatchStarts, CheckDue
    <3>6. CASE ServiceGone(c)
      BY <2>3, <3>1, <3>6 DEF ServiceGone
    <3>7. CASE Request(c)
      <4>1. UNCHANGED view \/ (\E v \in {"down", "refused"} : Shows(c, v)) \/ Shows(c, state)
        BY <3>7 DEF Request, Exiting, Dial, CheckEnters, CheckEnds, PeekEnds, CheckReads,
           ApplyEnters, ApplyEnds
      <4> QED BY <1>3, <3>1, <4>1
    <3> QED BY <1>8, <3>3, <3>4, <3>5, <3>6, <3>7 DEF Watcher
  <2>4. \A k \in Installers : view'[k] # "installed"
    BY <1>3, <1>8, <2>3, ClientStep DEF Clients
  <2> QED BY <1>6, <1>8, <2>2, <2>4 DEF HeardInv
<1> QED BY <1>4, <1>5, <1>7, <1>8 DEF WatchNext

\* What a tray shows once all messages are read is the state.
Converges(c) ==
    Subscribed(c) =>
        /\ proc # "none" => NewestAt(c)
        /\ proc = "none" => inbox[c] = <<>> /\ last[c] \in {"", "absent"}

\* The process ends: every subscribed tray will see it, the others are not watching.
LEMMA EndStep ==
    ASSUME WatchInv, Release \/ Die
    PROVE  TrayInv'
<1>1. ProcessEnds
  BY DEF Release, Die
<1>2. events' = <<>> /\ batch' = <<>> /\ proc' = "none"
  BY <1>1 DEF ProcessEnds
<1>3. ASSUME NEW c \in Trays PROVE ~Subscribed(c)'
  <2>1. c \in Clients /\ inbox[c] \in Seq(States \cup {"ownerLost"})
    BY DEF Clients, WatchInv, ClientsOK
  <2>2. CASE c \in inside
    <3>1. Die
      BY <2>2 DEF Release, WatchInv, JobInv
    <3>2. pc'[c] = "dial"
      BY <2>1, <2>2, <3>1 DEF Die, Interrupted
    <3> QED BY <3>2 DEF Subscribed
  <2>3. CASE c \notin inside
    <3>1. pc'[c] = pc[c]
      BY <2>1, <2>3 DEF Release, Die, client
    <3>2. CASE Subscribed(c)
      <4>1. inbox'[c] = Append(inbox[c], "ownerLost")
        BY <1>1, <2>1, <2>3, <3>2 DEF ProcessEnds
      <4>2. Contains(inbox'[c], "ownerLost")
        BY <2>1, <4>1, AddOne
      <4> QED BY <4>2 DEF Subscribed
    <3>3. CASE ~Subscribed(c)
      <4>1. inbox'[c] = inbox[c]
        BY <1>1, <2>1, <2>3, <3>3 DEF ProcessEnds
      <4> QED BY <3>1, <3>3, <4>1 DEF Subscribed
    <3> QED BY <3>2, <3>3
  <2> QED BY <2>2, <2>3
<1> QED BY <1>2, <1>3 DEF TrayInv, NewestInQueue

\* A signal that is sent moves from the queue to who is subscribed.
LEMMA EmitStep ==
    ASSUME WatchInv, Emit
    PROVE  TrayInv'
<1>1. /\ batch # <<>> /\ batch' = Tail(batch) /\ Head(batch) \in States
      /\ Tail(batch) # <<>> => Tail(batch)[Len(Tail(batch))] = batch[Len(batch)]
      /\ Tail(batch) = <<>> => Head(batch) = batch[Len(batch)]
      /\ UNCHANGED <<events, state, proc, pc, last, view>>
  BY TakeOne DEF Emit, WatchInv, ServiceOK, daemon, disk, service, client
<1>2. proc # "none" /\ (events = <<>> => batch[Len(batch)] = state)
  BY <1>1 DEF WatchInv, JobInv, TrayInv, NewestInQueue
<1>3. NewestInQueue'
  BY <1>1, <1>2 DEF WatchInv, TrayInv, NewestInQueue
<1>4. ASSUME NEW c \in Trays, Subscribed(c)' PROVE NewestAt(c)'
  <2>1. c \in Clients /\ inbox[c] \in Seq(States \cup {"ownerLost"})
    BY DEF Clients, WatchInv, ClientsOK
  <2>2. CASE Subscribed(c)
    <3>1. inbox'[c] = Append(inbox[c], Head(batch))
      BY <2>1, <2>2 DEF Emit
    <3>2. inbox'[c] # <<>> /\ inbox'[c][Len(inbox'[c])] = Head(batch)
      <4>1. Head(batch) \in States \cup {"ownerLost"}
        BY <1>1
      <4>2. /\ Append(inbox[c], Head(batch)) # <<>>
            /\ Append(inbox[c], Head(batch))[Len(Append(inbox[c], Head(batch)))] = Head(batch)
        BY <2>1, <4>1, AddOne
      <4> QED BY <3>1, <4>2
    <3> QED BY <1>1, <1>2, <3>2 DEF NewestAt
  <2>3. CASE ~Subscribed(c)
    <3>1. inbox'[c] = inbox[c]
      BY <2>1, <2>3 DEF Emit
    <3> QED BY <1>1, <1>4, <2>3, <3>1 DEF Subscribed
  <2> QED BY <2>2, <2>3
<1> QED BY <1>1, <1>2, <1>3, <1>4 DEF TrayInv

\* A tray's own step, when nothing is queued by it.
LEMMA TrayStepAlone ==
    ASSUME WatchInv, NEW c \in Trays, Request(c) \/ CheckDue(c) \/ Watcher(c),
           UNCHANGED <<proc, state, events, batch>>
    PROVE  Converges(c)'
<1>1. /\ c \in Clients /\ c \notin Installers /\ pc[c] \in TrayPlaces
      /\ inbox[c] \in Seq(States \cup {"ownerLost"})
      /\ Converges(c)
  BY WatchClients DEF Clients, WatchInv, ClientsOK, TrayInv, Converges
<1>2. ASSUME UNCHANGED <<inbox, last, view>>, pc[c] \in {"watching", "check", "checking", "peeking", "status"}
      PROVE  Converges(c)'
  BY <1>1, <1>2 DEF Converges, Subscribed, NewestAt
<1>3. ASSUME pc'[c] \in {"dial", "dialled"} PROVE Converges(c)'
  BY <1>3 DEF Converges, Subscribed
<1>4. ASSUME inbox'[c] = <<>>, last'[c] = "" PROVE Converges(c)'
  BY <1>4 DEF Converges, NewestAt
<1> USE DEF WatchInv, ClientsOK, Goto, Shows, FreshWatch, watch
<1>5. CASE Exiting(c)
  BY <1>1, <1>2, <1>3, <1>5 DEF Exiting, Asking, TrayPlaces
<1>6. CASE Dial(c)
  BY <1>1, <1>3, <1>6 DEF Dial
<1>7. CASE CheckEnters(c) \/ CheckEnds(c) \/ PeekEnds(c) \/ CheckDue(c)
  BY <1>1, <1>2, <1>7 DEF CheckEnters, CheckEnds, PeekEnds, CheckDue
<1>8. CASE CheckReads(c)
  <2>1. /\ proc = "up" /\ view'[c] = state /\ UNCHANGED <<inbox, last>>
        /\ pc[c] = "status"
    BY <1>1, <1>8 DEF CheckReads, Reached
  <2> QED BY <1>1, <2>1 DEF Converges, Subscribed, NewestAt
<1>9. CASE ApplyEnters(c) \/ ApplyEnds(c)
  BY <1>1, <1>9 DEF ApplyEnters, ApplyEnds, TrayPlaces
<1>10. CASE WatchStarts(c) \/ ServiceGone(c)
  BY <1>1, <1>4, <1>10 DEF WatchStarts, ServiceGone
<1>11. CASE Signal(c)
  <2>1. /\ inbox[c] # <<>> /\ Head(inbox[c]) # "ownerLost" /\ pc[c] = "watching"
        /\ view'[c] = Head(inbox[c]) /\ pc' = pc /\ inbox'[c] = Tail(inbox[c])
    BY <1>1, <1>11 DEF Signal, Next_, Reading, Sees, TraySees, Drop, TrayPlaces
  <2>2. /\ Tail(inbox[c]) # <<>> => Tail(inbox[c])[Len(Tail(inbox[c]))] = inbox[c][Len(inbox[c])]
        /\ Tail(inbox[c]) = <<>> => Head(inbox[c]) = inbox[c][Len(inbox[c])]
        /\ Contains(inbox[c], "ownerLost") => Contains(Tail(inbox[c]), "ownerLost")
    <3>1. inbox[c] \in Seq(States \cup {"ownerLost"}) /\ inbox[c] # <<>>
      BY <1>1, <2>1
    <3>2. \A e : Contains(inbox[c], e) => Contains(Tail(inbox[c]), e) \/ e = Head(inbox[c])
      BY <3>1, TakeOne
    <3>3. /\ Tail(inbox[c]) # <<>> => Tail(inbox[c])[Len(Tail(inbox[c]))] = inbox[c][Len(inbox[c])]
          /\ Tail(inbox[c]) = <<>> => Head(inbox[c]) = inbox[c][Len(inbox[c])]
      BY <3>1, TakeOne
    <3> QED BY <2>1, <3>2, <3>3, Zenon
  <2>3. Subscribed(c)' => Subscribed(c)
    BY <2>1, <2>2 DEF Subscribed
  <2> QED BY <1>1, <2>1, <2>2, <2>3 DEF Converges, NewestAt
<1>12. CASE Poll(c)
  <2>1. pc' = pc /\ inbox'[c] = inbox[c] /\ pc[c] = "watching"
    BY <1>1, <1>12 DEF Poll, Reading, Sees, TraySees, TrayPlaces
  <2>2. CASE proc = "up"
    <3>1. view'[c] = state
      BY <1>1, <1>12, <2>2 DEF Poll, Sees, TraySees
    <3> QED BY <1>1, <2>1, <2>2, <3>1 DEF Converges, Subscribed, NewestAt
  <2>3. CASE proc # "up"
    <3>1. view' = view /\ last'[c] = IF last[c] = "" THEN "absent" ELSE last[c]
      BY <1>1, <1>12, <2>3 DEF Poll
    <3> QED BY <1>1, <2>1, <3>1 DEF Converges, Subscribed, NewestAt
  <2> QED BY <2>2, <2>3
<1> QED BY <1>5, <1>6, <1>7, <1>8, <1>9, <1>10, <1>11, <1>12 DEF Request, Watcher

LEMMA TrayStep ==
    ASSUME WatchInv, WatchNext
    PROVE  TrayInv'
<1>1. ASSUME NEW c \in Trays PROVE Converges(c)
  BY DEF WatchInv, TrayInv, Converges
<1>2. ServiceOK' /\ JobInv'
  BY ServiceStep, JobStep
<1>3. CASE Service
  <2>1. CASE Activate
    <3>1. /\ proc = "none" /\ proc' = "up" /\ events' = <<>> /\ batch' = <<>>
          /\ UNCHANGED <<inbox, last, view, pc>>
      BY <2>1 DEF Activate, queue, watch, client, WatchInv, JobInv
    <3> QED BY <1>1, <3>1 DEF TrayInv, NewestInQueue, NewestAt, Subscribed, Converges
  <2>2. CASE TryClose
    BY <2>2 DEF TryClose, daemon, disk, queue, watch, client, WatchInv, TrayInv, NewestInQueue,
       NewestAt, Subscribed
  <2> QED BY <1>3, <2>1, <2>2, EndStep DEF Service
<1>4. CASE Deliver
  <2>1. CASE DeliverTakes
    BY <2>1 DEF DeliverTakes, TakeEvents, daemon, disk, service, watch, client, WatchInv, TrayInv,
       JobInv, NewestInQueue, NewestAt, Subscribed
  <2>2. CASE DeliverEnds
    BY <2>2 DEF DeliverEnds, daemon, disk, service, watch, client, WatchInv, TrayInv,
       NewestInQueue, NewestAt, Subscribed
  <2> QED BY <1>4, <2>1, <2>2, EmitStep DEF Deliver
<1>5. CASE ~Service /\ ~Deliver /\ events' = Append(events, state')
  <2>1. events' # <<>> /\ events'[Len(events')] = state'
    BY <1>2, <1>5, AddOne DEF WatchInv, ServiceOK
  <2>2. proc' # "none"
    BY <1>2, <2>1 DEF JobInv
  <2> QED BY <2>1, <2>2 DEF TrayInv, NewestInQueue, NewestAt
<1>6. CASE ~Service /\ ~Deliver /\ UNCHANGED <<events, state>>
  <2>1. UNCHANGED <<proc, batch, events, state>>
    BY <1>6, QueueStep
  <2>2. NewestInQueue'
    BY <2>1 DEF WatchInv, TrayInv, NewestInQueue
  <2>3. ASSUME NEW c \in Trays PROVE Converges(c)'
    <3>1. CASE Request(c) \/ CheckDue(c) \/ Watcher(c)
      BY <2>1, <3>1, TrayStepAlone
    <3>2. CASE ~(Request(c) \/ CheckDue(c) \/ Watcher(c))
      <4>1. c \in Clients
        BY DEF Clients
      <4>2. CASE Job \/ Cancel
        BY <1>1, <2>1, <4>2 DEF Job, JobRefused, JobCommits, JobEnds, Cancel, watch, client,
           Converges, Subscribed, NewestAt
      <4>3. ASSUME NEW k \in Clients, Request(k) \/ CheckDue(k) \/ Watcher(k)
            PROVE  Converges(c)'
        <5>1. inbox'[c] = inbox[c] /\ view'[c] = view[c] /\ last'[c] = last[c] /\ pc'[c] = pc[c]
          BY <3>2, <4>1, <4>3, ClientStep
        <5> QED BY <1>1, <2>1, <5>1 DEF Converges, Subscribed, NewestAt
      <4> QED BY <1>6, <4>2, <4>3 DEF WatchNext
    <3> QED BY <3>1, <3>2
  <2> QED BY <2>2, <2>3 DEF TrayInv, Converges
<1> QED BY <1>3, <1>4, <1>5, <1>6, QueueStep
-----------------------------------------------------------------------------
LEMMA WatchInvariant == WatchSpec => []WatchInv
<1>1. WatchInit => WatchInv
  <2> SUFFICES ASSUME WatchInit PROVE WatchInv
    OBVIOUS
  <2>1. ServiceOK /\ DeliverAwake
    BY NothingIn DEF WatchInit, ServiceOK, DeliverAwake, States
  <2>2. ClientsOK
    <3>1. inbox \in [Clients -> Seq(States \cup {"ownerLost"})]
      BY NothingIn DEF WatchInit
    <3> QED BY <3>1, WatchClients DEF WatchInit, ClientsOK, Clients, TrayPlaces,
            InstallerPlaces, Views
  <2>3. JobInv /\ MarkerInv
    BY DEF WatchInit, JobInv, MarkerInv, Busy, Words
  <2>4. HeardInv
    BY NothingIn DEF WatchInit, HeardInv, Clients
  <2>5. TrayInv
    BY DEF WatchInit, TrayInv, NewestInQueue, Clients
  <2> QED BY <2>1, <2>2, <2>3, <2>4, <2>5 DEF WatchInv
<1>2. WatchInv /\ [WatchNext]_vars => WatchInv'
  <2> SUFFICES ASSUME WatchInv, [WatchNext]_vars PROVE WatchInv'
    OBVIOUS
  <2>1. CASE UNCHANGED vars
    BY <2>1 DEF vars, daemon, disk, queue, service, watch, client, counts, WatchInv, ServiceOK,
       ClientsOK, JobInv, MarkerInv, HeardInv, DeliverAwake, TrayInv, NewestInQueue, NewestAt,
       Subscribed
  <2>2. CASE WatchNext
    BY <2>2, ServiceStep, ClientsStep, JobStep, MarkerStep, HeardStep, DeliverStep, TrayStep
       DEF WatchInv
  <2> QED BY <2>1, <2>2
<1> QED BY <1>1, <1>2, PTL DEF WatchSpec

\* A process that decided to exit has no job and no call inside (tryClose,
\* enterCall).
THEOREM ClosingIsIdle == WatchSpec => []NoWorkInClosingService
<1>1. WatchInv => NoWorkInClosingService
  BY DEF WatchInv, JobInv, NoWorkInClosingService, DaemonBusy
<1> QED BY <1>1, WatchInvariant, PTL

\* No queued event is left without a deliver goroutine (queueLocked, deliver).
THEOREM EventsAreDelivered == WatchSpec => []DeliverAwake
<1>1. WatchInv => DeliverAwake
  BY DEF WatchInv
<1> QED BY <1>1, WatchInvariant, PTL

\* Trays converge to the daemon's state and installers say installed only of an
\* image that is, also when the marker could not be rewritten, for any number of
\* each, any crashes and any order of signals, polls and answers (client.go,
\* trayapp.go, installFlow).
THEOREM ViewsCorrect == WatchSpec => []ViewsAreTrue
<1>1. WatchInv => ViewsAreTrue
  <2> SUFFICES ASSUME WatchInv PROVE ViewsAreTrue
    OBVIOUS
  <2>1. InstalledIsReady
    BY DEF WatchInv, HeardInv, InstalledIsReady
  <2>2. ASSUME NEW c \in Trays, proc = "up", pc[c] = "watching", last[c] \in {"job", "other"},
               ~Contains(inbox[c], "ownerLost")
        PROVE  Last(<<view[c]>> \o inbox[c] \o batch \o events) = state
    <3>1. NewestAt(c) /\ NewestInQueue
      BY <2>2 DEF WatchInv, TrayInv, Subscribed
    <3>2. PICK Told : Told = Views \cup {"ownerLost"}
      OBVIOUS
    <3>3. /\ view[c] \in Told /\ inbox[c] \in Seq(Told)
          /\ batch \in Seq(Told) /\ events \in Seq(Told)
      <4>1. /\ view[c] \in Views /\ inbox[c] \in Seq(States \cup {"ownerLost"})
            /\ batch \in Seq(States) /\ events \in Seq(States)
        BY DEF WatchInv, ClientsOK, ServiceOK, Clients
      <4> QED BY <3>2, <4>1 DEF Views
    <3>4. /\ events # <<>> => Last(InOrder(view[c], inbox[c], batch, events)) = events[Len(events)]
          /\ events = <<>> /\ batch # <<>> =>
                Last(InOrder(view[c], inbox[c], batch, events)) = batch[Len(batch)]
          /\ events = <<>> /\ batch = <<>> /\ inbox[c] # <<>> =>
                Last(InOrder(view[c], inbox[c], batch, events)) = inbox[c][Len(inbox[c])]
          /\ events = <<>> /\ batch = <<>> /\ inbox[c] = <<>> =>
                Last(InOrder(view[c], inbox[c], batch, events)) = view[c]
      BY <3>3, LastOfAll
    <3>5. Last(InOrder(view[c], inbox[c], batch, events)) = state
      BY <2>2, <3>1, <3>4, Zenon DEF NewestAt, NewestInQueue
    <3> QED BY <3>5 DEF InOrder
  <2> QED BY <2>1, <2>2 DEF ViewsAreTrue, SignalsConverge
<1> QED BY <1>1, WatchInvariant, PTL
=============================================================================
