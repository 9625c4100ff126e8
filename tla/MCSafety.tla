------------------------------ MODULE MCSafety ------------------------------
(***************************************************************************)
(* The parts of the system that share no memory with another part, checked *)
(* side by side for what may never happen: a behaviour is a behaviour of   *)
(* one part, chosen at the start, while the others stay in one initial     *)
(* state.  An invariant or an action property of a part holds of the part  *)
(* on its own exactly when it holds here.                                  *)
(***************************************************************************)
EXTENDS MCUpdateDaemon, MCEmergencyStop, CuaClient, DesktopSeat, AgentFiles, MCAgentState,
        ImageLookup

VARIABLE part

Parts == {"update", "stop", "cua", "seat", "files", "state", "lookup"}

allVars == <<part, vars, stopVars, cuaVars, seatVars, filesVars, stateVars, lookupVars>>

\* An initial state of a part; the condition is what it starts in while
\* another part runs.
Starts(p, idle) == IF part = p THEN TRUE ELSE idle

SafetyInit ==
    /\ part \in Parts
    /\ MCInit /\ Starts("update", managed)
    /\ StopInit
    /\ CuaInit
    /\ SeatInit
    /\ FilesInit /\ Starts("files", \A p \in Paths : file[p] = Absent)
    /\ StateInit /\ Starts("state", oem = <<>>)
    /\ LookupInit /\ Starts("lookup", conf = <<>> /\ ref = [tag |-> "other", digest |-> NoContent])

Rests(p, variables) == IF part = p THEN TRUE ELSE UNCHANGED variables

\* A step of part p: the variables of every other part stay.
Alone(p) ==
    /\ part = p /\ UNCHANGED part
    /\ Rests("update", vars) /\ Rests("stop", stopVars) /\ Rests("cua", cuaVars)
    /\ Rests("seat", seatVars) /\ Rests("files", filesVars) /\ Rests("state", stateVars)
    /\ Rests("lookup", lookupVars)

SafetyNext ==
    \/ Alone("update") /\ Next
    \/ Alone("stop") /\ StopNext
    \/ Alone("cua") /\ CuaNext
    \/ Alone("seat") /\ SeatNext
    \/ Alone("files") /\ FilesNext
    \/ Alone("state") /\ StateNext
    \/ Alone("lookup") /\ LookupNext

SafetySpec == SafetyInit /\ [][SafetyNext]_allVars

\* The two threads, calls, agents and so on of a set are alike, and the parts
\* share nothing: one permutation swaps the two of every set.
Alike == {Threads, Calls, Callers, Children, Agents, Elements, Paths}
Other(x) == CHOOSE y \in UNION Alike : y # x /\ \E S \in Alike : {x, y} \subseteq S
AllSwapped == {[x \in UNION Alike |-> IF swapped THEN Other(x) ELSE x] : swapped \in BOOLEAN}
-----------------------------------------------------------------------------
(* Instances *)

Blob(what, refs, flavor, amd64) ==
    [kind |-> what, refs |-> refs, flavor |-> flavor, amd64 |-> amd64]

\* A desktop image with an index for two platforms, an agent image, and an
\* index of indexes.
MCContent ==
    ("index" :> Blob("index", {"manifest", "arm"}, "none", FALSE))
    @@ ("nested" :> Blob("index", {"index"}, "none", FALSE))
    @@ ("manifest" :> Blob("manifest", {"config"}, "none", FALSE))
    @@ ("agent" :> Blob("manifest", {"agent config"}, "none", FALSE))
    @@ ("arm" :> Blob("manifest", {"arm config"}, "none", FALSE))
    @@ ("config" :> Blob("config", {}, "desktop", TRUE))
    @@ ("agent config" :> Blob("config", {}, "agent", TRUE))
    @@ ("arm config" :> Blob("config", {}, "desktop", FALSE))
-----------------------------------------------------------------------------
(* The pure operators against what they are for, over small inputs. *)

Texts == UNION {[1 .. n -> {"a", "b"}] : n \in 0 .. 3}

\* Read says that a file is truncated exactly when something follows what it
\* returned; a code is given only for a limit nobody asked for.
ASSUME ReadIsHonest ==
    \A text \in Texts, offset \in 0 .. 3, limit \in {NoLimit} \cup 0 .. 4 :
        LET r == Read(text, Len(text), offset, limit, 1, 2) IN
        /\ r.truncated <=> \E i \in 1 .. Len(text) : i > offset + Len(r.data)
        /\ r.data = [i \in 1 .. Len(r.data) |-> text[offset + i]]
        /\ Len(r.data) <= 2
        /\ r.code => r.truncated /\ limit \notin 0 .. 2

\* Search returns the first matches in the order of the walk, all of them
\* unless it says that it was cut short.
ASSUME SearchIsAPrefix ==
    \A walk \in Texts, max \in 1 .. 2 :
        LET hits == [a |-> <<"a1", "a2">>, b |-> <<"b1">>]
            found == Search(walk, hits, max)
            every == FlattenSeq([i \in DOMAIN walk |-> hits[walk[i]]])
        IN  /\ IsPrefix(found.matches, every)
            /\ found.truncated \/ found.matches = every

Versions3 == [core : {<<a, b, 0>> : a, b \in 0 .. 1}, pre : 0 .. 2]

\* Newer orders the releases: a list sorted by it has one order.
ASSUME NewerIsAnOrder ==
    \A u, v, w \in Versions3 :
        /\ u # v <=> Newer(u, v) \/ Newer(v, u)
        /\ ~(Newer(u, v) /\ Newer(v, u))
        /\ Newer(u, v) /\ Newer(v, w) => Newer(u, w)

\* A file in /oem that sets nothing changes nothing, wherever it sorts.
ASSUME SilentFileIsIgnored ==
    \A seed \in MCSeeds, auto, device \in SUBSET BOOLEAN :
        LET asks == [Silent EXCEPT !.enabled = {TRUE}, !.auto = auto, !.device = device]
        IN  \A n \in 0 .. Len(seed) :
                LET layers == <<asks>> \o SubSeq(seed, 1, n) \o <<Silent>>
                             \o SubSeq(seed, n + 1, Len(seed))
                IN  Authorized(layers) = Authorized(<<asks>> \o seed)
=============================================================================
