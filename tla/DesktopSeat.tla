----------------------------- MODULE DesktopSeat -----------------------------
(***************************************************************************)
(* What a computer_use or browser call does to the desktop: Adapter        *)
(* (agent/internal/cua/adapter.go) and Browser (browser.go).  A call is a  *)
(* program of sub-calls to the driver, run by whoever has the one seat.    *)
(* Each sub-call may fail before or after it had its effect; the page and  *)
(* the driver change in between.                                           *)
(*                                                                         *)
(* One ref of a page stands for all of them: an element is what it names.  *)
(* The life of the driver and its client is in CuaClient.                  *)
(***************************************************************************)
EXTENDS Sequences

CONSTANTS Agents, NoAgent, Elements, NoElement

ASSUME SeatAssumption == NoAgent \notin Agents /\ NoElement \notin Elements

VARIABLES
    seat,               \* Adapter.seat: who has it
    request,            \* the call of each agent
    taker, known,       \* who was given the last snapshot, and what the ref named in it
    link,               \* the client: "up", "down" (a campaign may bring it back), "closed"
    scope, setConfig,   \* the driver's capture_scope; how its last set_config ended
    hadronRefs          \* window.__hadronRefs: what the ref names, if anything still does

seatVars == <<seat, request, taker, known, link, scope, setConfig, hadronRefs>>

\* The sub-calls of an action, in order.  A window named by half of its ids is
\* looked up first.
ComputerUse == [
    desktop  |-> {<<"setDesktop", "picture", "setWindow">>},
    window   |-> {<<"picture">>, <<"lookup", "picture">>},
    read     |-> {<<"read">>, <<"lookup", "read">>},
    act      |-> {<<"act">>, <<"lookup", "act">>}]

\* The last steps of a click depend on the frame.
Browser == [
    snapshot |-> {<<"resolve", "snapshot", "frame">>},
    move     |-> {<<"resolve", "script">>, <<"resolve", "script", "settle", "state">>},
    page     |-> {<<"resolve", "state">>},
    click    |-> {<<"resolve", "measure", "frame">>},
    type     |-> {<<"resolve", "touch">>, <<"resolve", "touch", "settle", "state">>},
    text     |-> {<<"resolve", "look">>}]

Programs ==
    [goal \in DOMAIN ComputerUse \cup DOMAIN Browser |->
        IF goal \in DOMAIN Browser THEN Browser[goal] ELSE ComputerUse[goal]]

ByRef == {"click", "type", "text"}
SetConfig == {"setDesktop", "setWindow"}

NoCall == [goal |-> "none", todo |-> <<>>, live |-> TRUE, done |-> FALSE, hit |-> NoElement,
           aim |-> NoElement, shown |-> "none", failed |-> "none", retry |-> FALSE]

SeatInit ==
    /\ seat = NoAgent /\ request = [k \in Agents |-> NoCall]
    /\ taker = NoAgent /\ known = NoElement
    /\ link = "up" /\ scope = "window" /\ setConfig = "answered"
    /\ hadronRefs = NoElement

desktop == <<link, scope, setConfig>>
browser == <<taker, known, hadronRefs>>
-----------------------------------------------------------------------------
(* ComputerUse and Browser: in and out *)

Becomes(k, c) == request' = [request EXCEPT ![k] = c]
Queued(k) == request[k].goal = "queued"
Running(k) == request[k].goal \in DOMAIN Programs
Step(k) == Head(request[k].todo)

\* wait takes no seat; what the others ask for is told when they have it.
Enters(k) ==
    /\ request[k] = NoCall
    /\ \E goal \in {"wait", "queued"} : Becomes(k, [NoCall EXCEPT !.goal = goal])
    /\ UNCHANGED <<seat, desktop, browser>>

ContextEnds(k) ==
    /\ request[k] # NoCall /\ request[k].live
    /\ Becomes(k, [request[k] EXCEPT !.live = FALSE])
    /\ UNCHANGED <<seat, desktop, browser>>

\* A timer passes, or a context ends before anything was sent: the second look
\* at it, with the seat held, included.
LeavesQueue(k) ==
    /\ request[k].goal = "wait" \/ (Queued(k) /\ ~request[k].live)
    /\ Becomes(k, NoCall)
    /\ UNCHANGED <<seat, desktop, browser>>

TakesSeat(k) ==
    /\ Queued(k) /\ request[k].live /\ seat = NoAgent /\ seat' = k
    /\ \E goal \in DOMAIN Programs : \E program \in Programs[goal] :
        /\ Becomes(k, [NoCall EXCEPT !.goal = goal, !.todo = program])
    /\ UNCHANGED <<desktop, browser>>

Ended(k) == Running(k) /\ request[k].todo = <<>>

Returns(k) ==
    /\ Ended(k) /\ Becomes(k, NoCall)
    /\ seat' = IF seat = k THEN NoAgent ELSE seat
    /\ UNCHANGED <<desktop, browser>>

Failure(c, step, again) ==
    [NoCall EXCEPT !.goal = c.goal, !.live = c.live, !.done = c.done,
                   !.failed = step, !.retry = again]

\* The pause of stateAfterSettle.
Settles(k) ==
    /\ Running(k) /\ request[k].todo # <<>> /\ Step(k) = "settle"
    /\ \/ Becomes(k, [request[k] EXCEPT !.todo = Tail(@)])
       \/ ~request[k].live /\ Becomes(k, Failure(request[k], "settle", FALSE))
    /\ UNCHANGED <<seat, desktop, browser>>
-----------------------------------------------------------------------------
(* Sub-calls: invokeAs *)

ReadOnly == {"lookup", "read", "picture", "setDesktop", "setWindow", "resolve", "frame"}
BestEffort == {"lookup", "setWindow", "frame"}

\* classifyErr: a mutation may be tried again only if it was never sent.
Retryable_ifLost(step, error) == error # "context"
Retryable(step, error) == step \in ReadOnly \/ error = "disconnected"

Same(k) == [call |-> request[k], scope |-> scope, refs |-> hadronRefs]

\* What the driver does for a step: the call, the scope and the refs.
DriverDoes(k) ==
    CASE Step(k) = "act" -> {[Same(k) EXCEPT !.call.done = TRUE]}
      [] Step(k) = "setDesktop" -> {[Same(k) EXCEPT !.scope = "desktop"]}
      [] Step(k) = "setWindow" -> {[Same(k) EXCEPT !.scope = "window"]}
      [] Step(k) = "picture" -> {[Same(k) EXCEPT !.call.shown = scope]}
      [] OTHER -> {Same(k)}

\* What a script does in the page; one that finds its ref gone does nothing and
\* says so.  A pointer hits what is where the element was, if only the page.
Stale == hadronRefs = NoElement
Hits(k, e) == [Same(k) EXCEPT !.call.hit = e, !.call.done = e # NoElement]
Lands(k, e) == [Same(k) EXCEPT !.call.hit = e, !.call.done = TRUE]
Somewhere == Elements \cup {NoElement}
PageDoes(k) ==
    CASE Step(k) = "script" -> {[Same(k) EXCEPT !.call.done = TRUE]}
      [] Step(k) = "snapshot" -> {[Same(k) EXCEPT !.refs = e] : e \in Somewhere}
      [] Step(k) = "measure" -> {[Same(k) EXCEPT !.call.aim = hadronRefs]}
      [] Step(k) \in {"touch", "clickScript"} -> {Hits(k, hadronRefs)}
      [] Step(k) = "look" -> {[Same(k) EXCEPT !.call.hit = hadronRefs]}
      [] Step(k) = "pointer" ->
            {Lands(k, e) : e \in IF request[k].aim = NoElement THEN Somewhere ELSE {request[k].aim}}
      [] OTHER -> {Same(k)}

Results(k) == IF request[k].goal \in DOMAIN Browser THEN PageDoes(k) ELSE DriverDoes(k)

\* What is left after a step: the frame decides how a click is made, and an
\* error ends the call, but for the restore that capture has deferred.
ClickBy(how) == <<how, "settle", "state">>
Rest(c, usable) ==
    IF c.goal = "click" /\ Head(c.todo) = "frame"
    THEN ClickBy(IF usable THEN "pointer" ELSE "clickScript")
    ELSE Tail(c.todo)
Deferred_ifNoError(c) == <<>>
Deferred(c) == IF c.goal = "desktop" /\ Head(c.todo) = "picture" THEN <<"setWindow">> ELSE <<>>

GoesOn(k, c, usable) == Becomes(k, [c EXCEPT !.todo = Rest(c, usable)])
Stops(k, c, again) ==
    Becomes(k, [Failure(c, Step(k), again) EXCEPT !.todo = Deferred(c)])

\* A script's stale_ref is an error of the call, but not that of clickScript.
FoundStale(k) == Step(k) \in {"measure", "touch", "look"} /\ Stale

InDriver(k) == seat = k /\ Running(k) /\ request[k].todo # <<>> /\ Step(k) # "settle"

\* The frame may be missing or make no sense.
Replies(k) ==
    /\ InDriver(k) /\ link = "up"
    /\ \E r \in Results(k), usable \in BOOLEAN :
        /\ IF FoundStale(k) THEN Stops(k, r.call, FALSE) ELSE GoesOn(k, r.call, usable)
        /\ scope' = r.scope /\ hadronRefs' = r.refs
        /\ IF Step(k) = "snapshot"
           THEN taker' = k /\ known' = r.refs
           ELSE UNCHANGED <<taker, known>>
    /\ setConfig' = IF Step(k) \in SetConfig THEN "answered" ELSE setConfig
    /\ UNCHANGED <<seat, link>>

\* resolveBrowserWindow has no window to give; only without any browser is that
\* worth another try.
Unresolved(k) ==
    /\ InDriver(k) /\ Step(k) = "resolve" /\ link = "up"
    /\ \E again \in BOOLEAN : Stops(k, request[k], again)
    /\ UNCHANGED <<seat, desktop, browser>>

FailsFast(k) ==
    /\ InDriver(k) /\ link # "up"
    /\ IF Step(k) \in BestEffort
       THEN GoesOn(k, request[k], FALSE)
       ELSE Stops(k, request[k], Retryable(Step(k), "disconnected"))
    /\ UNCHANGED <<seat, desktop, browser>>

\* An error the driver reports, a reply nobody can read, a lost connection, the
\* end of the context: the step may have had its effect.
Errs(k) ==
    /\ InDriver(k) /\ link = "up"
    /\ \E error \in {"tool", "lost", "context"}, r \in Results(k) \cup {Same(k)} :
        /\ error = "context" => ~request[k].live
        /\ IF Step(k) \in BestEffort
           THEN GoesOn(k, r.call, FALSE)
           ELSE Stops(k, r.call, error # "tool" /\ Retryable(Step(k), error))
        /\ scope' = r.scope /\ hadronRefs' = r.refs
        /\ link' = IF error = "lost" THEN "down" ELSE link
        /\ setConfig' = IF Step(k) \in SetConfig THEN error ELSE setConfig
    /\ IF Step(k) = "snapshot"
       THEN taker' = NoAgent /\ known' = NoElement
       ELSE UNCHANGED <<taker, known>>
    /\ UNCHANGED seat
-----------------------------------------------------------------------------
(* The driver and the page *)

\* A new driver process starts with its own capture_scope.
Connects ==
    /\ link = "down" \/ (link = "closed" /\ seat = NoAgent)
    /\ link' = "up" /\ scope' = "window" /\ setConfig' = "answered"
    /\ UNCHANGED <<seat, request, browser>>

\* A stop closes the client under the calls that have it; the next one, with a
\* seat of its own, begins after them here.
Closes ==
    /\ link # "closed" /\ link' = "closed"
    /\ UNCHANGED <<seat, request, scope, setConfig, browser>>

\* A re-render or a navigation moves what was measured; it may also take away
\* what the ref named.
PageChanges ==
    /\ hadronRefs' \in {hadronRefs, NoElement}
    /\ request' = [k \in Agents |-> [request[k] EXCEPT !.aim = NoElement]]
    /\ UNCHANGED <<seat, desktop, taker, known>>

SeatNext ==
    \/ \E k \in Agents :
        \/ Enters(k) \/ ContextEnds(k) \/ LeavesQueue(k) \/ TakesSeat(k) \/ Returns(k)
        \/ Settles(k) \/ Replies(k) \/ Unresolved(k) \/ FailsFast(k) \/ Errs(k)
    \/ Connects \/ Closes \/ PageChanges

SeatSpec == SeatInit /\ [][SeatNext]_seatVars

\* A call that has the seat goes on: the driver answers, or its context ends.
SeatFairness ==
    \A k \in Agents :
        WF_seatVars(Settles(k) \/ Replies(k) \/ Unresolved(k) \/ FailsFast(k) \/ Errs(k) \/ Returns(k))
SeatFairSpec == SeatSpec /\ SeatFairness
-----------------------------------------------------------------------------
Succeeds(k) == Ended(k) /\ request[k].failed = "none"

\* A desktop picture that succeeds is one of the desktop, whoever had the seat
\* before and whatever was left of the scope.
DesktopIsShown ==
    \A k \in Agents : Succeeds(k) /\ request[k].goal = "desktop" => request[k].shown = "desktop"

\* Between calls the driver is back at window scope if it answered the last
\* set_config, also after a picture that failed (comment at adapter.go:153-163).
ScopeIsRestored ==
    seat = NoAgent /\ link = "up" /\ setConfig = "answered" => scope = "window"

\* A script that types in the element of a ref, or reads it, had the element
\* that the last snapshot showed its taker, or the call fails (comment at
\* browser.go:612-616).  Nothing is said of refs from an earlier snapshot.
RefHits ==
    \A k \in Agents :
        Succeeds(k) /\ request[k].goal \in {"type", "text"} /\ taker = k => request[k].hit = known

\* A call that succeeds has shown and touched what it was asked for.
OkIsTrue == DesktopIsShown /\ ScopeIsRestored /\ RefHits

\* A sub-call that changes something and fails with leave to try again has
\* changed nothing: it was never sent (comment at adapter.go:403-415).
Mutations == {"act", "script", "touch", "pointer", "clickScript"}
RetryIsSafe ==
    \A k \in Agents :
        Ended(k) /\ request[k].retry /\ request[k].failed \in Mutations => ~request[k].done

\* The same of the whole call, which is what the caller tries again.  Fails: an
\* action is followed by a read of the page, and when the client is closed
\* during the pause between them, the read fails with leave to try again.
RetriedDidNothing == \A k \in Agents : Ended(k) /\ request[k].retry => ~request[k].done

\* A click by ref that succeeds has clicked: a ref that is gone is "reported,
\* never silently retargeted" and "fails loudly" (comments at browser.go:612-616,
\* 715-718).
ClickIsDone ==
    \A k \in Agents : Succeeds(k) /\ request[k].goal = "click" => request[k].done

\* A window picture shows a window, unless the driver itself refused to go back:
\* "a failed desktop read with an otherwise-live session must not leave
\* capture_scope flipped" (comment at adapter.go:155-161).
WindowIsShown ==
    \A k \in Agents :
        Succeeds(k) /\ request[k].goal = "window" => request[k].shown = "window" \/ setConfig = "tool"

\* In every session at least one of the two promises is kept.  Fails, so each of
\* them fails: the answer of clickScript is dropped, and a set_config whose
\* context ends on the way leaves the driver at desktop scope.
OnePromiseIsKept == []ClickIsDone \/ []WindowIsShown
=============================================================================
