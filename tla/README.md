# hadron-desktop in TLA+

A verification project kept beside the hadron-desktop sources (`src/`). It has
TLA+ modules that follow the code, TLC runs that check them on small instances,
and TLAPS proofs of the main safety properties for every instance.

## The system

hadron-desktop is an immutable desktop image on Kairos. Its own Go code is three
programs: the update service (`update/`), the remote agent (`agent/`), and the
live installer (`install-ui/`). The rest is image building, units and assets.

### Inventory

| Component | State | Operations | What makes it correct |
|---|---|---|---|
| Update daemon `update/daemon.go` | state, pending word, newest tag, the job pointer, `rebooting`; marker and tag files in `/run`, pin file | Check, Releases, Inspect, Apply, Cancel, Reboot, RebootPrevious, the job goroutine | one kairos-agent at a time, one per boot; the running image stays in a slot; files and state agree after any crash; every install gets a verdict |
| D-Bus service `update/dbus.go` | calls in flight, last use, closed flag, one network slot | enter/leave, tryClose, polkit, one method per daemon call | no call is lost by the idle exit, one network call at a time |
| Client and Watch `update/client.go` | D-Bus connection, last status shown | one method per call, retry on Exiting, Watch (signals, poll, owner changes) | the tray ends up showing the daemon's state |
| CLI, tray, notifications | menu model, pending dialogs | commands over the client | presentation |
| Release policy, registry, pin | none; files | resolve, classify, compare versions | classification is total and agrees with the comparison |
| Emergency controller `agent/internal/control` | paused, generation | Enter, Pause, Resume, Status | a pause cancels and refuses everything; a resume starts afresh |
| Gateway `agent/internal/gateway` | call semaphore, computer-use count | route one MCP call: admit, take a slot, choose a broker, call, cap, audit | slots are returned on every path; a stopped call ends |
| Session broker `agent/internal/session` | paused, closed, generation, semaphore; the Cua child | guard, Pause, Resume, Close; ensure/Stop/Close of the child | no live call in a paused broker |
| Root helper `agent/internal/roothelper` | the same, behind an admin bearer | guard, Pause, Resume, Close | the same; the bearer is checked first |
| Broker RPC `agent/internal/rpc` | connections | call, health, pause, resume over a Unix socket | cancellation crosses the hop |
| Cua client `agent/internal/cua/client.go` | child session, connected, reconnecting, closed | start, call, reconnect campaign, close | one client at a time; no child without an owner |
| Cua adapter and browser `agent/internal/cua/adapter.go`, `browser.go` | the seat, the driver's capture scope, the refs of the page | one computer_use or browser action, made of several driver calls | a success is what was asked for; a retry does nothing twice |
| Process manager `agent/internal/process` | children, rings, cgroup leaves | bash, reap, readers | no process of a call outlives it |
| File service `agent/internal/files` | files | read, search, write, patch (temporary file and rename) | all or nothing |
| Provisioning `agent/internal/provision` | config, token and certificate files | Materialize, Rotate, rollback | after a crash, the next run completes |
| Bearer check `agent/internal/auth` | digests, overlap window | verify | both ends of the rotation window |
| Display watchdog `agent/internal/watchdog` | absence timer, restart times, degraded | tick | bounded restarts, then degraded |
| Installer `install-ui/` | wizard step, answers | key events, validation, run | no install without every confirmed answer |
| Image, units, scripts, splash | | | not modelled |

Interaction: the tray and CLI call the update service over D-Bus and read its
signals; the service starts `kairos-agent` as a child in its own cgroup; only a
reboot changes the running slot. MCP clients call the gateway over HTTPS; the
gateway forwards each call over a Unix socket to the session broker or, for an
administrator's OS tools, to the root helper; `hadron-agent control` reaches the
controller in the gateway process over a control socket, and the controller
tells the session broker to pause and resume.

What is hard in it: goroutines that finish after their job was cancelled, a
daemon that dies while an image is half written, a shutdown racing an install, a
pause racing calls in three processes, cancellation that arrives late, restarts
that forget a pause. Each is listed with its line in `PROJECT.json` under
`hazards`, with the properties that watch it.

## Modules

| Module | Models |
|---|---|
| `SlotUpdate` | the abstract promise on the A/B slots: at most one writing session per boot, on the system that runs |
| `UpdateDaemon` | the update daemon, its job, its files, kairos-agent and the machine; implements `SlotUpdate` |
| `MCUpdateDaemon` | values for its runs |
| `UpdateDaemon_proofs` | invariants and refinement, proved |
| `EmergencyStop` | controller, gateway pipeline, hop, session broker and root helper |
| `MCEmergencyStop` | values and restricted environments for its runs |
| `EmergencyStop_proofs` | its safety properties, proved |
| `UpdateWatch` | the service on the bus, its event queue, the client's Watch and retry, the tray and an installer that follow it |
| `MCUpdateWatch` | values for its runs |
| `UpdateWatch_proofs` | its safety properties, proved |
| `ImageLookup` | what the daemon reads from a registry before it shows or installs an image |
| `ImageLookup_proofs` | its property, and the order of releases, proved |
| `ProcessTeardown` | one bash call: the shell and its forks, the cgroup, the group, the readers |
| `CuaClient` | the driver of the session broker: ensure, Stop, Close, the child and its reconnect campaign |
| `DesktopSeat` | what a computer_use or browser call does through that driver |
| `Cua_proofs` | the safety properties of `CuaClient` and `DesktopSeat`, proved |
| `AgentFiles` | write and patch of the file service, with power loss; Read and Search as operators |
| `AgentState` | OEM seed, provision, token rotation, and the bearers the services accept |
| `MCAgentState` | seeds for its runs |
| `AgentDisk_proofs` | the safety properties of `AgentFiles` and `AgentState`, and `Read`, proved |
| `DisplayWatchdog` | the poll that restarts Ly |
| `Supervision_proofs` | the safety properties of `ProcessTeardown` and `DisplayWatchdog`, proved |
| `InstallUI` | the installer's wizard and its progress screen |
| `InstallUI_proofs` | its safety property, proved |
| `MCSafety` | runs seven parts side by side for what may never happen, and checks the pure operators |
| `MCLive` | runs five parts side by side under fairness, for what must happen |

`SlotUpdate` is an abstract specification that `UpdateDaemon` implements.
`UpdateWatch` shows the job of `UpdateDaemon` as the bus shows it; `CuaClient` is
the child that `EmergencyStop`'s session pause leaves alone and its resume stops;
`DesktopSeat` uses a client whose life `CuaClient` has.

### UpdateDaemon

One action is one critical section of `Daemon.mu`, or one call made without the
lock. A thread is a goroutine: a D-Bus call (`Check`, `Reboot`,
`RebootPrevious`) or the job of `Apply`. `pc[t]` is what it does next; `prev`,
`reviewed` and `source` are its locals (`job.prev`, the digest argument and the
image resolved by `evaluate`). The job pointer `d.job` is the thread itself, so
`Abandoned(t)` is the code's `d.job != j`.

`marker` and `latestFile` are in a tmpfs and vanish at `Boot`; `pinned` says
whether a pin file is there. `active`, `passive` are the slots, `Missing` while
kairos-agent rewrites one. An image is named by its version, so "newer" is `>`.

`Die` is every way the process ends: crash, kill, idle exit, loss of the bus,
stop. systemd kills the cgroup, so kairos-agent ends with it at any point, also
between the swap and the write. `Start` is the D-Bus activation; systemd is
assumed not to activate it during a shutdown (`~shutting`).

kairos-agent is external. `AgentSwaps`, `AgentWrites`, `AgentSucceeds` follow the
comments and the design document: from the active slot it moves active to
passive, from the passive slot it leaves that alone, then it writes active; each
step may be the last (`UpgradeFails`).

Abstracted: detail texts, progress lines, the release cache, the shutdown
inhibitor (it delays a shutdown, `Die` may still come), polkit and the
refusal of Flatpak callers. The order in which change events are delivered is in `UpdateWatch`, what
`evaluate` does on the registry in `ImageLookup`.

### EmergencyStop

`paused`, `gen`, `cancelled` are the controller; a generation is a number and its
context is done once the number is in `cancelled`. `op[o]` is a control request:
`PauseFlag` is the critical section, `PauseCancel` and `PauseTell` come after the
lock is released, as in the code. A call has a part in the gateway (`gw`, with
the generation captured by `Enter` and its own context `ctxDone`) and one in a
broker (`br`, with the broker's generation and `hopDone`, the context of the
server's request). `GiveUp` answers the client and drops the connection while
the broker still works; `HopNotices` is the broker's server seeing that.

The session broker and the root helper have the same guard, so brokers are
functions over `Sides`. The root helper has its own lock, `rootLocked`, because
one path of its `Pause` keeps it. `SessionPause` or nothing in `PauseTell` is a
request that fails: the controller only logs the error.

Restarts (`Restart=on-failure`) may hit any process at any time; a broker's
`Close` happens only before its process ends and is seen as that restart. Tools
are abstracted to `running`; an executor returns after its context is done,
which is what `processes` and `cua` promise. Credentials are a choice
(`Unauthorized`), the response cap, audit and status file are left out; the Cua
child is in `CuaClient`.

### UpdateWatch

`proc` is the process that owns the bus name: none, up, or closing once
`tryClose` decided to exit. `events`, `batch` and `delivering` are
`Daemon.events`, deliver's local `evs` and `Daemon.delivering`; `inside` is
`service.active`. A client is a tray (`trayapp.go`, for ever) or an installer
(`installFlow` in `main.go`, one install); `pc[c]` is where its goroutine is, `tries` the
loop of `callFlags`, `inbox` and `last` its Watch, `view` what it shows. The bus
delivers in order and loses nothing to a subscriber; a signal sent before the
subscription is missed, which is what the poll is for.

`JobEnds` is everything from the end of kairos-agent on. `outcome`
is a history variable, how kairos-agent really ended: the daemon says so even when
the marker cannot be rewritten and goes on saying started (`daemon.go:552-555`,
`563-567`), in which case a later process says that the install was interrupted.
`InstalledIsReady` is therefore about the outcome and not about the marker.

`FollowedJobEnds` is for a tray that its Watch can help: the service is there, or its
loss is still to be read. `TrayLeavesBusy`, without that condition, is what the
comment above Watch says, and fails (finding 7).

### ImageLookup

A digest is the content it identifies; what a request gets is any content
under any claim, so the tag may move and anything may answer in between. The
chain is index, manifest, config, verified or not as `registry.go` does it; then
`policy.go` judges the labels. Any manifest of an index may be picked.

### ProcessTeardown

One Bash call, from the cgroup to the return. `Fork`, `Setsid` and `Exit` are
the command's processes; the kernel is external: a killed process is gone at
once, and a timer fires only when what it bounds cannot happen. `Live.cfg`
sets `RequireCgroup = FALSE`, so both the cgroup and the fallback to the process
group are explored; production has it TRUE.

### CuaClient

`CuaComputer` makes a `cua.Client` on demand (`EnsureLooks`, `EnsureLocks`),
`Stop` and `Close` take it away (`toClose` until it is closed, outside the
lock). A client has one child, one campaign at a time, and calls in flight
(`session[k]` is the session a call took before it let the lock go).

### DesktopSeat

A call is a program, a sequence of driver calls, run by whoever has the seat.
Every driver call can fail before or after its effect; the page and the driver
change at any time. One ref stands for all refs, `known` is what it named in the
last snapshot and `taker` who was given it. A closed client's calls end before the
next client's begin (they have seats of their own). Coordinates and window matching are left out.

`setConfig` is how the driver's last `set_config` ended. Where it was answered, a
window picture shows a window; the comment at `adapter.go:153-164` makes the restore
best effort beyond that, and finding 10 is what that leaves. `OkIsTrue` and `RetryIsSafe`
are what the code does keep, and the proofs are of these: a click counts in
`ClickIsDone` (finding 9), a read of the page after an action in
`RetriedDidNothing` (finding 8).

### AgentFiles

A version of a file is the set of edits it holds. `PowerLoss` may tear a file
that was renamed before it was synced; `Kill` stops the agent anywhere.
`disturbed` are the paths that the concurrent write touched, where the patch
promises nothing.

### AgentState

Bearers, certificates and keys are numbers in the order they were made; those a seed
brings, its inline key pair included, are negative. The files are
one record `disk`, written one at a time by `WriteSucceeds` or not (`WriteFails`), with `rollback` as the
code does it and `CommandKilled` at any point. The gateway and the helper keep what they read
at their start; the gateway does not start with a key that is not its
certificate's. One command runs at a time.

`Pairs` is `resolveTLS`: the seed's pair, without a look at whether the two belong
together; or the pair on the disk, whatever it is; or a new one when a file is
missing or cannot be read. A `provision` killed between the certificate and the key
therefore leaves a mismatched pair that later runs keep (see Observations), so
`FilesAgree` speaks of the certificate and its fingerprint, and not of the key.

### DisplayWatchdog

Time is counted in polls; instants are ages. The probes see the display as it is
when asked, one after the other, so it may change in between.

### InstallUI

The wizard (`page`, `choice`, `console`) and then the progress screen: the
installer process, the goroutine that reads and waits for it, the messages
posted to the terminal program, and the user. Typed text is empty, refused or
accepted. `loaded` is whether the last `loadkeys` did its work, which nothing in the
code looks at (`locale.go:369-371`); `KeymapFollowsTheChoice` is for when it did.

### MCSafety and MCLive

The parts share no memory, so they are checked together: a behaviour of
`SafetySpec` or `LiveSpec` is a behaviour of one part, chosen at the start (`part`),
while the variables of the others rest in one initial state. A property of a part
holds here exactly when it holds of the part alone: an invariant or an action property
says nothing new of a part at rest, and the fairness of `LiveSpec` is that of each
part's own specification, its actions enabled only while the part runs.

`AllSwapped` is the symmetry of `MCSafety`. The two threads (calls, agents, paths
and so on) of every set are alike; since one part runs at a time, one permutation that swaps
the two of all the sets at once is enough and is sound.

`MCSafety` also checks
`Read`, `Search`, `Newer` and `Authorized` against what they are for, over all small
inputs (four named `ASSUME`s).

## Runs

| Run | Instance | Shows |
|---|---|---|
| `safety` | `Safety.cfg`: the update daemon, the emergency stop, the Cua client, the seat, the file service, the agent's state and the image lookup | what none of them may ever do, with crashes, failures and overlaps everywhere; the daemon implements `SlotUpdate` |
| `live` | `Live.cfg`: the update daemon, the emergency stop as wired, Bash, the watchdog, the installer | what must happen, and the safety that depends on this instance |
| `update_watch` | 1 tray, 1 installer, 2 jobs, the process ends once | no lost wake-up, no work in a closing service, true views, a followed job comes to an end |
| `update_reboots` | 2 threads, 2 reboot calls | finding 1: a failing second Reboot re-opens Apply |
| `stop_resumed` | 1 call, 1 operator, nothing lost | finding 2: a resume of a running controller loses a generation |
| `stop_overlap` | 1 call, 2 operators, nothing lost | finding 3: pause and resume reach the session out of order |
| `stop_root` | 1 call, 1 operator, fair | finding 4: the root helper's Pause keeps its lock |
| `cua_retried` | 1 caller, 1 child, 1 client, fair | finding 5: an exhausted campaign is the last |
| `rotate_revokes` | seeds of `MCSeeds`, overlaps 0 and 1 | finding 6: a rotated-out bearer is accepted until a restart |
| `watch_deadjob` | 1 tray, 1 installer, 1 job, the process ends once | finding 7: a tray shows a job that died before its Watch for ever |
| `seat_retried` | 1 agent, 2 elements | finding 8: what was done is said to be worth another try |
| `seat_clicked` | 1 agent, 2 elements, fair | findings 9 and 10: a success without a click, a window picture of the desktop |

Bounds. Two threads are one goroutine that was abandoned and the job that runs
now, or the job and a reboot call; a third adds no new pair. One further boot
reaches the fall back to passive, a half-written slot and the loss of the tmpfs.
Images are older, running and newer. Two calls on semaphores of one give every
contention and shedding; two operators give every overlap of a pause and a
resume; one further generation per process separates a call of the current
generation from one left behind. `CHECK_DEADLOCK FALSE` in all runs: the bounds on boots,
restart calls and generations let a behaviour end, and so do a call or an
installation that is over.

In `update_watch` two jobs are a check and an install, or one job that another client
cancels and the next one; one end of the process reaches the retry, the loss of
the owner and the new activation. Elsewhere: two forks, one that leaves the
group and one that does not; two callers, two clients and two children, so that a
stop overlaps a start and a campaign; two agents on one seat and two elements; a patch of two
entries on the same path or on two, beside one write; two bearers or certificates
beyond the seed's; a rate of 2 in a window of 5 with a grace of 2, so that a restart can
fall on each side of the window; three layouts, one without a keymap; a pipe of one line
and three lines, so that the installer blocks; an index, an index of indexes, images
of another platform and of another flavour.

The updates of `live` have one reboot call per boot and no further boot, those of `safety` two
and one; the stop has one call and two operators in `live`, two and one in `safety`.
`live` allows one reboot call per boot: with two, `NoInstallInShutdown`
fails, which is the finding of `update_reboots`. It also leaves out requests to
the root helper's own pause endpoint, which nothing in the repository sends
(`cmd/hadron-agent/main.go:312-316`); with one, its calls wait for ever (`stop_root`).

Fairness. In `UpdateDaemon` a goroutine that can go on does (HTTP calls have
timeouts, kairos-agent ends); nothing makes a client call, the daemon start or
the machine boot. In `EmergencyStop` goroutines go on, contexts propagate, a closed
connection is noticed; a tool need not end by itself, only once interrupted, and
a queued call need not get a slot.

In `UpdateWatch` goroutines go on, requests and kairos-agent end and a released
name goes; no user acts and no process has to exit or die. In the other parts of `live` the
goroutine of Bash and the kernel go on (a command need not end); time passes and
the watchdog's goroutine goes on; each running side of the installer goes on. The
fairness of `CuaClient` is that the agent keeps calling and goroutines go on, that of
`DesktopSeat` that a call which has the seat does: the driver answers or a context ends.

### Mutants

A definition named `X_bug` stands just before `X` and is `X` with a plausible
mistake; with it in place of `X` the property named here fails.

| Mutant | Breaks |
|---|---|
| `ReadMarker_verbatim` | `TypeOK` (UpdateDaemon) |
| `ReadMarker_trusting` | `MarkerTellsTheInstall` |
| `ApplyRefused_overPending` | `KnownGoodKept` |
| `Cancellable_always` | `OneWriter` |
| `JobDone_kept` | `JobBehindState` |
| `OutcomeWord_hopeful` | `InstalledMeansReady` |
| `Announces_any` | `AnnouncedIsNewer` |
| `WriteStarted_nothing` | `ImplementsSlotUpdate` |
| `SameDigest_any` | `ReviewedOnly` |
| `Abandoned_never` | `AbandonedLeavesNoTrace` |
| `Peeks_never` | `PendingUntilBoot` |
| `RebootRefused_never` | `NoInstallInShutdown` |
| `PreviousRefused_overPending` | `PreviousIsPrevious` |
| `OutcomeState_forgotten` | `EveryApplyEnds` |
| `FreeGatewaySlot_twice` | `StopTypeOK` |
| `FreeBrokerSlot_leak` | `SlotsBalance` |
| `ResumeIgnored_never` | `PausedBrokerHasNoLiveCall` |
| `RecheckFails_never` | `NothingStartsInPausedBroker` |
| `Interrupted_byPauseOnly` | `StoppedCallEnds` |
| `ToCancel_current` | `GenerationFollowsFlag` |
| `MayClose_callsIgnored` | `NoWorkInClosingService` |
| `NothingQueued_batchSent` | `DeliverAwake` |
| `TakeEvents_first`, `VerdictOf_anyPending` | `ViewsAreTrue` |
| `Polls_never` | `FollowedJobEnds` |
| `OwnerGone_unseen` | `FollowEnds` |
| `LeafKilled_termOnly` | `NothingOutlivesItsCall` |
| `JoinTimesOut_never` | `StoppedBashReturns` |
| `FindsNone_firstLook` | `OneOpenClient` |
| `TooLate_never` | `OnlyACallDropsAChild` |
| `Deferred_ifNoError` | `OkIsTrue` |
| `Retryable_ifLost` | `RetryIsSafe` |
| `MayRename_unsynced` | `NeverTorn` |
| `Replaced_oneShort` | `PatchIsAllOrNothing` |
| `RestoredFiles_earlier` | `FilesAgree` |
| `GatewayRead_errorIsAbsent` | `UserBearerIsKept` |
| `AtLimit_tooLate` | `RateHolds` |
| `AbsentFrom_everyTick` | `AbsentIsRestarted` |
| `ExitCode_ignoresFailed`, `Wanted_asFound` | `InstallIsAsTold` |
| `ScanFails_swallowed` | `ProgressEnds` |
| `Matches_claim` | `LookupIsSound` |

## Findings

1. `Reboot` clears `rebooting` when its own backend call fails, although an
   earlier `Reboot` may have succeeded: an install can start under a shutdown.
2. `Controller.Resume` replaces the generation of a running controller without
   cancelling it: a root command admitted before survives the next pause.
3. `Pause` and `Resume` tell the session broker outside the lock: overlapping
   requests (two toggles in a row) can leave it paused under a running
   controller, or the reverse.
4. `roothelper.Helper.Pause` returns with its mutex locked. No deployed process
   sends the request, so it is latent.
5. A reconnect campaign of the Cua client that has used up its 30 seconds is the
   last one: `Call` answers `ErrDisconnected` before the line that would start
   another, and `ensure` keeps the client. The comment at `client.go:23-25` says a
   later call starts a fresh campaign.
6. `rotate` gives `Rotate` a reload that does nothing, so the gateway that runs
   accepts the old bearer, overlap or not, until it is restarted; the comment at
   `main.go:839-842` names the wiring as missing.
7. If the update service dies between a tray's Status and its Watch, the owner is
   already gone and the poll, which gets no answer, notes idle and sends nothing
   (`client.go:256-261`): the tray shows the dead job for ever. The comment above Watch says
   that a caller never waits on a dead job.
8. A browser action that was done is answered as retryable when a Stop or Close ends
   the client while the page settles: the read of the page that follows fails with
   `ErrDisconnected`, which `classifyErr` takes as proof that nothing was sent
   (`adapter.go:403-416`).
9. `browserClick` drops the answer of its second script (`browser.go:360-363`). An element that
   went away after it was measured gives a success without a click, while
   `browser.go:612-616` and `715-718` say that a ref that is gone is reported.
10. A `set_config` whose context ends on the way returns before its restore is deferred
   (`adapter.go:165-167`), although the driver may have switched: a later window picture then
   shows the desktop, which the comment above it (153-164) is there to exclude.
   `seat_clicked` refutes that a session keeps at least one of 9 and 10, so that its one
   counterexample shows both.

## Observations

Met while modelling, and not findings: the code does not say the opposite, or
the case is outside the models.

Update service:
- A Reboot that overlaps a RebootPrevious boots the other's choice of slot
  (`daemon.go:697`).
- A crash between the marker's last word and the pin leaves the pin of the image
  before (`daemon.go:573`); later announcements follow it.
- The command line takes an error of another client's check, between its Apply
  and its own end, for its own (`main.go:745-747`).
- `Newer` compares prerelease strings as text: rc.10 is older than rc.9.

Computer use:
- A pointer click lands where the element was if the page moved after it was measured.
- A restore of `capture_scope` that the driver itself refuses leaves the desktop
  scope behind; the comment at `adapter.go:161-164` calls it best effort.
- A ref of an older snapshot resolves against a newer one, since the array is
  replaced and an index is all a ref is; `resolveRefJS` reports the detached node
  only, while the design note says a stale ref is refused.
- `onReady` callbacks are goroutines without an order, so readiness may stay at an
  older value (`service.go:712`); nothing that changes state reads it.
- A protocol error from a live child takes the same path as its death, so the
  session is dropped and a new child started.

Agent:
- The pause is not persisted. A gateway that restarts is running, while a session
  broker that did not is paused (`main.go:310`).
- A patch in progress can be observed between two entries, although the comment
  (`service.go:604-606`) says a partial one never is; the property is stated
  on the end. A failed restore still deletes the backups, and a
  backup that could not be written is left behind.
- `Read` takes the size before it opens; `Search` says truncated at exactly
  `max_results` matches. Two concurrent writers overwrite each other.
- A provision that is killed between the certificate and the key, of a seed's pair or of a
  new one, leaves two that do not match. `resolveTLS` keeps what it can read
  (`state.go:374-378`), so every later provision succeeds and the gateway cannot
  start, until one of the files is removed. The reverse: a file of the pair that cannot be
  read, for whatever reason, gets a new pair and clients a new fingerprint.
- An OEM seed that names a digest undoes a rotation at the next boot; a crash
  between the configuration and the token loses the first bearer for good.
- The watchdog's degraded flag never clears, also not when `AbsentIsRestarted` restarts Ly
  again after the window slid; it is only logged, and no property reads it.
- `reap` signals a process group by its number when its leader may have been reaped
  (`manager.go:373-385`). Numbers are not reused in the model of Bash.

Installer:
- Going back to the keyboard page after the password keeps a password typed under
  another layout (`wizard.go:273`), which is what the order of the pages is there to avoid
  (comment at 153-154); `KeymapFollowsTheChoice` says nothing of what was typed. `loadkeys` may also fail unnoticed, over a serial line for one.
- A scan error of the output reports a failure, exit 1, of an installation that goes on
  and may succeed (the failure screen was shown); a SIGTERM ends the program with exit 0
  while it runs, and `ExitTellsTheInstall` leaves it out.
- A process that kairos-agent leaves behind with the pipe open keeps the progress page
  up; the model has one writer of the pipe.

## Proofs

`UpdateDaemon_proofs` proves, for all sets of threads, images and tags and all
bounds, assuming only the ASSUMEs of `UpdateDaemon`:
`TypeCorrect`, `KnownGood`, `MarkerCorrect`, `SingleWriter`, `JobCorrect` and
`Refinement` (UpdateDaemon implements SlotUpdate).

The argument is one inductive invariant `IInv` in four parts. That no second
install starts (`SlotInv`) needs the marker to exist from the first slot write
to the next boot and the state to show it (`MarkerInv`); that the marker and the
state agree needs to know which goroutine may write them, the job (`JobInv`); a
goroutine is the job by where it is (`pc`), which is why `JobInv` ties `pc`,
`state` and `job` together. There is one lemma per part, with one step per
action that touches the part's variables; `Refinement` uses the invariant in
both states of a step.

`EmergencyStop_proofs` proves, for all sets of operators, all finite sets of calls,
all capacities and every bound on the generations: `StopTypeCorrect`,
`StopSlotsBalance`, `StopGenerations`, `StopQuiet` and `StopNoStart`, which cover
every safety property that a passing run checks on `EmergencyStop`.

Its invariant `IInv` has a part for each question. `GenInv` is the controller under
overlapping requests: `GenerationFollowsFlag` is not inductive because `Pause`
drops the lock between the flag and the cancel, so `GenInv` says what the
generation a pending `Pause` captured may be. `FlagInv` and `CallInv` are the
brokers: `PausedBrokerHasNoLiveCall` speaks of the current generation only, and a
call may be older, so `CallInv` adds that an older generation was cancelled.
`HopInv` ties the two sides of a call together; without it a call dropped by the
gateway could take a broker's slot with it, and `SlotsBalance` would not be
inductive. The balance itself counts a set that gains or loses one call at each
step (`OneMore`, `OneLess`). `StopNoStart` follows from `Recheck`'s guard with
`FlagInv` and `CallInv`.

The rest of `UpdateDaemon` stands on the same `IInv`. Each of the three state
properties adds one invariant beside it: `ReadyInv` (what the job and the marker
know of the slot; `InstalledIsWhole`), `AnnounceInv` (what a check that is not
over may still announce; `AnnouncedCorrect`) and `ReviewInv` (the goroutine that
installs holds the digest of its review; `InstallsWhatWasReviewed`). `NoTrace`
and `StaysPending` follow from `IInv` in one step. `NoInstallUnderShutdown` and
`PreviousEntry` assume `MaxReboots <= 1`, with `RebootInv`: while the shutdown
goes on its flag is set and no job is under way. This is what finding 1 breaks, and the
theorem shows that nothing but a second Reboot call can.

`UpdateWatch_proofs`, for all sets of trays and installers and all bounds:
`ClosingIsIdle`, `EventsAreDelivered`, `ViewsCorrect`. `WatchInv` has the types of
the service and of the clients, `JobInv` and `MarkerInv` for the service's own
state, `HeardInv` for what a client was sent, and `TrayInv`: the newest
event under way, or else what the tray shows, is the daemon's state. That is the
strengthening `ViewsAreTrue` needs, since it speaks of a client that has read
everything.

`InstallUI_proofs`, for all layouts and disks: `InstallTold`. Its invariant is
`KeymapFollowsTheChoice` with `WizardInv` (a page that was passed left a complete
answer) and `ReportInv` (which message may be under way, given what the installer did).

`ImageLookup_proofs`, for every content and registry: `LookupCorrect`, by
`ChainInv` (each document that was read is the one named by a verified digest)
and `InstalledInv`. `NewerIsAnOrder` is about the operator alone: `Newer` is a
strict total order on all versions that parse, so the newest tag does not depend on the
order in which a registry lists them.

`Supervision_proofs` has the two loops that end or restart other programs.

- `CallLeavesNothing`, for every set of forks, by `ReachInv` (a command born into
  its cgroup never leaves it, and only a live process holds a pipe) and `KilledInv`
  (once the cgroup and the group were killed nothing of them is left to fork).
- `RateIsLimited`, for every window, grace and limit. `RateHolds` counts the
  restarts that happened (`restarted`), the watchdog those it remembers
  (`restarts`, pruned at some ticks only). `LimitInv` says that the two are equal
  within the window, which is what makes the count inductive. Both are sets of
  ages, so two restarts of one age would count once: `ApartInv` (an absence begins after
  every restart) and `RestartsApart` (a restart is at least `Grace` polls
  after the one before, and `Grace` is not 0) exclude that.

`Cua_proofs` has the driver's client and the calls that go through it.

- `OneClient` and `ChildrenAreOwned`, for all sets of callers and children. `CuaInv`
  adds to the types that one caller at a time is in the start (`StartInv`), that a
  client is open only if it is the current one, or a Stop or Close has it to close
  (`OpenInv`), and that a campaign goes on only while there is no child it could
  replace (`CampaignInv`).
- `SuccessIsTrue` and `RetriesAreSafe`, for all sets of agents, both from
  `SeatIsSound`. `OwnerInv`: one agent runs, the one with the seat. `ProgramInv`: what
  is left of its call is a suffix of its program, or the clean-up after a
  failure; it ties `failed`, `done` and `retry` to how much is left, and
  `RetryIsSafe` is what it says of an empty rest. `ScopeInv`: with the
  driver up, its scope is the window, or the last `set_config` was not answered, or the call with the seat
  changed it and still has to change it back, however that call fails; without it
  a picture could be of the other scope. `RefInv`: the driver's refs are
  those of the last snapshot or none, and what was measured is still there, so a
  script that types or reads without an error had what its taker was given.

`AgentDisk_proofs` has what the agent keeps on disk.

- `NeverTornAnywhere`, for every set of paths and length of the patch, by the types of
  the versions, because nothing is renamed before it was synced, and
  `PatchAllOrNothing`. That needs `PlanInv` (one original per path, without an edit of
  the patch), `AppliedInv` (the edits up to the entry are in the files that nobody else
  changed, and no later one) and `RestoredInv` (the same backwards).
- `ReadGoesOn`, for every content, offset, limit, default and maximum: `Read`
  returns what is there, tells a rest exactly when there is one, returns something if so
  (unless 0 bytes were asked for) and never more than the limits.
- `BearersAreKept` and `AdminsAlwaysAgree`, for every set of
  seeds and any number of commands, failures, crashes and boots, from `StateIsSound`.

A command of `AgentState` is a plan, the writes it still has to do. The
invariants speak of the disk as it will be, `After(disk, writes)`, and not only as it
is: in the middle of a provision the files need not agree. `AgreedInv` says that a
provision, and whatever follows a completed one, has a plan that ends in files that
agree, and that a rotation's snapshots do, which its rollback writes back.
`CommandInv` says which files a plan writes (a rotation only those it has a snapshot of),
`BearerInv` which user bearer a provision is about to persist or hand out, and `RotationsInv` that
every rotation on disk, in a plan or in a snapshot passes `validate`, now and
later.

What the seed merges is a choice among what its files set (`LastSet`), written without a
fold so that it can be proved about. Two assumptions on the
constants are about the encoding only: a bearer or a pair in a seed is not one of the
numbers that generated ones are (`SeedsApart`; in the code, two random or chosen
secrets differ), and the value for an absent file is not one of a file
(`NoFileApart`).

Model-checked only. Liveness is out of the prover's reach: `EveryApplyEnds`,
`StoppedCallEnds`, `FollowedJobEnds`, `FollowEnds`, `StoppedBashReturns`,
`AbsentIsRestarted`, `ProgressEnds`. Every other property of the passing runs on a
component is proved. The operator `Search` folds over its input, so that what it returns for every
input needs an induction; it is compared with its reference on small inputs, as
`Read`, `Newer` and `Authorized` are.

## Plan

Done: every component of the inventory that keeps state has a module, and every
safety and action property that a passing run checks of a component is proved.

Left: that the job `UpdateWatch` assumes (`state`, `job`, `marker` as the bus shows
them) is what `UpdateDaemon` implements, stated as one abstract specification that
both refer to; then an abstract register (a state that every follower ends up
showing) that `UpdateWatch` implements, step by step.

## Not modelled

- mDNS discovery, the API schema, probes and smoke tests: announcements, data
  and test tools; their state does not outlive a call.
- TLS, HTTP, D-Bus authentication, audit and the status file: I/O around the
  state that is modelled.
- Process handles and their output ring: no caller outside their tests.
- Menus, icons, notifications, the installer's drawing and its progress estimate
  (`AdvanceStep`, `Percent`): they show state and keep none.
- `ImagePullable`, the parsing of references and GitHub's list with its cache:
  read-only questions to a server.
- Screen coordinates and window matching: arithmetic on what the driver answers,
  without a model of a screen to compare it with.
- Image build, units, scripts, splash: build files, shell and assets. What they
  promise (`Restart=`, the cgroup of a unit, the tmpfs) is an assumption above.
