------------------------------ MODULE InstallUI ------------------------------
(***************************************************************************)
(* The installer of the live image (install-ui/): the wizard that collects *)
(* a configuration, and the progress screen around `kairos-agent install`. *)
(* Four actors share the second half: the installer process, the goroutine *)
(* that reads its output and waits for it, the terminal program that takes *)
(* messages one at a time, and the user at the keyboard.                   *)
(*                                                                         *)
(* What is typed into a field is "empty", "refused" (by the field's check) *)
(* or "accepted"; the installer's output is a number of lines in a pipe.   *)
(***************************************************************************)
EXTENDS Integers, Sequences

CONSTANTS
    Layouts,        \* the keyboard layouts the wizard offers
    WithKeymap,     \* those for which the image has a console keymap
    US,             \* the default layout, and the kernel's own keymap
    Disks,          \* the installable disks
    NoDisk,         \* no disk chosen
    PipeSize,       \* how many lines the pipe holds
    MaxLines        \* how many lines the installer writes: a bound

ASSUME InstallAssumption ==
    /\ US \in WithKeymap /\ WithKeymap \subseteq Layouts
    /\ NoDisk \notin Disks
    /\ PipeSize \in Nat \ {0} /\ MaxLines \in Nat

VARIABLES
    phase,      \* "begin", "wizard", "save", "install", "over"
    page,       \* the wizard's step: an index of Pages
    choice,     \* what the wizard has collected
    console,    \* the keymap of the live console
    loaded,     \* whether the last loadkeys did it; nobody looks
    exit,       \* how the program ended: "none", "zero", "one", "shell"
    installer,  \* the install process: "none", "running", "succeeded", "failed"
    unwritten,  \* lines the installer has still to write
    pipe,       \* lines in the pipe
    reader,     \* the goroutine: "start", "scan", "wait", "end"
    posted,     \* done messages not yet taken: TRUE for a nil error
    halted,     \* model.failed: the failure screen is shown
    terminated  \* the program was told to stop by a signal

keys == <<console, loaded>>
wizardVars == <<page, choice, keys>>
installerVars == <<installer, unwritten, pipe, reader>>
installVars == <<phase, wizardVars, exit, installerVars, posted, halted, terminated>>

Pages == <<"keyboard", "timezone", "hostname", "username", "password", "github",
           "disk", "review">>
Typed == {"empty", "refused", "accepted"}
At(name) == phase = "wizard" /\ Pages[page] = name

NothingChosen == [layout |-> US, username |-> "empty", password |-> "empty",
                  github |-> "empty", disk |-> NoDisk]

\* validateUsername, the check of the password, and validateGithub.
Validates(field, v) ==
    \/ field = "username" /\ v = "accepted"
    \/ field = "password" /\ v # "empty"
    \/ field = "github" /\ v # "refused"
Complete(c) ==
    /\ \A field \in {"username", "password", "github"} : Validates(field, c[field])
    /\ c.disk # NoDisk

InstallInit ==
    /\ phase = "begin"
    /\ page = 1
    /\ choice = NothingChosen
    /\ console = US /\ loaded = TRUE
    /\ exit = "none"
    /\ installer = "none" /\ unwritten = MaxLines /\ pipe = 0 /\ reader = "start"
    /\ posted = <<>> /\ halted = FALSE /\ terminated = FALSE

Quits(code) == phase' = "over" /\ exit' = code
-----------------------------------------------------------------------------
(* runWizard before the first screen. A users or install configuration    *)
(* that is already there skips it; the environment may answer everything. *)

ConfigPresent ==
    /\ phase = "begin" /\ phase' = "install"
    /\ UNCHANGED <<wizardVars, exit, installerVars, posted, halted, terminated>>

choiceFromEnv ==
    /\ phase = "begin"
    /\ \E username, password, github \in Typed, layout \in Layouts, disk \in Disks \cup {NoDisk} :
        /\ choice' = [layout |-> layout, username |-> username, password |-> password,
                      github |-> github, disk |-> disk]
        /\ IF Complete(choice') THEN phase' = "save" /\ UNCHANGED exit ELSE Quits("one")
    /\ UNCHANGED <<page, keys, installerVars, posted, halted, terminated>>

WizardStarts ==
    /\ phase = "begin" /\ phase' = "wizard"
    /\ UNCHANGED <<wizardVars, exit, installerVars, posted, halted, terminated>>
-----------------------------------------------------------------------------
(* The wizard: one key at a time. *)

WizardKeeps == UNCHANGED <<exit, installerVars, posted, halted, terminated>>
Turns(field, value) ==
    /\ page' = page + 1
    /\ choice' = [choice EXCEPT ![field] = value]

\* consoleKeymap, and what loadkeys is asked for: without a keymap, the
\* kernel's own.
consoleKeymap(layout) == IF layout \in WithKeymap THEN {layout} ELSE {}
Wanted_asFound(found) == IF found = {} THEN console ELSE CHOOSE k \in found : TRUE
Wanted(found) == IF found = {} THEN US ELSE CHOOSE k \in found : TRUE

\* The error of loadkeys is dropped.
loadConsoleKeymap(found) ==
    /\ loaded' \in BOOLEAN
    /\ console' = IF loaded' THEN Wanted(found) ELSE console

PickKeyboard ==
    /\ At("keyboard")
    /\ \E layout \in Layouts :
        /\ Turns("layout", layout)
        /\ loadConsoleKeymap(consoleKeymap(layout))
    /\ UNCHANGED phase /\ WizardKeeps

\* The zone and the host name always have a valid value.
PickOther ==
    /\ At("timezone") \/ At("hostname")
    /\ page' = page + 1
    /\ UNCHANGED <<phase, choice, keys>> /\ WizardKeeps

\* A refused value stays on its page. Without a disk there is no next page.
commitField ==
    /\ \E field \in {"username", "password", "github"}, v \in Typed :
        /\ At(field) /\ Validates(field, v)
        /\ choice' = [choice EXCEPT ![field] = v]
        /\ page' = IF field = "github" /\ Disks = {} THEN page ELSE page + 1
    /\ UNCHANGED <<phase, keys>> /\ WizardKeeps

updateDisk ==
    /\ At("disk")
    /\ \E disk \in Disks : Turns("disk", disk)
    /\ UNCHANGED <<phase, keys>> /\ WizardKeeps

GoBack ==
    /\ phase = "wizard" /\ page > 1
    /\ page' = page - 1
    /\ UNCHANGED <<phase, choice, keys>> /\ WizardKeeps

Abort ==
    /\ phase = "wizard" /\ Quits("one")
    /\ UNCHANGED <<wizardVars, installerVars, posted, halted, terminated>>

updateReview ==
    /\ At("review") /\ phase' = "save"
    /\ UNCHANGED wizardVars /\ WizardKeeps

\* HashPassword and writeChoice: either may fail, and then nothing is installed.
writeChoice ==
    /\ phase = "save"
    /\ \/ phase' = "install" /\ UNCHANGED exit
       \/ Quits("one")
    /\ UNCHANGED <<wizardVars, installerVars, posted, halted, terminated>>
-----------------------------------------------------------------------------
(* The goroutine of runInstall. *)

Keeps == UNCHANGED <<phase, wizardVars, exit, halted, terminated>>

CommandStarts ==
    /\ phase = "install" /\ reader = "start"
    /\ \/ installer' = "running" /\ reader' = "scan" /\ UNCHANGED posted
       \/ installer' = "failed" /\ reader' = "end" /\ posted' = Append(posted, FALSE)
    /\ Keeps /\ UNCHANGED <<unwritten, pipe>>

streamLines ==
    /\ phase = "install" /\ reader = "scan" /\ pipe > 0
    /\ pipe' = pipe - 1
    /\ Keeps /\ UNCHANGED <<installer, unwritten, reader, posted>>

ScanFails_swallowed ==
    /\ phase = "install" /\ reader = "scan" /\ pipe > 0
    /\ reader' = "wait"
    /\ Keeps /\ UNCHANGED <<installer, unwritten, pipe, posted>>

\* A line longer than the scanner's buffer: no more is read from the pipe.
ScanFails ==
    /\ phase = "install" /\ reader = "scan" /\ pipe > 0
    /\ posted' = Append(posted, FALSE)
    /\ reader' = "wait"
    /\ Keeps /\ UNCHANGED <<installer, unwritten, pipe>>

ScanEnds ==
    /\ phase = "install" /\ reader = "scan"
    /\ pipe = 0 /\ installer # "running"
    /\ reader' = "wait"
    /\ Keeps /\ UNCHANGED <<installer, unwritten, pipe, posted>>

CommandWaits ==
    /\ phase = "install" /\ reader = "wait" /\ installer # "running"
    /\ posted' = Append(posted, installer = "succeeded")
    /\ reader' = "end"
    /\ Keeps /\ UNCHANGED <<installer, unwritten, pipe>>
-----------------------------------------------------------------------------
(* The installer: kairos-agent install. It blocks while the pipe is full, *)
(* and succeeds only after its last line.                                 *)

InstallerWrites ==
    /\ phase = "install" /\ installer = "running" /\ unwritten > 0 /\ pipe < PipeSize
    /\ unwritten' = unwritten - 1 /\ pipe' = pipe + 1
    /\ Keeps /\ UNCHANGED <<installer, reader, posted>>

InstallerExits ==
    /\ phase = "install" /\ installer = "running"
    /\ \/ unwritten = 0 /\ installer' = "succeeded"
       \/ (unwritten = 0 \/ pipe < PipeSize) /\ installer' = "failed"
    /\ Keeps /\ UNCHANGED <<unwritten, pipe, reader, posted>>
-----------------------------------------------------------------------------
(* The terminal program: model.Update and the end of runInstall. *)

\* What runInstall makes of the program's last model.
ExitCode_ignoresFailed(failed) == "zero"
ExitCode(failed) == IF failed THEN "one" ELSE "zero"

\* A nil error ends the program, on whichever screen it is.
TakeDone ==
    /\ phase = "install" /\ posted # <<>>
    /\ posted' = Tail(posted)
    /\ IF Head(posted)
       THEN Quits(ExitCode(halted)) /\ UNCHANGED halted
       ELSE halted' = TRUE /\ UNCHANGED <<phase, exit>>
    /\ UNCHANGED <<wizardVars, installerVars, terminated>>

\* No key ends the program while it installs.
LeaveFailure ==
    /\ phase = "install" /\ halted
    /\ \/ Quits(ExitCode(halted))
       \/ Quits("shell")
    /\ UNCHANGED <<wizardVars, installerVars, posted, halted, terminated>>

\* The terminal library ends Run without an error when the service is stopped.
Terminated ==
    /\ phase = "install" /\ terminated' = TRUE
    /\ Quits(ExitCode(halted))
    /\ UNCHANGED <<wizardVars, installerVars, posted, halted>>

InstallNext ==
    \/ ConfigPresent \/ choiceFromEnv \/ WizardStarts
    \/ PickKeyboard \/ PickOther \/ commitField \/ updateDisk \/ GoBack \/ Abort
    \/ updateReview \/ writeChoice
    \/ CommandStarts \/ streamLines \/ ScanFails \/ ScanEnds \/ CommandWaits
    \/ InstallerWrites \/ InstallerExits \/ TakeDone \/ LeaveFailure \/ Terminated

\* Each running thing goes on; that the installer ends when it is not blocked is
\* what its limited output and InstallerExits say.
InstallProgress ==
    CommandStarts \/ streamLines \/ ScanEnds \/ CommandWaits \/ InstallerWrites
        \/ InstallerExits \/ TakeDone
InstallSpec ==
    InstallInit /\ [][InstallNext]_installVars /\ WF_installVars(InstallProgress)
-----------------------------------------------------------------------------
\* From the choice of the keyboard on, the live console has the keymap of the
\* chosen layout, or the kernel's own for a layout without one, also after going
\* back and choosing again, where loadkeys did what it was last asked (comment
\* at locale.go:360-365).  Of what was typed before going back it says nothing.
KeymapFollowsTheChoice ==
    phase = "wizard" /\ page > 1 /\ loaded =>
        console = IF choice.layout \in WithKeymap THEN choice.layout ELSE US

\* Whatever the order of the scan error, the installer's end and the user's
\* keys: a program that no signal stopped reports success only of an install that
\* succeeded, and once the installer was started it reports failure only after
\* the failure screen, which a scan error brings up even if the install then
\* succeeds.  No install starts from a half-answered configuration.
ExitTellsTheInstall ==
    /\ exit = "zero" /\ ~terminated => installer = "succeeded"
    /\ exit \in {"one", "shell"} /\ installer # "none" => halted
    /\ installer # "none" => Complete(choice) \/ choice = NothingChosen

\* The console is what the wizard asked for, and the exit what its screens said.
InstallIsAsTold == KeymapFollowsTheChoice /\ ExitTellsTheInstall

\* The progress screen, which has no key to leave it, does not stay for ever:
\* the installation ends or the failure screen is shown (runner.go:14-20).
ProgressEnds == (phase = "install") ~> (halted \/ phase = "over")
=============================================================================
