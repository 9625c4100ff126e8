--------------------------- MODULE InstallUI_proofs ---------------------------
(***************************************************************************)
(* What the installer reports and which keymap it leaves, for every set of *)
(* layouts and disks and every pipe.                                       *)
(***************************************************************************)
EXTENDS InstallUI, TLAPS

Choices == [layout : Layouts, username : Typed, password : Typed, github : Typed,
            disk : Disks \cup {NoDisk}]

\* Where the wizard is: a page behind the user left a value its check accepted.
WizardInv ==
    /\ phase = "begin" => page = 1 /\ choice = NothingChosen
    /\ page \in 1 .. 8
    /\ choice \in Choices
    /\ phase = "wizard" =>
        /\ page > 4 => Validates("username", choice.username)
        /\ page > 5 => Validates("password", choice.password)
        /\ page > 6 => Validates("github", choice.github)
        /\ page > 7 => choice.disk # NoDisk
    /\ phase \in {"save", "install"} => Complete(choice) \/ choice = NothingChosen

\* Success is posted only by the goroutine that waited for it; a failure is left
\* only by the failure screen.
ReportInv ==
    /\ phase \in {"begin", "wizard", "save"} => installer = "none"
    /\ installer # "none" => Complete(choice) \/ choice = NothingChosen
    /\ posted \in Seq(BOOLEAN)
    /\ \A i \in 1 .. Len(posted) : posted[i] => installer = "succeeded"
    /\ reader = "start" => installer = "none"
    /\ reader \in {"scan", "wait"} => installer # "none"
    /\ exit = "zero" => installer = "succeeded" \/ terminated
    /\ phase # "over" => exit = "none"
    /\ exit \in {"one", "shell"} /\ installer # "none" => halted

InstallInv == KeymapFollowsTheChoice /\ WizardInv /\ ReportInv
-----------------------------------------------------------------------------
LEMMA PageNames ==
    \A i \in 1 .. 8 :
        /\ Pages[i] = "keyboard" <=> i = 1
        /\ Pages[i] \in {"timezone", "hostname"} <=> i \in {2, 3}
        /\ Pages[i] = "username" <=> i = 4
        /\ Pages[i] = "password" <=> i = 5
        /\ Pages[i] = "github" <=> i = 6
        /\ Pages[i] = "disk" <=> i = 7
        /\ Pages[i] = "review" <=> i = 8
BY DEF Pages

\* What an answer changes of the choice, and what it leaves.
LEMMA OneAnswer ==
    ASSUME NEW c \in Choices,
           NEW field \in {"layout", "username", "password", "github", "disk"}, NEW v,
           field = "layout" => v \in Layouts,
           field \in {"username", "password", "github"} => v \in Typed,
           field = "disk" => v \in Disks
    PROVE  LET d == [c EXCEPT ![field] = v] IN
           /\ d \in Choices
           /\ d[field] = v
           /\ field # "layout" => d.layout = c.layout
           /\ field # "username" => d.username = c.username
           /\ field # "password" => d.password = c.password
           /\ field # "github" => d.github = c.github
           /\ field # "disk" => d.disk = c.disk
BY DEF Choices

\* The messages to the terminal program: what one more, or one less, adds.
LEMMA OneMessage ==
    ASSUME NEW s \in Seq(BOOLEAN)
    PROVE  /\ \A b \in BOOLEAN :
                /\ Append(s, b) \in Seq(BOOLEAN)
                /\ \A i \in 1 .. Len(Append(s, b)) :
                    Append(s, b)[i] = b \/ \E j \in 1 .. Len(s) : Append(s, b)[i] = s[j]
           /\ s # <<>> =>
                /\ Tail(s) \in Seq(BOOLEAN) /\ Head(s) = s[1] /\ 1 \in 1 .. Len(s)
                /\ \A i \in 1 .. Len(Tail(s)) : \E j \in 1 .. Len(s) : Tail(s)[i] = s[j]
<1>1. ASSUME NEW b \in BOOLEAN, NEW i \in 1 .. Len(Append(s, b))
      PROVE  Append(s, b)[i] = b \/ \E j \in 1 .. Len(s) : Append(s, b)[i] = s[j]
  <2>1. CASE i = Len(s) + 1
    BY <2>1
  <2>2. CASE i # Len(s) + 1
    <3>1. i \in 1 .. Len(s) /\ Append(s, b)[i] = s[i]
      BY <2>2
    <3> QED BY <3>1
  <2> QED BY <2>1, <2>2
<1>2. ASSUME s # <<>>, NEW i \in 1 .. Len(Tail(s))
      PROVE  \E j \in 1 .. Len(s) : Tail(s)[i] = s[j]
  <2>1. i + 1 \in 1 .. Len(s) /\ Tail(s)[i] = s[i + 1]
    BY <1>2
  <2> QED BY <2>1
<1>3. s # <<>> => Tail(s) \in Seq(BOOLEAN) /\ Head(s) = s[1] /\ 1 \in 1 .. Len(s)
  OBVIOUS
<1> QED BY <1>1, <1>2, <1>3

\* Before the wizard: the configuration is there, or comes with the environment.
LEMMA BeginSteps ==
    ASSUME InstallInv, ConfigPresent \/ choiceFromEnv \/ WizardStarts
    PROVE  InstallInv'
<1> USE DEF InstallInv, KeymapFollowsTheChoice, WizardInv, ReportInv, wizardVars, keys, installerVars
<1>1. CASE ConfigPresent
  BY <1>1 DEF ConfigPresent
<1>2. CASE choiceFromEnv
  <2>1. choice' \in Choices
    BY <1>2 DEF choiceFromEnv, Choices
  <2>2. IF Complete(choice') THEN phase' = "save" /\ UNCHANGED exit
        ELSE phase' = "over" /\ exit' = "one"
    <3>1. \E u, w, g \in Typed, k \in Layouts, d \in Disks \cup {NoDisk} :
            /\ choice' = [layout |-> k, username |-> u, password |-> w, github |-> g, disk |-> d]
            /\ IF Complete(choice') THEN phase' = "save" /\ UNCHANGED exit ELSE Quits("one")
      BY <1>2 DEF choiceFromEnv
    <3> QED BY <3>1 DEF Quits
  <2>3. UNCHANGED <<page, console, loaded, installerVars, posted, halted, terminated>> /\ phase = "begin"
    BY <1>2 DEF choiceFromEnv
  <2> QED BY <2>1, <2>2, <2>3
<1>3. CASE WizardStarts
  BY <1>3 DEF WizardStarts
<1> QED BY <1>1, <1>2, <1>3

\* The pages. The keymap is loaded with the layout, and stays with it.
LEMMA PickSteps ==
    ASSUME InstallInv, PickKeyboard \/ PickOther \/ commitField \/ updateDisk
    PROVE  InstallInv'
<1> USE InstallAssumption, PageNames
    DEF InstallInv, KeymapFollowsTheChoice, WizardInv, ReportInv, WizardKeeps, keys, installerVars, At
<1>1. CASE PickKeyboard
  <2>1. PICK layout \in Layouts :
            /\ page = 1 /\ phase = "wizard"
            /\ Turns("layout", layout)
            /\ loadConsoleKeymap(consoleKeymap(layout))
    BY <1>1 DEF PickKeyboard
  <2>2. loaded' => console' = IF layout \in WithKeymap THEN layout ELSE US
    BY <2>1 DEF loadConsoleKeymap, consoleKeymap, Wanted
  <2>3. page' = 2
    BY <2>1 DEF Turns
  <2>4. choice' \in Choices /\ choice'.layout = layout
    BY <2>1, OneAnswer DEF Turns, Choices
  <2> QED BY <1>1, <2>1, <2>2, <2>3, <2>4 DEF PickKeyboard
<1>2. CASE PickOther
  <2>1. page \in {2, 3} /\ page' = page + 1
    BY <1>2 DEF PickOther
  <2> QED BY <1>2, <2>1 DEF PickOther
<1>3. CASE commitField
  <2>1. PICK field \in {"username", "password", "github"}, v \in Typed :
            /\ At(field) /\ Validates(field, v)
            /\ choice' = [choice EXCEPT ![field] = v]
            /\ page' = IF field = "github" /\ Disks = {} THEN page ELSE page + 1
    BY <1>3 DEF commitField
  <2>2. /\ choice' \in Choices /\ choice'[field] = v
        /\ choice'.layout = choice.layout
        /\ field # "username" => choice'.username = choice.username
        /\ field # "password" => choice'.password = choice.password
    <3>1. /\ field \in {"layout", "username", "password", "github", "disk"}
          /\ field # "layout" /\ field # "disk" /\ choice \in Choices
      OBVIOUS
    <3>2. LET d == [choice EXCEPT ![field] = v] IN
          /\ d \in Choices
          /\ d[field] = v
          /\ field # "layout" => d.layout = choice.layout
          /\ field # "username" => d.username = choice.username
          /\ field # "password" => d.password = choice.password
      BY <3>1, OneAnswer
    <3> QED BY <2>1, <3>1, <3>2
  <2>3. CASE field = "username"
    <3>1. page = 4 /\ page' = 5
      BY <2>1, <2>3
    <3>2. choice' \in Choices /\ choice'.username = v
      BY <2>2, <2>3
    <3>3. choice'.layout = choice.layout
      BY <2>2, <2>3
    <3> QED BY <1>3, <2>1, <2>3, <3>1, <3>2, <3>3 DEF commitField
  <2>4. CASE field = "password"
    <3>1. page = 5 /\ page' = 6
      BY <2>1, <2>4
    <3>2. choice' \in Choices /\ choice'.password = v
      BY <2>2, <2>4
    <3>3. choice'.layout = choice.layout /\ choice'.username = choice.username
      BY <2>2, <2>4
    <3> QED BY <1>3, <2>1, <2>4, <3>1, <3>2, <3>3 DEF commitField
  <2>5. CASE field = "github"
    <3>1. page = 6 /\ page' \in {6, 7}
      BY <2>1, <2>5
    <3>2. choice' \in Choices /\ choice'.github = v
      BY <2>2, <2>5
    <3>3. choice'.layout = choice.layout /\ choice'.username = choice.username /\ choice'.password = choice.password
      BY <2>2, <2>5
    <3> QED BY <1>3, <2>1, <2>5, <3>1, <3>2, <3>3 DEF commitField
  <2> QED BY <2>3, <2>4, <2>5
<1>4. CASE updateDisk
  <2>1. PICK disk \in Disks : page = 7 /\ Turns("disk", disk)
    BY <1>4 DEF updateDisk
  <2>2. choice' \in Choices /\ choice'.disk = disk
    BY <2>1, OneAnswer DEF Choices, Turns
  <2>3. /\ choice'.layout = choice.layout /\ choice'.username = choice.username
        /\ choice'.password = choice.password /\ choice'.github = choice.github
    BY <2>1, OneAnswer DEF Choices, Turns
  <2> QED BY <1>4, <2>1, <2>2, <2>3 DEF updateDisk, Turns
<1> QED BY <1>1, <1>2, <1>3, <1>4

\* The other keys, and the configuration that is written at the end.
LEMMA WizardSteps ==
    ASSUME InstallInv, GoBack \/ Abort \/ updateReview \/ writeChoice
    PROVE  InstallInv'
<1> USE DEF InstallInv, KeymapFollowsTheChoice, WizardInv, ReportInv, wizardVars, keys, installerVars
<1>1. CASE GoBack
  BY <1>1 DEF GoBack, WizardKeeps
<1>2. CASE Abort
  BY <1>2 DEF Abort, Quits
<1>3. CASE updateReview
  <2>1. page = 8 /\ phase = "wizard" /\ phase' = "save"
    BY <1>3, PageNames DEF updateReview, At
  <2>2. Complete(choice)
    BY <2>1 DEF Complete
  <2> QED BY <1>3, <2>1, <2>2 DEF updateReview, WizardKeeps
<1>4. CASE writeChoice
  BY <1>4 DEF writeChoice, Quits
<1> QED BY <1>1, <1>2, <1>3, <1>4

\* The goroutine and the installer: what is posted stays true.
LEMMA RunSteps ==
    ASSUME InstallInv,
           \/ CommandStarts \/ streamLines \/ ScanFails \/ ScanEnds \/ CommandWaits
           \/ InstallerWrites \/ InstallerExits
    PROVE  InstallInv'
<1> USE DEF InstallInv, KeymapFollowsTheChoice, WizardInv, ReportInv, Keeps, wizardVars, keys
<1>1. CASE CommandStarts
  <2>1. CASE installer' = "running" /\ reader' = "scan" /\ UNCHANGED posted
    BY <1>1, <2>1 DEF CommandStarts
  <2>2. CASE installer' = "failed" /\ reader' = "end" /\ posted' = Append(posted, FALSE)
    BY <1>1, <2>2 DEF CommandStarts
  <2> QED BY <1>1, <2>1, <2>2 DEF CommandStarts
<1>2. CASE streamLines
  BY <1>2 DEF streamLines
<1>3. CASE ScanFails
  BY <1>3 DEF ScanFails
<1>4. CASE ScanEnds
  BY <1>4 DEF ScanEnds
<1>5. CASE CommandWaits
  <2>1. /\ posted' = Append(posted, installer = "succeeded") /\ reader' = "end"
        /\ UNCHANGED <<phase, page, choice, console, loaded, exit, halted, terminated, installer>>
    BY <1>5 DEF CommandWaits
  <2>2. posted' \in Seq(BOOLEAN)
    BY <2>1, OneMessage
  <2>3. ASSUME NEW i \in 1 .. Len(posted'), posted'[i]
        PROVE  installer = "succeeded"
    BY <2>1, <2>3, OneMessage
  <2> QED BY <2>1, <2>2, <2>3
<1>6. CASE InstallerWrites
  BY <1>6 DEF InstallerWrites
<1>7. CASE InstallerExits
  BY <1>7 DEF InstallerExits
<1> QED BY <1>1, <1>2, <1>3, <1>4, <1>5, <1>6, <1>7

\* The terminal program.
LEMMA ScreenSteps ==
    ASSUME InstallInv, TakeDone \/ LeaveFailure \/ Terminated
    PROVE  InstallInv'
<1> USE DEF InstallInv, KeymapFollowsTheChoice, WizardInv, ReportInv, wizardVars, keys, installerVars
<1>1. CASE TakeDone
  <2>1. /\ posted # <<>> /\ posted' = Tail(posted) /\ phase = "install"
        /\ UNCHANGED <<page, choice, console, loaded, installer, reader, terminated>>
    BY <1>1 DEF TakeDone
  <2>2. posted' \in Seq(BOOLEAN)
    BY <2>1, OneMessage
  <2>3. ASSUME NEW i \in 1 .. Len(posted'), posted'[i]
        PROVE  installer = "succeeded"
    BY <2>1, <2>3, OneMessage
  <2>4. /\ phase' \in {"install", "over"}
        /\ exit' # exit => installer = "succeeded"
        /\ phase' # "over" => exit' = exit
        /\ exit' \in {"one", "shell"} => halted'
    <3>1. CASE Head(posted)
      <4>1. installer = "succeeded"
        BY <2>1, <3>1, OneMessage
      <4> QED BY <1>1, <3>1, <4>1 DEF TakeDone, Quits, ExitCode
    <3>2. CASE ~Head(posted)
      BY <1>1, <2>1, <3>2 DEF TakeDone
    <3> QED BY <3>1, <3>2
  <2> QED BY <2>1, <2>2, <2>3, <2>4
<1>2. CASE LeaveFailure
  BY <1>2 DEF LeaveFailure, Quits, ExitCode
<1>3. CASE Terminated
  BY <1>3 DEF Terminated, Quits, ExitCode
<1> QED BY <1>1, <1>2, <1>3
-----------------------------------------------------------------------------
\* Where the last loadkeys did its work, the live console has the keymap of the
\* layout that was chosen.  A program that no signal stopped reports success only
\* of an install that succeeded, and once the installer was started it reports
\* failure only from the failure screen, in any order of the scan error, the
\* installer's end and the user's keys (wizard.go, runner.go).
THEOREM InstallTold == InstallSpec => []InstallIsAsTold
<1>1. InstallInit => InstallInv
  BY InstallAssumption DEF InstallInit, InstallInv, KeymapFollowsTheChoice, WizardInv,
     ReportInv, Choices, NothingChosen, Typed
<1>2. InstallInv /\ [InstallNext]_installVars => InstallInv'
  <2> SUFFICES ASSUME InstallInv, [InstallNext]_installVars PROVE InstallInv'
    OBVIOUS
  <2>1. CASE UNCHANGED installVars
    BY <2>1 DEF installVars, wizardVars, keys, installerVars, InstallInv, KeymapFollowsTheChoice,
       WizardInv, ReportInv
  <2>2. CASE InstallNext
    BY <2>2, BeginSteps, PickSteps, WizardSteps, RunSteps, ScreenSteps DEF InstallNext
  <2> QED BY <2>1, <2>2
<1>3. InstallInv => InstallIsAsTold
  BY DEF InstallInv, ReportInv, InstallIsAsTold, ExitTellsTheInstall
<1> QED BY <1>1, <1>2, <1>3, PTL DEF InstallSpec
=============================================================================
