------------------------------ MODULE AgentState ------------------------------
(***************************************************************************)
(* The machine state of the agent: the OEM seed (provision/config.go), the *)
(* files that provision and token rotate write (provision/state.go), and   *)
(* the verifiers the services build from them when they start              *)
(* (auth/token.go, serviceconfig.go, hadron-agent/main.go).                *)
(*                                                                         *)
(* A digest stands for its bearer; a number stands for the one generated   *)
(* k-th and, as a certificate or a key, for the pair generated k-th; a     *)
(* certificate of the seed and its key have one name too, NoDigest when    *)
(* set to nothing.  A rotation is [current, previous, until].  The files   *)
(* other than these hold limits only and are left out, and so are previous *)
(* digests in a seed, whose fields are sets: none, when a file does not    *)
(* mention it or, for a secret, leaves it empty.  One command runs at a    *)
(* time.                                                                   *)
(***************************************************************************)
EXTENDS Integers, Sequences, FiniteSets

CONSTANTS Seeds,        \* sequences of /oem files: [enabled, user, admin, crt, key, auto, device]
          OverlapAsked, \* --overlap, in the clock's units
          MaxOverlap,   \* auth.MaxRotationOverlap
          MaxFresh,     \* bound: bearers and certificates ever generated
          MaxTime,      \* bound on the clock
          NoFile

ASSUME StateBounds == MaxOverlap \in Nat /\ MaxFresh \in Nat /\ MaxTime \in Nat
ASSUME OverlapsValid == OverlapAsked \subseteq 0 .. MaxOverlap

NoDigest == 0

VARIABLES
    oem,          \* the files in /oem, sorted
    disk,         \* crt, key, gateway and root config, first-run token
    fresh,        \* what was generated last
    clock,
    command, writes, snaps,  \* the command that runs, its writes to come, its snapshots
    agreed,       \* the last provision completed, and no later rotation was cut short
    provisioned,  \* the provision unit succeeded since the boot
    gatewayAuth, helperAuth  \* the rotations that the running services hold

commandVars == <<command, writes, snaps>>
services == <<gatewayAuth, helperAuth>>
stateVars == <<oem, disk, fresh, clock, commandVars, agreed, provisioned, services>>

StateInit ==
    /\ oem \in Seeds
    /\ disk = [crt |-> NoDigest, key |-> NoDigest, gateway |-> NoFile, root |-> NoFile, token |-> NoDigest]
    /\ fresh = 0 /\ clock = 0
    /\ command = "none" /\ writes = <<>> /\ snaps = <<>>
    /\ agreed = FALSE /\ provisioned = FALSE
    /\ gatewayAuth = NoFile /\ helperAuth = NoFile

-----------------------------------------------------------------------------
(* The seed *)

\* accumulator.merge: the last file that sets a scalar wins, to whatever value.
LastSet(files, field, default) ==
    LET Silent(i) == \A j \in DOMAIN files : j > i => files[j][field] = {}
        last == UNION {files[i][field] : i \in {i \in DOMAIN files : Silent(i)}}
    IN  IF last = {} THEN {default} ELSE last

\* mergeSecret: all files that set it must agree.
Secrets(files, field) == UNION {files[i][field] : i \in DOMAIN files}
Users(files) == Secrets(files, "user")
Admins(files) == Secrets(files, "admin")
Conflict(files) == Cardinality(Users(files)) > 1 \/ Cardinality(Admins(files)) > 1
Secret(S) == IF S = {} THEN NoDigest ELSE CHOOSE d \in S : TRUE

\* Load, of files without a conflict: resolve and its defaults.
Load(files) ==
    [enabled |-> LastSet(files, "enabled", TRUE) = {TRUE},
     user |-> Secret(Users(files)), admin |-> Secret(Admins(files)),
     crt |-> Secret(LastSet(files, "crt", NoDigest)),
     key |-> Secret(LastSet(files, "key", NoDigest))]

\* Validate: a certificate without a key, or the reverse.  Whether they belong
\* together is not looked at.
HalfPair(files) == (Load(files).crt = NoDigest) # (Load(files).key = NoDigest)
Invalid(files) == Conflict(files) \/ HalfPair(files)

\* InspectSeed: what lets the installer wipe a disk without a question.  The
\* install keys are scalars of their own; a device is a path below /dev or not.
Authorized(files) ==
    /\ ~Invalid(files) /\ Load(files).enabled
    /\ LastSet(files, "auto", FALSE) = {TRUE}
    /\ LastSet(files, "device", FALSE) = {TRUE}

SeedDigests == UNION {Users(s) : s \in Seeds}
SeedAdmins == UNION {Admins(s) : s \in Seeds}
SeedPairs == (UNION {Secrets(s, "crt") \cup Secrets(s, "key") : s \in Seeds}) \ {NoDigest}

\* Bearers and pairs in a seed are named apart from generated ones, and a file
\* that is absent from all that could be written.
ASSUME SeedsApart == (SeedDigests \cup SeedAdmins \cup SeedPairs) \cap Nat = {}

BearerDigests == Nat \cup SeedDigests \cup SeedAdmins
Rotations == [current : BearerDigests, previous : BearerDigests, until : Nat]
Certificates == Nat \cup SeedPairs
GatewayFiles == [user : Rotations, admin : Rotations, fingerprint : Certificates]

ASSUME NoFileApart == NoFile \notin Rotations /\ NoFile \notin GatewayFiles

-----------------------------------------------------------------------------
(* Writing files *)

Only(d) == [current |-> d, previous |-> NoDigest, until |-> 0]
NoAdmin == Only(NoDigest)

Put(f, v) == [file |-> f, value |-> v]

Completes ==
    /\ writes = <<>> /\ command # "none"
    /\ command' = "none" /\ snaps' = <<>>
    /\ agreed' = (agreed \/ command = "provision")
    /\ provisioned' = (provisioned \/ command = "provision")
    /\ UNCHANGED <<oem, disk, fresh, clock, writes, services>>

\* writeFile renames a synced file into place.  Its error may come after the
\* rename, when the directory cannot be synced.
Placed(w) == disk' = [disk EXCEPT ![w.file] = w.value]

WriteSucceeds ==
    /\ writes # <<>> /\ Placed(Head(writes)) /\ writes' = Tail(writes)
    /\ UNCHANGED <<oem, fresh, clock, command, snaps, agreed, provisioned, services>>

\* rollback restores every snapshot, the file whose write failed included.
RestoredFiles_earlier == SubSeq(snaps, 1, Len(snaps) - Len(writes))
RestoredFiles == snaps

WriteFails ==
    /\ writes # <<>>
    /\ Placed(Head(writes)) \/ UNCHANGED disk
    /\ CASE command = "provision" ->
              command' = "none" /\ writes' = <<>> /\ snaps' = <<>> /\ agreed' = FALSE
         [] command = "rotate" ->
              command' = "rollback" /\ writes' = RestoredFiles /\ UNCHANGED <<snaps, agreed>>
         [] command = "rollback" ->  \* ignored
              /\ writes' = Tail(writes)
              /\ agreed' = (agreed /\ disk'[Head(writes).file] = Head(writes).value)
              /\ UNCHANGED <<command, snaps>>
    /\ UNCHANGED <<oem, fresh, clock, provisioned, services>>

-----------------------------------------------------------------------------
(* Materialize *)

\* readGatewayConfigOrNil: no file is a first boot; any error is the command's.
GatewayRead_errorIsAbsent == {disk.gateway, NoFile}
GatewayRead == {disk.gateway}

UserRotation(cfg, existing, generated) ==
    IF cfg.user # NoDigest THEN Only(cfg.user)
    ELSE IF existing # NoFile THEN existing.user
    ELSE Only(generated)

AdminRotation(cfg, existing) ==
    IF cfg.admin # NoDigest THEN Only(cfg.admin)
    ELSE IF existing # NoFile THEN existing.admin
    ELSE NoAdmin

\* resolveTLS: the seed's pair, or the persisted one, unless one of its files
\* is missing or cannot be read, or a new one.
PairKept == disk.crt # NoDigest /\ disk.key # NoDigest
Pairs(cfg, generated) ==
    IF cfg.crt # NoDigest
    THEN {[crt |-> cfg.crt, key |-> cfg.key]}
    ELSE {[crt |-> generated, key |-> generated]}
         \cup {pair \in {[crt |-> disk.crt, key |-> disk.key]} : PairKept}

\* A seed that Load refuses fails the command before it has read anything, a
\* disabled agent is a success without a write.
ProvisionBegins ==
    /\ command = "none" /\ ~provisioned /\ ~Invalid(oem) /\ fresh < MaxFresh
    /\ LET cfg == Load(oem) IN
       IF ~cfg.enabled
       THEN provisioned' = TRUE /\ UNCHANGED <<fresh, commandVars, agreed>>
       ELSE \E existing \in GatewayRead, pair \in Pairs(cfg, fresh + 1) :
              LET user == UserRotation(cfg, existing, fresh + 1)
                  admin == AdminRotation(cfg, existing)
                  isFirst == cfg.user = NoDigest /\ existing = NoFile
                  gateway == [user |-> user, admin |-> admin, fingerprint |-> pair.crt]
              IN
              /\ writes' = <<Put("crt", pair.crt), Put("key", pair.key), Put("gateway", gateway)>>
                    \o (IF admin.current = NoDigest THEN <<>> ELSE <<Put("root", admin)>>)
                    \o (IF isFirst THEN <<Put("token", user.current)>> ELSE <<>>)
              /\ fresh' = IF isFirst \/ pair.crt = fresh + 1 THEN fresh + 1 ELSE fresh
              /\ command' = "provision" /\ snaps' = <<>> /\ agreed' = FALSE
              /\ UNCHANGED provisioned
    /\ UNCHANGED <<oem, disk, clock, services>>

-----------------------------------------------------------------------------
(* Rotate *)

\* makeRotation: the outgoing digest becomes the previous one for the overlap.
Rotated(old, overlap) ==
    IF overlap > 0 /\ old.current # NoDigest
    THEN [current |-> fresh + 1, previous |-> old.current, until |-> clock + overlap]
    ELSE Only(fresh + 1)

Rotates(gateway, alsoRoot) ==
    /\ command = "none" /\ fresh < MaxFresh
    /\ command' = "rotate" /\ fresh' = fresh + 1
    /\ writes' = <<Put("gateway", gateway)>>
          \o (IF alsoRoot THEN <<Put("root", gateway.admin)>> ELSE <<>>)
    /\ snaps' = <<Put("gateway", disk.gateway)>>
          \o (IF alsoRoot THEN <<Put("root", disk.root)>> ELSE <<>>)
    /\ UNCHANGED <<oem, disk, clock, agreed, provisioned, services>>

RotateUser(overlap) ==
    /\ disk.gateway # NoFile
    /\ Rotates([disk.gateway EXCEPT !.user = Rotated(@, overlap)], FALSE)

RotateAdmin(overlap) ==
    /\ disk.gateway # NoFile /\ disk.gateway.admin.current # NoDigest
    /\ Rotates([disk.gateway EXCEPT !.admin = Rotated(@, overlap)], TRUE)

\* Reload does nothing (reloadServices): a rotation ends with Completes.

-----------------------------------------------------------------------------
(* The services *)

\* RotationConfig.validate, at the time a service starts; a class without a
\* digest gets one that no bearer has.
Valid(r) ==
    \/ r.previous = NoDigest
    \/ r.previous # r.current /\ r.until - clock <= MaxOverlap

GatewayLoads ==
    /\ disk.gateway # NoFile
    /\ Valid(disk.gateway.user) /\ Valid(disk.gateway.admin)
    /\ disk.crt = disk.key

\* Requires= of the unit: no gateway before a successful provision.
GatewayStarts ==
    /\ gatewayAuth = NoFile /\ provisioned /\ GatewayLoads
    /\ gatewayAuth' = [user |-> disk.gateway.user, admin |-> disk.gateway.admin]
    /\ UNCHANGED <<oem, disk, fresh, clock, commandVars, agreed, provisioned, helperAuth>>

\* The root helper has its own file, and condition on it.
HelperStarts ==
    /\ helperAuth = NoFile /\ disk.root # NoFile /\ Valid(disk.root)
    /\ helperAuth' = disk.root
    /\ UNCHANGED <<oem, disk, fresh, clock, commandVars, agreed, provisioned, gatewayAuth>>

\* The end of a service, by a SIGHUP too: it handles no reload.
ServiceEnds ==
    /\ \/ gatewayAuth # NoFile /\ gatewayAuth' = NoFile /\ UNCHANGED helperAuth
       \/ helperAuth # NoFile /\ helperAuth' = NoFile /\ UNCHANGED gatewayAuth
    /\ UNCHANGED <<oem, disk, fresh, clock, commandVars, agreed, provisioned>>

\* Verify, with the rotation r a service holds.
Accepts(r, d) == d = r.current \/ (d = r.previous /\ clock <= r.until)

-----------------------------------------------------------------------------
(* The machine *)

CommandKilled ==
    /\ command # "none"
    /\ command' = "none" /\ writes' = <<>> /\ snaps' = <<>> /\ agreed' = FALSE
    /\ UNCHANGED <<oem, disk, fresh, clock, provisioned, services>>

\* A reboot, ordered or not: /run is empty again.
MachineBoots ==
    /\ command' = "none" /\ writes' = <<>> /\ snaps' = <<>>
    /\ disk' = [disk EXCEPT !.token = NoDigest]
    /\ agreed' = (agreed /\ command = "none") /\ provisioned' = FALSE
    /\ gatewayAuth' = NoFile /\ helperAuth' = NoFile
    /\ UNCHANGED <<oem, fresh, clock>>

SeedChanges == oem' \in Seeds /\ UNCHANGED <<disk, fresh, clock, commandVars, agreed, provisioned, services>>

TimePasses ==
    /\ clock < MaxTime /\ clock' = clock + 1
    /\ UNCHANGED <<oem, disk, fresh, commandVars, agreed, provisioned, services>>

StateNext ==
    \/ ProvisionBegins \/ \E o \in OverlapAsked : RotateUser(o) \/ RotateAdmin(o)
    \/ WriteSucceeds \/ WriteFails \/ Completes \/ CommandKilled
    \/ GatewayStarts \/ HelperStarts \/ ServiceEnds
    \/ MachineBoots \/ SeedChanges \/ TimePasses

StateSpec == StateInit /\ [][StateNext]_stateVars

-----------------------------------------------------------------------------
(* Properties *)

\* Only a rotation, or a digest of the seed, replaces the user bearer that was
\* persisted; a reboot, a provision that fails, is killed or cannot read never
\* does, and it never hands out a token that is not the persisted bearer's.
UserBearerIsKept ==
    [][/\ disk.gateway # NoFile =>
            /\ disk'.gateway # NoFile
            /\ \/ disk'.gateway.user.current = disk.gateway.user.current
               \/ disk'.gateway.user.current \in SeedDigests
               \/ command \in {"rotate", "rollback"}
       /\ disk'.token # disk.token /\ disk'.token # NoDigest =>
            disk'.token = disk'.gateway.user.current]_stateVars

\* Between commands, once a provision has completed and unless a rotation was
\* killed or its rollback failed: the fingerprint is that of the certificate,
\* both services expect the same admin, and neither refuses a rotation.
\* Nothing is said of the key: see the README.
FilesAgree ==
    agreed /\ command = "none" /\ disk.gateway # NoFile =>
        /\ disk.crt = disk.gateway.fingerprint
        /\ disk.gateway.admin.current # NoDigest => disk.root = disk.gateway.admin
        /\ Valid(disk.gateway.user) /\ Valid(disk.gateway.admin)

\* RotateOptions.Overlap (state.go:397-400) and RotationConfig (token.go:215-218):
\* when no command runs, a running gateway refuses a user bearer that a rotation
\* has replaced and whose overlap, if it had one, is over.
RotatedOutIsRefused ==
    command = "none" /\ agreed /\ gatewayAuth # NoFile =>
        \A d \in 1 .. fresh :
            Accepts(gatewayAuth.user, d) => Accepts(disk.gateway.user, d)
=============================================================================
