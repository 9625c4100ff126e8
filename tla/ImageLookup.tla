----------------------------- MODULE ImageLookup -----------------------------
(***************************************************************************)
(* How the update daemon looks an image up on its registry and judges it   *)
(* (update/registry.go, policy.go, and evaluate in daemon.go): first to    *)
(* show it for review, and again before it is installed.                   *)
(*                                                                         *)
(* A digest is modelled by the content it identifies. What a request gets  *)
(* is any content under any claim: the tag may have moved since the last   *)
(* request, and something on the way may answer in the registry's place.   *)
(***************************************************************************)
EXTENDS Integers, Sequences

CONSTANTS
    Content,    \* digest -> [kind, refs, flavor, amd64]: an index and a manifest
                \* refer to what they list, a config carries the labels
    NoContent    \* no digest asked for, claimed or found

Digests == DOMAIN Content

ASSUME ContentAssumption ==
    /\ NoContent \notin Digests
    /\ \A d \in Digests :
        /\ Content[d].kind \in {"index", "manifest", "config"}
        /\ Content[d].refs \subseteq Digests
        /\ Content[d].kind = "config" => Content[d].refs = {}

VARIABLES
    conf,       \* the advanced= lines of update.conf
    ref,        \* the reference under review
    stage,      \* "idle", "top", "child", "config", "judge"
    purpose,    \* what the lookup is for: "inspect" or "apply"
    advanced,   \* whether the caller asked for advanced mode
    token,      \* the anonymous pull token: "none", "valid", "expired"
    retried,    \* the request under way has already fetched a token
    want,       \* the digest the request must find
    digest,     \* ImageInfo.Digest
    config,     \* the config blob that was read
    offered,    \* the digest the user was shown
    installing  \* the digest the upgrade is given

lookupVars == <<conf, ref, stage, purpose, advanced, token, retried, want, digest,
                config, offered, installing>>

\* "published": a release tag of the release repository; a reference with a
\* digest is never trusted by its tag.
References == [tag : {"published", "agent", "other"}, digest : Digests \cup {NoContent}]

LookupInit ==
    /\ conf \in {<<>>, <<"false">>, <<"false", "true">>, <<"true", "maybe">>}
    /\ ref \in References
    /\ stage = "idle" /\ purpose = "inspect" /\ advanced = FALSE
    /\ token = "none" /\ retried = FALSE
    /\ want = NoContent /\ digest = NoContent /\ config = NoContent
    /\ offered = NoContent /\ installing = NoContent

Caller == <<conf, ref, purpose, advanced, offered, installing>>
-----------------------------------------------------------------------------
(* Resolve: one request after the other, with one client. *)

Asks(for) ==
    /\ stage = "idle" /\ stage' = "top"
    /\ purpose' = for
    /\ advanced' \in BOOLEAN
    /\ want' = ref.digest
    /\ token' = "none" /\ retried' = FALSE
    /\ digest' = NoContent /\ config' = NoContent
    /\ UNCHANGED <<conf, ref, offered, installing>>
\* The story ends with an install: a later review is not followed.
Inspects == installing = NoContent /\ Asks("inspect")
Applies == offered # NoContent /\ installing = NoContent /\ Asks("apply")

Requesting == stage \in {"top", "child", "config"}
Refused ==
    /\ stage' = "idle"
    /\ UNCHANGED <<token, retried, want, digest, config>> /\ UNCHANGED Caller

\* do: a 401 fetches a token and sends the request once more.
Challenged ==
    /\ Requesting /\ token # "valid" /\ ~retried
    /\ token' = "valid" /\ retried' = TRUE
    /\ UNCHANGED <<stage, want, digest, config>> /\ UNCHANGED Caller
TokenExpires ==
    /\ Requesting /\ token = "valid" /\ ~retried
    /\ token' = "expired"
    /\ UNCHANGED <<stage, retried, want, digest, config>> /\ UNCHANGED Caller

\* No network, a second 401, 404 or another status, a body that is too large.
RequestFails == Requesting /\ Refused

\* fetch: the content must be what the header claims and what was asked for.
Matches_claim(body, claim, asked) == claim \in {NoContent, body}
Matches(body, claim, asked) == claim \in {NoContent, body} /\ asked \in {NoContent, body}

MovesOn(next, asked) ==
    /\ stage' = next /\ want' = asked /\ retried' = FALSE
    /\ UNCHANGED token /\ UNCHANGED Caller

\* The first body: an index names its first linux/amd64 manifest, a manifest
\* its config; anything else names nothing.
TopAnswered ==
    /\ stage = "top"
    /\ \E body \in Digests, claim \in Digests \cup {NoContent} :
        /\ Matches(body, claim, want)
        /\ IF Content[body].refs = {}
           THEN Refused
           ELSE \E d \in Content[body].refs :
                /\ MovesOn(IF Content[body].kind = "index" THEN "child" ELSE "config", d)
                /\ digest' = body /\ UNCHANGED config

\* A nested index is not followed.
ChildAnswered ==
    /\ stage = "child"
    /\ \E body \in Digests, claim \in Digests \cup {NoContent} :
        /\ Matches(body, claim, want)
        /\ IF Content[body].kind # "manifest"
           THEN Refused
           ELSE \E d \in Content[body].refs :
                MovesOn("config", d) /\ UNCHANGED <<digest, config>>

ConfigAnswered ==
    /\ stage = "config"
    /\ \E body \in Digests, claim \in Digests \cup {NoContent} :
        /\ Matches(body, claim, want)
        /\ IF Content[body].amd64
           THEN MovesOn("judge", NoContent) /\ config' = body /\ UNCHANGED digest
           ELSE Refused
-----------------------------------------------------------------------------
(* Classify and evaluate. *)

\* The last advanced= line decides, and a value that is none turns it off.
AdvancedEnabled(lines) == lines = <<>> \/ lines[Len(lines)] = "true"

Agent(flavor) == flavor = "agent" \/ ref.tag = "agent"
TrustedName(listed) == listed /\ ref.tag = "published" /\ ref.digest = NoContent
Allowed(flavor, listed) ==
    /\ ~Agent(flavor)
    /\ \/ TrustedName(listed)
       \/ advanced /\ AdvancedEnabled(conf)

\* The list of releases may be without the tag; when there is none, it is an
\* error. Inspect shows the digest, Apply installs the one that was reviewed.
Judged ==
    /\ stage = "judge" /\ stage' = "idle"
    /\ \E listed \in BOOLEAN :
        IF Allowed(Content[config].flavor, listed)
        THEN \/ /\ purpose = "inspect" /\ offered' = digest /\ UNCHANGED installing
             \/ /\ purpose = "apply" /\ digest = offered
                /\ installing' = digest /\ UNCHANGED offered
             \/ /\ purpose = "apply" /\ digest # offered
                /\ UNCHANGED <<offered, installing>>
        ELSE UNCHANGED <<offered, installing>>
    /\ UNCHANGED <<conf, ref, purpose, advanced, token, retried, want, digest, config>>

ListFails == stage = "judge" /\ Refused

LookupNext ==
    \/ Inspects \/ Applies
    \/ Challenged \/ TokenExpires \/ RequestFails
    \/ TopAnswered \/ ChildAnswered \/ ConfigAnswered
    \/ Judged \/ ListFails
LookupSpec == LookupInit /\ [][LookupNext]_lookupVars
-----------------------------------------------------------------------------
(* Newer, on parsed versions [core, pre]: pre is 0 for a release, and the   *)
(* place of the prerelease's text in the order of strings otherwise.        *)

Newer(c, cur) ==
    \/ \E i \in 1 .. 3 :
        c.core[i] > cur.core[i] /\ \A j \in 1 .. i - 1 : c.core[j] = cur.core[j]
    \/ /\ c.core = cur.core /\ c.pre # cur.pre
       /\ c.pre = 0 \/ (cur.pre # 0 /\ c.pre > cur.pre)
-----------------------------------------------------------------------------
\* The configs of an image: those of its manifest, or of an index's manifests.
Configs(d) ==
    IF Content[d].kind = "index"
    THEN UNION {Content[m].refs : m \in Content[d].refs}
    ELSE Content[d].refs

\* What is installed was judged on its own labels: the config that was read
\* belongs to the digest that is shown and installed, whatever was served
\* between the requests and however the tag moved; one of its images is for this
\* platform and is no agent image, and it is the digest that was reviewed.
LookupIsSound ==
    /\ stage = "judge" => config \in Configs(digest)
    /\ installing # NoContent =>
        /\ installing = offered
        /\ \E c \in Configs(installing) : Content[c].amd64 /\ Content[c].flavor # "agent"
=============================================================================
