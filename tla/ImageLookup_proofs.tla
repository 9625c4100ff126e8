-------------------------- MODULE ImageLookup_proofs --------------------------
(***************************************************************************)
(* That an image is judged on its own labels, for every content a registry *)
(* can hold and everything that can answer in its place.                   *)
(***************************************************************************)
EXTENDS ImageLookup, TLAPS

\* The chain from the digest that is shown to the body asked for next: a manifest
\* of the index, then a config of the image.
ChainInv ==
    /\ stage \in {"idle", "top", "child", "config", "judge"}
    /\ stage = "child" =>
        /\ digest \in Digests /\ Content[digest].kind = "index"
        /\ want \in Content[digest].refs
    /\ stage = "config" => digest \in Digests /\ want \in Configs(digest)
    /\ stage = "judge" =>
        /\ digest \in Digests
        /\ config \in Configs(digest) /\ Content[config].amd64

\* An install ends the story, with the digest that was reviewed and judged.
InstalledInv ==
    installing # NoContent =>
        /\ stage = "idle" /\ installing = offered
        /\ \E c \in Configs(installing) : Content[c].amd64 /\ Content[c].flavor # "agent"

LookupInv == ChainInv /\ InstalledInv
-----------------------------------------------------------------------------
\* What content refers to is content: a digest that is asked for is never NoContent.
LEMMA Referred ==
    /\ NoContent \notin Digests
    /\ \A d \in Digests : Content[d].refs \subseteq Digests /\ Configs(d) \subseteq Digests
BY ContentAssumption DEF Configs

\* The steps that ask, fail or fetch a token move nothing along the chain.
LEMMA AskingSteps ==
    ASSUME LookupInv,
           Inspects \/ Applies \/ Challenged \/ TokenExpires \/ RequestFails \/ ListFails
    PROVE  LookupInv'
<1> USE DEF LookupInv, ChainInv, InstalledInv, Configs, Caller, Refused
<1>1. CASE Inspects
  BY <1>1 DEF Inspects, Asks
<1>2. CASE Applies
  BY <1>2 DEF Applies, Asks
<1>3. CASE Challenged
  BY <1>3 DEF Challenged, Requesting
<1>4. CASE TokenExpires
  BY <1>4 DEF TokenExpires, Requesting
<1>5. CASE RequestFails
  BY <1>5 DEF RequestFails, Requesting
<1>6. CASE ListFails
  BY <1>6 DEF ListFails
<1> QED BY <1>1, <1>2, <1>3, <1>4, <1>5, <1>6

\* A body moves the chain on only when it is what was asked for.
LEMMA AnswerSteps ==
    ASSUME LookupInv, TopAnswered \/ ChildAnswered \/ ConfigAnswered
    PROVE  LookupInv'
<1> USE Referred DEF LookupInv, ChainInv, InstalledInv
<1>1. installing = NoContent
  BY DEF TopAnswered, ChildAnswered, ConfigAnswered
<1>2. CASE stage' = "idle"
  BY <1>1, <1>2 DEF TopAnswered, ChildAnswered, ConfigAnswered, Refused, MovesOn, Caller
<1>3. CASE TopAnswered /\ stage' # "idle"
  <2>1. PICK body \in Digests : \E d \in Content[body].refs :
            /\ MovesOn(IF Content[body].kind = "index" THEN "child" ELSE "config", d)
            /\ digest' = body
    BY <1>3 DEF TopAnswered, Refused
  <2> QED BY <1>1, <2>1 DEF MovesOn, Caller, Configs
<1>4. CASE ChildAnswered /\ stage' # "idle"
  <2>1. PICK body \in Digests, claim \in Digests \cup {NoContent} :
            /\ Matches(body, claim, want)
            /\ Content[body].kind = "manifest"
            /\ \E d \in Content[body].refs : MovesOn("config", d)
            /\ digest' = digest
    BY <1>4 DEF ChildAnswered, Refused
  <2>2. body = want /\ stage = "child"
    BY <1>4, <2>1 DEF ChildAnswered, Matches
  <2>3. Content[body].refs \subseteq Configs(digest)
    BY <2>1, <2>2 DEF Configs
  <2>4. PICK d \in Content[body].refs : MovesOn("config", d)
    BY <2>1
  <2> QED BY <1>1, <2>1, <2>2, <2>3, <2>4 DEF MovesOn, Caller, Configs
<1>5. CASE ConfigAnswered /\ stage' # "idle"
  <2>1. PICK body \in Digests, claim \in Digests \cup {NoContent} :
            /\ Matches(body, claim, want)
            /\ Content[body].amd64
            /\ MovesOn("judge", NoContent) /\ config' = body /\ UNCHANGED digest
    BY <1>5 DEF ConfigAnswered, Refused
  <2>2. body = want /\ stage = "config"
    BY <1>5, <2>1 DEF ConfigAnswered, Matches
  <2> QED BY <1>1, <2>1, <2>2 DEF MovesOn, Caller, Configs
<1> QED BY <1>2, <1>3, <1>4, <1>5

\* The verdict is on the labels that were read.
LEMMA JudgeStep == ASSUME LookupInv, Judged PROVE LookupInv'
<1>1. /\ stage = "judge" /\ stage' = "idle" /\ installing = NoContent
      /\ UNCHANGED <<ref, digest, config>>
  BY DEF Judged, LookupInv, InstalledInv
<1>2. CASE installing' = NoContent
  BY <1>1, <1>2 DEF LookupInv, ChainInv, InstalledInv
<1>3. CASE installing' # NoContent
  <2>1. /\ \E listed \in BOOLEAN : Allowed(Content[config].flavor, listed)
        /\ digest = offered /\ installing' = digest /\ offered' = offered
    BY <1>1, <1>3 DEF Judged
  <2>2. Content[config].flavor # "agent"
    BY <2>1 DEF Allowed, Agent
  <2>3. config \in Configs(digest) /\ Content[config].amd64
    BY <1>1 DEF LookupInv, ChainInv
  <2>4. \E c \in Configs(installing') : Content[c].amd64 /\ Content[c].flavor # "agent"
    BY <2>1, <2>2, <2>3
  <2> QED BY <1>1, <2>1, <2>4 DEF LookupInv, ChainInv, InstalledInv, Configs
<1> QED BY <1>2, <1>3
-----------------------------------------------------------------------------
\* What is installed was judged on its own labels and is what was reviewed, for
\* every content and every answer (registry.go, policy.go, evaluate).
THEOREM LookupCorrect == LookupSpec => []LookupIsSound
<1>1. LookupInit => LookupInv
  BY DEF LookupInit, LookupInv, ChainInv, InstalledInv
<1>2. LookupInv /\ [LookupNext]_lookupVars => LookupInv'
  <2> SUFFICES ASSUME LookupInv, [LookupNext]_lookupVars PROVE LookupInv'
    OBVIOUS
  <2>1. CASE UNCHANGED lookupVars
    BY <2>1 DEF lookupVars, LookupInv, ChainInv, InstalledInv, Configs
  <2>2. CASE LookupNext
    BY <2>2, AskingSteps, AnswerSteps, JudgeStep DEF LookupNext
  <2> QED BY <2>1, <2>2
<1>3. LookupInv => LookupIsSound
  BY DEF LookupInv, ChainInv, InstalledInv, LookupIsSound
<1> QED BY <1>1, <1>2, <1>3, PTL DEF LookupSpec
-----------------------------------------------------------------------------
(* Releases *)

Versions == [core : [1 .. 3 -> Nat], pre : Nat]

\* The parts of a version are compared from left to right.
LEMMA NewerIs ==
    ASSUME NEW c \in Versions, NEW d \in Versions
    PROVE  /\ Newer(c, d) <=>
                \/ c.core[1] > d.core[1]
                \/ c.core[1] = d.core[1] /\ c.core[2] > d.core[2]
                \/ c.core[1] = d.core[1] /\ c.core[2] = d.core[2] /\ c.core[3] > d.core[3]
                \/ /\ c.core[1] = d.core[1] /\ c.core[2] = d.core[2] /\ c.core[3] = d.core[3]
                   /\ c.pre # d.pre /\ (c.pre = 0 \/ (d.pre # 0 /\ c.pre > d.pre))
           /\ c = d <=> /\ c.core[1] = d.core[1] /\ c.core[2] = d.core[2] /\ c.core[3] = d.core[3]
                        /\ c.pre = d.pre
<1>1. /\ c.core \in [1 .. 3 -> Nat] /\ d.core \in [1 .. 3 -> Nat]
      /\ c.core = d.core <=> c.core[1] = d.core[1] /\ c.core[2] = d.core[2] /\ c.core[3] = d.core[3]
  <2>1. c.core \in [1 .. 3 -> Nat] /\ d.core \in [1 .. 3 -> Nat]
    BY DEF Versions
  <2>2. ASSUME c.core[1] = d.core[1], c.core[2] = d.core[2], c.core[3] = d.core[3]
        PROVE  c.core = d.core
    <3>1. \A i \in 1 .. 3 : c.core[i] = d.core[i]
      BY <2>2
    <3> QED BY <2>1, <3>1
  <2> QED BY <2>1, <2>2
<1>2. ASSUME NEW i \in 1 .. 3
      PROVE  (\A j \in 1 .. i - 1 : c.core[j] = d.core[j]) <=>
                /\ i >= 2 => c.core[1] = d.core[1]
                /\ i = 3 => c.core[2] = d.core[2]
  BY <1>1
<1>3. (\E i \in 1 .. 3 : c.core[i] > d.core[i] /\ \A j \in 1 .. i - 1 : c.core[j] = d.core[j]) <=>
        \/ c.core[1] > d.core[1]
        \/ c.core[1] = d.core[1] /\ c.core[2] > d.core[2]
        \/ c.core[1] = d.core[1] /\ c.core[2] = d.core[2] /\ c.core[3] > d.core[3]
  BY <1>2
<1>4. c = d <=> c.core = d.core /\ c.pre = d.pre
  BY DEF Versions
<1> QED BY <1>1, <1>3, <1>4 DEF Newer

\* Newer is a strict total order: whatever tags that parse are listed, one of
\* them is the newest, and no two of them are each newer than the other
\* (Newer, update/release.go).
THEOREM NewerIsAnOrder ==
    \A u, v, w \in Versions :
        /\ u # v <=> Newer(u, v) \/ Newer(v, u)
        /\ ~(Newer(u, v) /\ Newer(v, u))
        /\ Newer(u, v) /\ Newer(v, w) => Newer(u, w)
<1> SUFFICES ASSUME NEW u \in Versions, NEW v \in Versions, NEW w \in Versions
             PROVE  /\ u # v <=> Newer(u, v) \/ Newer(v, u)
                    /\ ~(Newer(u, v) /\ Newer(v, u))
                    /\ Newer(u, v) /\ Newer(v, w) => Newer(u, w)
  OBVIOUS
<1>1. \A x \in {u, v, w} : /\ x.core[1] \in Nat /\ x.core[2] \in Nat /\ x.core[3] \in Nat
                           /\ x.pre \in Nat
  BY DEF Versions
<1>2. u # v <=> Newer(u, v) \/ Newer(v, u)
  BY <1>1, NewerIs
<1>3. ~(Newer(u, v) /\ Newer(v, u))
  BY <1>1, NewerIs
<1>4. Newer(u, v) /\ Newer(v, w) => Newer(u, w)
  BY <1>1, NewerIs
<1> QED BY <1>2, <1>3, <1>4
=============================================================================
