---------------------------- MODULE MCAgentState ----------------------------
(***************************************************************************)
(* Instances of AgentState: what the files of /oem may say.  What was      *)
(* provisioned is negative, what is generated positive.                    *)
(***************************************************************************)
EXTENDS AgentState

Silent == [f \in {"enabled", "user", "admin", "crt", "key", "auto", "device"} |-> {}]

\* Nothing at all; an admin, a user bearer and a pair in two files; an agent
\* that is off; two files that disagree on the user bearer; and a certificate
\* whose key a later file takes away.
MCSeeds == {
    <<>>,
    <<[Silent EXCEPT !.admin = {-1}, !.crt = {-4}], [Silent EXCEPT !.user = {-2}, !.key = {-4}]>>,
    <<[Silent EXCEPT !.enabled = {FALSE}]>>,
    <<[Silent EXCEPT !.user = {-2}], [Silent EXCEPT !.user = {-3}]>>,
    <<[Silent EXCEPT !.crt = {-4}, !.key = {-4}], [Silent EXCEPT !.key = {NoDigest}]>>}
=============================================================================
