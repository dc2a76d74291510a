--------------------------- MODULE MCConversation ---------------------------
(***************************************************************************)
(* An instance for TLC of what the command line runs: the shell of           *)
(* `localgate code`, and `localgate serve` with the owner's commands. They    *)
(* share no state, so a behavior is one of one of them, and the other stays   *)
(* as it started.                                                          *)
(*                                                                         *)
(* Two requests, three replies a turn, three replies and commands in all. A   *)
(* history of six short messages is at the threshold, so a chain of two      *)
(* reads is compacted under the request it serves, and the protected tail of *)
(* three is shorter than a reply with two calls and what follows it. Two      *)
(* workers of a server on one of two databases, two generated admin keys,    *)
(* one session and one change of the files the server has read.             *)
(***************************************************************************)
EXTENDS Conversation, Installation, TLC

VARIABLE part   \* the one that runs

\* An installation that does not run starts in one state. The databases of one
\* that does are as old as each other, and only a server the network reaches is
\* in production.
Still == /\ files = [other |-> Unset, user |-> Unset, host |-> FALSE, production |-> FALSE,
                     db |-> Unset, legacy |-> Unset]
         /\ \A d \in Databases : db[d].tables = "none"
PartsInit == /\ part \in {"shell", "installation"} /\ Init /\ InstallInit
             /\ part = "shell" => Still
             /\ \A d, e \in Databases : db[d].tables = db[e].tables
             /\ files.production => files.host
PartsNext ==
    \/ part = "shell" /\ Next /\ UNCHANGED <<part, installVars>>
    \/ part = "installation" /\ InstallNext /\ UNCHANGED <<part, vars>>
PartsSpec == PartsInit /\ [][PartsNext]_<<part, vars, installVars>>

Symmetry == Permutations(Workers)
=============================================================================
