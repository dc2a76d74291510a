------------------------------ MODULE MCChatTurn ------------------------------
(***************************************************************************)
(* An instance for TLC of the two ends of a gateway's API that share no      *)
(* state: ChatTurn.tla, a turn in the gateway, and on the machine of a user   *)
(* Workstation.tla, what commands keep, Ledger.tla, what is known of a        *)
(* session, and Commands.tla, what is run. Their product would show nothing   *)
(* more: a behavior is one of one of them.                                   *)
(***************************************************************************)
EXTENDS ChatTurn, Workstation, Ledger, Commands, TLC

CONSTANTS s1, s2, c1, gpu, spare, p, one, two, home, away,
          session1, session2, task1, task2, file

MCRequest == {s1, s2, c1}
MCStreamed == {s1, s2}
MCBackend == {gpu, spare}

\* One slot on each backend: every failover meets a queue.
MCSlots == gpu :> 1 @@ spare :> 1

\* One key, one payload: a whole reply answers the requests that arrive later.
MCPrompt == {p}
MCPromptOf == [r \in MCRequest |-> p]

MCProcesses == {one, two}
MCGateways == {home, away}

\* Two shells, each of which may open any of two sessions.
MCSessions == {session1, session2}
MCTasks == {task1, task2}

VARIABLE part   \* the one that runs

(* The files of a user and those of a project are two parts, and what one     *)
(* shell does with both is a third: two commands with both are out of reach.  *)
Focus ==
    /\ part = "user" => \A c \in Processes : command'[c].stage # "listing"
    /\ part = "project" => saved' = saved
    /\ part = "shell" => Cardinality({c \in Processes : command'[c].stage # "idle"}) < 2

PartsInit ==
    /\ part \in {"turn", "user", "project", "shell", "ledger", "run"}
    /\ TurnInit /\ WorkInit /\ LedgerInit /\ CommandInit
    /\ part # "run" => kind = "shell" /\ platform = "posix"
PartsNext ==
    \/ part = "turn" /\ TurnNext /\ UNCHANGED <<part, workVars, ledgerVars, commandVars>>
    \/ part = "ledger" /\ LedgerNext /\ UNCHANGED <<part, turnVars, workVars, commandVars>>
    \/ part = "run" /\ CommandNext /\ UNCHANGED <<part, turnVars, workVars, ledgerVars>>
    \/ part \in {"user", "project", "shell"} /\ WorkNext /\ Focus
       /\ UNCHANGED <<part, turnVars, ledgerVars, commandVars>>
PartsSpec == PartsInit /\ [][PartsNext]_<<part, turnVars, workVars, ledgerVars, commandVars>>

\* The streams are alike, and so are the backends, the commands, the gateways
\* and the sessions.
MCSymmetry ==
    UNION {Permutations(MCStreamed), Permutations(MCBackend),
           Permutations(MCProcesses), Permutations(MCGateways),
           Permutations(MCSessions)}
=============================================================================
