------------------------------- MODULE MCTunnel -------------------------------
(***************************************************************************)
(* An instance for TLC of what a gateway leaves to others outside it:        *)
(* Tunnel.tla (cloudflared), RedisLeases.tla (the counters that several       *)
(* workers keep in Redis), ChatTurn.tla (the order in which a server ends     *)
(* an abandoned stream) and Replies.tla (what inference servers send). They   *)
(* share no state, so that their product would show nothing more: a behavior  *)
(* is one of one of them.                                                   *)
(***************************************************************************)
EXTENDS Tunnel, RedisLeases, ChatTurn, Replies, TLC

CONSTANTS o1, o2, o3, t1, t2, t3, t4, s1, s2, gpu, spare

MCOpening == {o1, o2, o3}
MCTask == {t1, t2, t3, t4}

\* Two streams with one payload, and two backends of one slot each.
MCRequest == {s1, s2}
MCBackend == {gpu, spare}
MCSlots == [b \in MCBackend |-> 1]
MCPrompt == {gpu}
MCPromptOf == [r \in MCRequest |-> gpu]

MCTokens == {gpu, spare}
\* Up to two tokens and three calls, some of them in two fragments.
MCAnswers ==
    {[text |-> words, calls |-> calls, long |-> long] :
        words \in {<<>>, <<gpu>>, <<gpu, spare>>},
        calls \in {<<>>, << <<gpu>> >>, << <<gpu, spare>>, <<gpu>> >>, << <<gpu>>, <<spare>>, <<gpu, gpu>> >>},
        long \in BOOLEAN}

VARIABLE part   \* the one that runs

\* Of the parts that do not run, each starts in one state.
PartsInit ==
    /\ part \in {"tunnel", "leases", "turn", "reply"} /\ Init /\ LeaseInit /\ TurnInit /\ RepliesInit
    /\ part # "tunnel" => tunnel = None
    /\ part # "reply" => native /\ reply = [text |-> <<>>, calls |-> <<>>, long |-> FALSE]
PartsNext ==
    \/ part = "tunnel" /\ Next /\ UNCHANGED <<part, leaseVars, turnVars, replyVars>>
    \/ part = "leases" /\ LeaseNext /\ UNCHANGED <<part, vars, turnVars, replyVars>>
    \/ part = "turn" /\ TurnNext /\ UNCHANGED <<part, vars, leaseVars, replyVars>>
    \/ part = "reply" /\ RepliesNext /\ UNCHANGED <<part, vars, leaseVars, turnVars>>

\* The fairness of FairSpec and of TurnFairSpec, each for its own part.
PartsSpec ==
    /\ PartsInit /\ [][PartsNext]_<<part, vars, leaseVars, turnVars, replyVars>>
    /\ Fairness /\ TurnFairness
=============================================================================
