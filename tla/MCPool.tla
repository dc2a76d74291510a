-------------------------------- MODULE MCPool --------------------------------
(***************************************************************************)
(* An instance for TLC of what stands before the backends: Routing.tla        *)
(* chooses among them and Scheduler.tla is the queue of each. They share no   *)
(* state, so that their product would show nothing more: a behavior is one    *)
(* of one of them.                                                          *)
(***************************************************************************)
EXTENDS MCScheduler, Routing

CONSTANTS gpu, mac, first, second

\* An Ollama-like backend before one that takes no options.
MCMembers == <<gpu, mac>>

VARIABLE part   \* the one that runs

\* Of the parts, only the backends may start in several ways.
PartsInit ==
    /\ part \in {"queue", "routing"} /\ Init /\ RoutingInit
    /\ part = "queue" => backend = [b \in Backends |-> [present |-> TRUE, window |-> Min(Windows), up |-> TRUE]]
PartsNext ==
    \/ part = "queue" /\ Next /\ UNCHANGED <<part, routingVars>>
    \/ part = "routing" /\ RoutingNext /\ UNCHANGED <<part, vars>>
PartsSpec == PartsInit /\ [][PartsNext]_<<part, vars, routingVars>>

MCSymmetry == Permutations({first, second})
=============================================================================
