------------------------------ MODULE MCGateway ------------------------------
(***************************************************************************)
(* An instance for TLC of two parts of the gateway that share no state:      *)
(* Gateway.tla, what is done for a request, and Memory.tla, what is kept of   *)
(* a session. Their product would show nothing more: a behavior is one of    *)
(* one of them, and the other stays as it started.                          *)
(***************************************************************************)
EXTENDS Gateway, Memory, TLC

VARIABLE part   \* the one that runs

PartsInit == part \in {"requests", "memory"} /\ Init /\ MemoryInit
PartsNext ==
    \/ part = "requests" /\ Next /\ UNCHANGED <<part, memoryVars>>
    \/ part = "memory" /\ MemoryNext /\ UNCHANGED <<part, vars>>
PartsSpec == PartsInit /\ [][PartsNext]_<<part, vars, memoryVars>>

\* The turns are named like the requests, so one group serves both parts.
Symmetry == Permutations(Keys) \union Permutations(Requests)
=============================================================================
