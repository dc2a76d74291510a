------------------------------- MODULE SlotPool -------------------------------
(***************************************************************************)
(* What a backend's inference queue promises, with the queue left out.     *)
(*                                                                         *)
(* Requests want one of MaxConcurrent slots.  A slot is handed to at most  *)
(* one request, never to more requests of a key than the key may run, and  *)
(* every request that wants one is answered in the end: it gets a slot or  *)
(* it leaves.  Scheduler.tla (localgate/core/scheduler.py) implements this *)
(* specification; modules that only need slots use it in its place.        *)
(***************************************************************************)
EXTENDS Integers, FiniteSets

CONSTANTS
  Key,            \* API keys
  Request,        \* requests that may be in the gateway at once
  KeyOf,          \* the key each request is made with
  LimitsOf,       \* the per-key limits a key may carry; 0 stands for "none"
  MaxConcurrent   \* slots of the backend

VARIABLES
  wanting,        \* requests waiting for a slot
  holding         \* requests a slot has been handed to

poolVars == <<wanting, holding>>

HeldByKey(k) == {r \in holding : KeyOf[r] = k}

PoolInit == wanting = {} /\ holding = {}

Join(r) ==
  /\ r \notin wanting \cup holding
  /\ wanting' = wanting \cup {r}
  /\ UNCHANGED holding

Grant(r) ==
  /\ r \in wanting
  /\ Cardinality(holding) < MaxConcurrent
  /\ \E limit \in LimitsOf[KeyOf[r]] :
        limit = 0 \/ Cardinality(HeldByKey(KeyOf[r])) < limit
  /\ wanting' = wanting \ {r}
  /\ holding' = holding \cup {r}

Leave(r) ==
  /\ r \in wanting
  /\ wanting' = wanting \ {r}
  /\ UNCHANGED holding

Return(r) ==
  /\ r \in holding
  /\ holding' = holding \ {r}
  /\ UNCHANGED wanting

PoolNext == \E r \in Request : Join(r) \/ Grant(r) \/ Leave(r) \/ Return(r)

PoolFairness ==
  \A r \in Request : /\ WF_poolVars(Grant(r) \/ Leave(r))
                     /\ WF_poolVars(Return(r))

PoolSafety == PoolInit /\ [][PoolNext]_poolVars

PoolSpec == PoolSafety /\ PoolFairness

=============================================================================
