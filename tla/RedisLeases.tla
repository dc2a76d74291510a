------------------------------ MODULE RedisLeases ------------------------------
(***************************************************************************)
(* The in-flight count one API key has in Redis, shared by every worker    *)
(* process: RedisKeyLeases of src/localgate/core/shared_limits.py with its *)
(* caller, InferenceScheduler.acquire and _acquire_remote.                 *)
(*                                                                         *)
(* Every Redis command is atomic, and each call here sends several: other  *)
(* tasks, in this process or another, act in between.  A worker may crash  *)
(* at any point; then its commands still to come are never sent.  A task   *)
(* cancelled inside try_acquire is no better off: its INCR is not undone.  *)
(*                                                                         *)
(* Time is counted from the last EXPIRE in ticks, ttl being Ttl ticks.     *)
(* Left out: other keys (their counters are independent), the local queue  *)
(* (Scheduler.tla), which here either grants or fails.  Definitions marked *)
(* "variant" are slips a change could make; see Scheduler.tla.             *)
(***************************************************************************)
EXTENDS Integers, FiniteSets

CONSTANTS
  Task,      \* requests of the key, in all worker processes
  Limit,     \* the key's max_concurrent
  Ttl,       \* ticks until the counter expires; 0: nobody holds that long
  MaxLost    \* bound: tasks lost to crashes and cancellations

ASSUME RedisLeasesAssumption ==
  IsFiniteSet(Task) /\ Limit \in Nat \ {0} /\ Ttl \in Nat /\ MaxLost \in Nat

VARIABLES
  pc,        \* where each task is
  count,     \* the counter's value, 0 if absent
  entry,     \* the counter: "absent", "lasting" (no time to live) or "expiring"
  age,       \* ticks since the last EXPIRE of an expiring counter
  lost       \* INCRs in the counter that no task will undo

leaseVars == <<pc, count, entry, age, lost>>

(***************************************************************************)
(*   away       no request, or one sleeping between two polls              *)
(*   counted    INCR returned at most Limit, EXPIRE to come                *)
(*   exceeding  INCR returned more, EXPIRE to come                         *)
(*   refusing   then DECR to come                                          *)
(*   admitted   try_acquire returned True; waiting for, or holding, a slot *)
(*   returning  release scheduled, its DECR to come                        *)
(*   deleting   its DECR returned 0 or less, DEL to come                   *)
(***************************************************************************)
LeasePlace ==
  {"away", "counted", "exceeding", "refusing", "admitted", "returning", "deleting"}

\* Tasks whose INCR still awaits its DECR.
Owing ==
  {t \in Task : pc[t] \in {"counted", "exceeding", "refusing", "admitted", "returning"}}

Admitted == {t \in Task : pc[t] = "admitted"}

LeaseGoto(t, place) == pc' = [pc EXCEPT ![t] = place]

\* INCR and DECR create an absent counter, without a time to live.
Add(n) ==
  /\ count' = count + n
  /\ entry' = IF entry = "absent" THEN "lasting" ELSE entry
  /\ UNCHANGED <<age, lost>>

\* DEL, or the end of the time to live.
RemoveKey == count' = 0 /\ entry' = "absent" /\ age' = 0 /\ lost' = 0

-----------------------------------------------------------------------------

LeaseInit ==
  /\ pc = [t \in Task |-> "away"]
  /\ count = 0 /\ entry = "absent" /\ age = 0 /\ lost = 0

IncrPastLimit(t) ==  \* variant: one more than the limit gets in
  /\ pc[t] = "away"
  /\ Add(1)
  /\ LeaseGoto(t, IF count' > Limit + 1 THEN "exceeding" ELSE "counted")

\* try_acquire: INCR, for a new request or for the next poll of a waiting one.
Incr(t) ==
  /\ pc[t] = "away"
  /\ Add(1)
  /\ LeaseGoto(t, IF count' > Limit THEN "exceeding" ELSE "counted")

\* EXPIRE: sent for every attempt, also one that will be refused.
Expire(t) ==
  /\ pc[t] \in {"counted", "exceeding"}
  /\ entry' = IF entry = "absent" THEN entry ELSE "expiring"
  /\ age' = 0
  /\ LeaseGoto(t, IF pc[t] = "counted" THEN "admitted" ELSE "refusing")
  /\ UNCHANGED <<count, lost>>

RefuseKeeps(t) ==  \* variant: a refused attempt is not taken back
  /\ pc[t] = "refusing"
  /\ LeaseGoto(t, "away")
  /\ UNCHANGED <<count, entry, age, lost>>

\* Refused: DECR, then sleep and poll again, or ServiceBusyError (key_busy).
Refuse(t) ==
  /\ pc[t] = "refusing"
  /\ Add(-1)
  /\ LeaseGoto(t, "away")

\* Lease.release, or a local acquire that failed: release runs in the background.
Finish(t) ==
  /\ pc[t] = "admitted"
  /\ LeaseGoto(t, "returning")
  /\ UNCHANGED <<count, entry, age, lost>>

\* release: DECR, whose result decides whether a DEL follows.
Decr(t) ==
  /\ pc[t] = "returning"
  /\ Add(-1)
  /\ LeaseGoto(t, IF count' <= 0 THEN "deleting" ELSE "away")

Del(t) ==
  /\ pc[t] = "deleting"
  /\ RemoveKey
  /\ LeaseGoto(t, "away")

\* A worker crashes, or the request is cancelled inside try_acquire.
Vanish(t) ==
  /\ pc[t] \in {"counted", "exceeding", "refusing", "admitted", "returning"}
  /\ lost < MaxLost
  /\ lost' = lost + 1
  /\ LeaseGoto(t, "away")
  /\ UNCHANGED <<count, entry, age>>

\* Time passes; Redis removes the counter when ttl has passed.
Tick ==
  /\ entry = "expiring" /\ Ttl > 0
  /\ IF age + 1 < Ttl
       THEN age' = age + 1 /\ UNCHANGED <<count, entry, lost>>
       ELSE RemoveKey
  /\ UNCHANGED pc

Finishing(t) == Expire(t) \/ Refuse(t) \/ Finish(t) \/ Decr(t) \/ Del(t)

LeaseNext == Tick \/ \E t \in Task : Incr(t) \/ Finishing(t) \/ Vanish(t)

LeaseSpec == LeaseInit /\ [][LeaseNext]_leaseVars

\* Time passes, commands that are due are sent, requests end, and the key's
\* clients keep asking.
LeaseFairness ==
  /\ WF_leaseVars(Tick)
  /\ \A t \in Task : WF_leaseVars(Finishing(t)) /\ WF_leaseVars(Incr(t))

LeaseFairSpec == LeaseSpec /\ LeaseFairness

-----------------------------------------------------------------------------
(***************************************************************************)
(* Correctness                                                             *)
(***************************************************************************)

LeaseTypeOK ==
  /\ pc \in [Task -> LeasePlace]
  /\ count \in Int
  /\ entry \in {"absent", "lasting", "expiring"}
  /\ age \in Nat /\ (age = 0 \/ age < Ttl)
  /\ lost \in 0..MaxLost

\* The counter never says more than there is: it is at most the number of tasks
\* that have counted themselves in and still have to count themselves out, plus
\* those that were lost.  DECR, DEL and expiry may race in any order, and a key
\* is never refused on account of requests that gave their lease back.
NeverOverstated == count <= Cardinality(Owing) + lost

\* "so limits hold across processes and machines" (shared_limits.py) is not quite
\* so: a DEL, or an expiry, wipes what other workers have counted in meanwhile.
\* That is the only way past the limit: a key runs more requests than its limit
\* allows by no more than the counter has forgotten.
Forgotten == Cardinality(Owing) + lost - count
OverrunIsForgotten == Cardinality(Admitted) <= Limit + Forgotten

\* "so a crashed worker can't strand a key at its limit forever"
\* (shared_limits.py): with clients that keep asking, a lost lease expires or
\* some request is admitted all the same.
NotStranded == lost > 0 ~> (lost = 0 \/ Admitted # {})

=============================================================================
