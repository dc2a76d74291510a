------------------------------ MODULE Scheduler ------------------------------
(***************************************************************************)
(* The fair inference queue, InferenceScheduler and Lease of               *)
(* src/localgate/core/scheduler.py: one instance sits in front of every    *)
(* backend.  A request asks for a slot under its API key, waits in its     *)
(* key's queue, and is handed a slot by _dispatch, which serves the keys   *)
(* round-robin.  A waiting request may time out or be cancelled (its       *)
(* client hung up) at any moment, also in the instant between being handed *)
(* a slot and being resumed by the event loop.                             *)
(*                                                                         *)
(* asyncio runs one task at a time and switches only at an await.  The     *)
(* synchronous stretch that ends in _dispatch therefore is one step for    *)
(* everybody else.  It is written as the handler's own step followed by    *)
(* one step per turn of _dispatch's while loop; "dispatching" is TRUE in   *)
(* between and keeps every other action disabled, so the loop can neither  *)
(* be skipped nor interleaved.  What the program can be seen to do is what *)
(* the states with dispatching = FALSE show.                               *)
(*                                                                         *)
(* Definitions marked "variant" are slips a change to this code could      *)
(* make.  No specification uses them; checked in place of the definition   *)
(* that follows them, each must be caught by a property (see README.md).   *)
(*                                                                         *)
(* Left out: the metrics (_report), the hold-time average behind           *)
(* Retry-After, and the Redis leases (RedisKeyLeases.tla).                 *)
(***************************************************************************)
EXTENDS Integers, Sequences, FiniteSets

CONSTANTS
  Key,            \* API keys
  Request,        \* requests that may be in the gateway at once
  KeyOf,          \* the key each request is made with
  LimitsOf,       \* per-key limits a key may carry when a request is made:
                  \* one value, or several when an admin edits the key meanwhile
  MaxConcurrent,  \* max_concurrent of the backend
  MaxQueue        \* max_queue

NoLimit == 0      \* max_concurrent = None on the key

ASSUME SchedulerAssumption ==
  /\ IsFiniteSet(Request)
  /\ KeyOf \in [Request -> Key]
  /\ LimitsOf \in [Key -> SUBSET Nat]
  /\ \A k \in Key : LimitsOf[k] # {}
  /\ MaxConcurrent \in Nat \ {0}
  /\ MaxQueue \in Nat \ {0}

VARIABLES
  pc,             \* where each request's task is
  asked,          \* the per_key_limit its _Waiter carries
  waiting,        \* _waiting: each key's queue of waiters
  turns,          \* _turns: keys with waiters, next one first
  active,         \* _active: slots handed out
  activeByKey,    \* _active_by_key, 0 for an absent key
  dispatching     \* the event loop is inside _dispatch

vars == <<pc, asked, waiting, turns, active, activeByKey, dispatching>>

(***************************************************************************)
(*   idle     not in the gateway                                           *)
(*   waiting  a _Waiter in the queue, its future pending                   *)
(*   granted  its future has a result, the task has not run since          *)
(*   holding  acquire returned a Lease                                     *)
(*   spent    the Lease was released; another exit path may release again  *)
(*   busy     acquire raised ServiceBusyError (503, Retry-After)           *)
(***************************************************************************)
Place == {"idle", "waiting", "granted", "holding", "spent", "busy"}

At(place) == {r \in Request : pc[r] = place}

\* The requests that own a slot: their tasks must give it back.
Owners == At("granted") \cup At("holding")

OwnersOf(k) == {r \in Owners : KeyOf[r] = k}

\* The queued property: positions occupied in all queues.
Queued == Cardinality(UNION {{k} \X DOMAIN waiting[k] : k \in Key})

InTurns(k) == \E i \in DOMAIN turns : turns[i] = k

PositionIn(s, x) == CHOOSE i \in DOMAIN s : s[i] = x

\* deque.remove: the first occurrence of x leaves s.
Without(s, x) ==
  [j \in 1..(Len(s) - 1) |-> IF j < PositionIn(s, x) THEN s[j] ELSE s[j + 1]]

\* deque.rotate(-1), n times.
Rotated(s, n) ==
  [j \in 1..Len(s) |-> IF j + n <= Len(s) THEN s[j + n] ELSE s[j + n - Len(s)]]

-----------------------------------------------------------------------------

Init ==
  /\ pc = [r \in Request |-> "idle"]
  /\ asked = [r \in Request |-> NoLimit]
  /\ waiting = [k \in Key |-> <<>>]
  /\ turns = <<>>
  /\ active = 0
  /\ activeByKey = [k \in Key |-> 0]
  /\ dispatching = FALSE

\* acquire -> _acquire_local up to its await: the waiter joins its key's queue.
Acquire(r) ==
  /\ ~dispatching
  /\ pc[r] = "idle"
  /\ Queued < MaxQueue
  /\ \E limit \in LimitsOf[KeyOf[r]] : asked' = [asked EXCEPT ![r] = limit]
  /\ waiting' = [waiting EXCEPT ![KeyOf[r]] = Append(@, r)]
  /\ turns' = IF InTurns(KeyOf[r]) THEN turns ELSE Append(turns, KeyOf[r])
  /\ pc' = [pc EXCEPT ![r] = "waiting"]
  /\ dispatching' = TRUE
  /\ UNCHANGED <<active, activeByKey>>

\* _acquire_local with the queue full: 503 queue_full, nothing recorded.
RefuseFull(r) ==
  /\ ~dispatching
  /\ pc[r] = "idle"
  /\ Queued >= MaxQueue
  /\ pc' = [pc EXCEPT ![r] = "busy"]
  /\ UNCHANGED <<asked, waiting, turns, active, activeByKey, dispatching>>

-----------------------------------------------------------------------------
(***************************************************************************)
(* _dispatch.  Only the first waiter of a key is looked at.  A key in      *)
(* turns always has a waiter (TurnsAreTheWaitingKeys), so the branch that  *)
(* drops a key whose queue vanished never runs and is not modelled.        *)
(***************************************************************************)
EligibleAtLimit(r) ==  \* variant: <= for <
  asked[r] = NoLimit \/ activeByKey[KeyOf[r]] <= asked[r]

Eligible(r) == asked[r] = NoLimit \/ activeByKey[KeyOf[r]] < asked[r]

HeadEligible(k) == waiting[k] # <<>> /\ Eligible(Head(waiting[k]))

CanGrant == active < MaxConcurrent /\ \E i \in DOMAIN turns : HeadEligible(turns[i])

TurnsUnrotated(i) ==  \* variant: the key served keeps its place
  IF Len(waiting[turns[i]]) = 1 THEN Without(turns, turns[i]) ELSE turns

\* After i rotations the key served is last; it leaves if nobody else waits.
TurnsAfter(i) ==
  IF Len(waiting[turns[i]]) = 1
    THEN SubSeq(Rotated(turns, i), 1, Len(turns) - 1)
    ELSE Rotated(turns, i)

\* One turn of the while loop: the first key in turns whose head may run.
GrantTurn(i) ==
  LET k == turns[i]
      r == Head(waiting[k])
  IN  /\ HeadEligible(k)
      /\ \A j \in 1..(i - 1) : ~HeadEligible(turns[j])
      /\ waiting' = [waiting EXCEPT ![k] = Tail(@)]
      /\ turns' = TurnsAfter(i)
      /\ active' = active + 1
      /\ activeByKey' = [activeByKey EXCEPT ![k] = @ + 1]
      /\ pc' = [pc EXCEPT ![r] = "granted"]
      /\ UNCHANGED <<asked, dispatching>>

DispatchGrantPastCapacity ==  \* variant: <= for <
  /\ dispatching
  /\ active <= MaxConcurrent
  /\ \E i \in DOMAIN turns : GrantTurn(i)

DispatchGrant ==
  /\ dispatching
  /\ active < MaxConcurrent
  /\ \E i \in DOMAIN turns : GrantTurn(i)

\* No free slot, nobody waiting, or everyone at its own limit: back to the loop.
DispatchEnd ==
  /\ dispatching
  /\ ~CanGrant
  /\ dispatching' = FALSE
  /\ UNCHANGED <<pc, asked, waiting, turns, active, activeByKey>>

-----------------------------------------------------------------------------

GiveBackQuietly(k) ==  \* variant: no _dispatch after the release
  /\ active' = active - 1
  /\ activeByKey' = [activeByKey EXCEPT ![k] = IF @ > 1 THEN @ - 1 ELSE 0]
  /\ UNCHANGED <<asked, waiting, turns, dispatching>>

\* _release up to its call of _dispatch.
GiveBack(k) ==
  /\ active' = active - 1
  /\ activeByKey' = [activeByKey EXCEPT ![k] = IF @ > 1 THEN @ - 1 ELSE 0]
  /\ dispatching' = TRUE
  /\ UNCHANGED <<asked, waiting, turns>>

ForgetKeepsTurn(r) ==  \* variant: a key without waiters keeps its turn
  /\ waiting' = [waiting EXCEPT ![KeyOf[r]] = Without(@, r)]
  /\ UNCHANGED <<asked, turns, active, activeByKey, dispatching>>

\* _forget: the waiter leaves its queue; no _dispatch follows.
Forget(r) ==
  LET k == KeyOf[r]
      queue == Without(waiting[k], r)
  IN  /\ waiting' = [waiting EXCEPT ![k] = queue]
      /\ turns' = IF queue = <<>> THEN Without(turns, k) ELSE turns
      /\ UNCHANGED <<asked, active, activeByKey, dispatching>>

\* The task wakes up with its slot.
Resume(r) ==
  /\ ~dispatching
  /\ pc[r] = "granted"
  /\ pc' = [pc EXCEPT ![r] = "holding"]
  /\ UNCHANGED <<asked, waiting, turns, active, activeByKey, dispatching>>

TimeoutStaysQueued(r) ==  \* variant: no _forget on a timeout
  /\ ~dispatching
  /\ pc[r] = "waiting"
  /\ pc' = [pc EXCEPT ![r] = "busy"]
  /\ UNCHANGED <<asked, waiting, turns, active, activeByKey, dispatching>>

\* queue_timeout passes while the waiter is still queued: 503 queue_timeout.
TimeoutWaiting(r) ==
  /\ ~dispatching
  /\ pc[r] = "waiting"
  /\ Forget(r)
  /\ pc' = [pc EXCEPT ![r] = "busy"]

\* queue_timeout passes in the instant the slot is granted: the slot is kept.
TimeoutGranted(r) ==
  /\ ~dispatching
  /\ pc[r] = "granted"
  /\ pc' = [pc EXCEPT ![r] = "holding"]
  /\ UNCHANGED <<asked, waiting, turns, active, activeByKey, dispatching>>

\* The caller went away while waiting.
CancelWaiting(r) ==
  /\ ~dispatching
  /\ pc[r] = "waiting"
  /\ Forget(r)
  /\ pc' = [pc EXCEPT ![r] = "idle"]

CancelGrantedLeaks(r) ==  \* variant: a cancelled waiter never looks whether it had won
  /\ ~dispatching
  /\ pc[r] = "granted"
  /\ pc' = [pc EXCEPT ![r] = "idle"]
  /\ UNCHANGED <<asked, waiting, turns, active, activeByKey, dispatching>>

\* The caller went away with a slot it had just won: it is handed back.
CancelGranted(r) ==
  /\ ~dispatching
  /\ pc[r] = "granted"
  /\ GiveBack(KeyOf[r])
  /\ pc' = [pc EXCEPT ![r] = "idle"]

\* Lease.release, first call.
Release(r) ==
  /\ ~dispatching
  /\ pc[r] = "holding"
  /\ GiveBack(KeyOf[r])
  /\ pc' = [pc EXCEPT ![r] = "spent"]

ReleaseTwice(r) ==  \* variant: Lease.release is not idempotent
  /\ ~dispatching
  /\ pc[r] = "spent"
  /\ GiveBack(KeyOf[r])
  /\ pc' = [pc EXCEPT ![r] = "idle"]

\* The request ends; a further Lease.release on its way out does nothing.
ReleaseAgain(r) ==
  /\ ~dispatching
  /\ pc[r] = "spent"
  /\ pc' = [pc EXCEPT ![r] = "idle"]
  /\ UNCHANGED <<asked, waiting, turns, active, activeByKey, dispatching>>

\* The client of a 503 is done with it (it may ask again).
Answered(r) ==
  /\ ~dispatching
  /\ pc[r] = "busy"
  /\ pc' = [pc EXCEPT ![r] = "idle"]
  /\ UNCHANGED <<asked, waiting, turns, active, activeByKey, dispatching>>

-----------------------------------------------------------------------------

Dispatch == DispatchGrant \/ DispatchEnd

RequestStep(r) ==
  \/ Acquire(r)
  \/ RefuseFull(r)
  \/ Resume(r)
  \/ TimeoutWaiting(r)
  \/ TimeoutGranted(r)
  \/ CancelWaiting(r)
  \/ CancelGranted(r)
  \/ Release(r)
  \/ ReleaseAgain(r)
  \/ Answered(r)

Next == Dispatch \/ \E r \in Request : RequestStep(r)

Spec == Init /\ [][Next]_vars

(***************************************************************************)
(* Fairness: the event loop runs what is ready (Dispatch, Resume), and a   *)
(* slot's holder releases it in the end.  The latter is an assumption      *)
(* about backends and clients: every exit path releases, but               *)
(* backend_timeout bounds one read of an answer, not the whole of it, and  *)
(* nothing bounds how slowly a client reads.  A task that is ready stays   *)
(* ready until it runs, except that these actions wait for another         *)
(* handler's _dispatch to end; strong fairness says that this wait alone   *)
(* never postpones them for ever.  Nothing is assumed of those who wait:   *)
(* they need not hang up or be timed out.                                  *)
(***************************************************************************)
Fairness ==
  /\ WF_vars(Dispatch)
  /\ \A r \in Request : SF_vars(Resume(r)) /\ SF_vars(Release(r))

FairSpec == Spec /\ Fairness

-----------------------------------------------------------------------------
(***************************************************************************)
(* Correctness                                                             *)
(***************************************************************************)

TypeOK ==
  /\ pc \in [Request -> Place]
  /\ asked \in [Request -> Nat]
  /\ waiting \in [Key -> Seq(Request)]
  /\ turns \in Seq(Key)
  /\ active \in Nat
  /\ activeByKey \in [Key -> Nat]
  /\ dispatching \in BOOLEAN

\* The counters _active and _active_by_key agree with the tasks that own a slot,
\* whatever order grants, timeouts, cancellations and releases come in: no slot
\* is leaked by a waiter that left in the instant it was granted, and none is
\* given back twice (Lease.release, the two except branches of _acquire_local).
SlotsConserved ==
  /\ active = Cardinality(Owners)
  /\ \A k \in Key : activeByKey[k] = Cardinality(OwnersOf(k))

\* No more generations than max_concurrent ever run on the backend, and none
\* of a key beyond the largest limit it carried (_dispatch, _eligible).
CapacityKept ==
  /\ Cardinality(Owners) <= MaxConcurrent
  /\ \A k \in Key : NoLimit \notin LimitsOf[k] =>
        \E limit \in LimitsOf[k] : Cardinality(OwnersOf(k)) <= limit

\* _waiting holds exactly the requests that wait, once each and under their own
\* key: nobody who left the queue can be granted, nobody in it is forgotten.
QueuesHoldTheWaiters ==
  /\ \A k \in Key : \A i \in DOMAIN waiting[k] :
        /\ waiting[k][i] \in Request
        /\ pc[waiting[k][i]] = "waiting"
        /\ KeyOf[waiting[k][i]] = k
        /\ \A j \in DOMAIN waiting[k] : waiting[k][i] = waiting[k][j] => i = j
  /\ \A r \in At("waiting") :
        \E i \in DOMAIN waiting[KeyOf[r]] : waiting[KeyOf[r]][i] = r

\* _turns lists each key that has a waiter once, and no other key: a key missing
\* here would never be served, a key twice would get two slots a round.
TurnsAreTheWaitingKeys ==
  /\ \A i, j \in DOMAIN turns : turns[i] = turns[j] => i = j
  /\ \A k \in Key : InTurns(k) <=> waiting[k] # <<>>

\* A free slot and a waiter that could use it never stay side by side once
\* _dispatch is done: whoever waits beside a free slot is at its key's limit.
\* Holds while a key's limit does not change (see HeadsServed).
NoNeedlessWait ==
  ~dispatching /\ active < MaxConcurrent =>
    \A r \in At("waiting") : ~Eligible(r)

\* The same for the first waiter of each key only, the one _dispatch looks at:
\* its comment says that it stops when "everyone waiting is at their own per-key
\* limit".
HeadsServed ==
  ~dispatching /\ active < MaxConcurrent =>
    \A k \in Key : ~HeadEligible(k)

\* Keys that get their turn before k.
Ahead(k) == {turns[i] : i \in {j \in DOMAIN turns : \A m \in 1..j : turns[m] # k}}

Granted(r) == pc[r] = "waiting" /\ pc'[r] = "granted"

\* Round-robin: while k's first waiter may run and k is not served, no key gets
\* in front of k, and a key that is served goes behind it.  Hence no key is
\* served twice while k waits its turn ("one device sending 50 requests can't
\* starve another sending one").
NoOvertaking ==
  [][\A k \in Key :
       (/\ InTurns(k) /\ InTurns(k)' /\ HeadEligible(k)
        /\ \A r \in Request : KeyOf[r] = k => ~Granted(r))
       => /\ Ahead(k)' \subseteq Ahead(k)
          /\ \A r \in Request : Granted(r) =>
                KeyOf[r] \in Ahead(k) /\ KeyOf[r] \notin Ahead(k)'
    ]_vars

\* Nobody waits for ever, even if no client ever gives up: the queue alone,
\* with holders that end, serves every waiter.
NoStarvation ==
  \A r \in Request : pc[r] = "waiting" ~> pc[r] # "waiting"

\* The queue keeps SlotPool's promise: its waiters want, its owners hold.
Pool == INSTANCE SlotPool WITH wanting <- At("waiting"), holding <- Owners

RefinesPool == Pool!PoolSpec

=============================================================================
