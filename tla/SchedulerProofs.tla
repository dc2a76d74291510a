---------------------------- MODULE SchedulerProofs ----------------------------
(***************************************************************************)
(* Proofs about Scheduler.tla, for any number of keys, requests and slots,  *)
(* and about Routing.tla, for any pool of backends, requests and times.     *)
(***************************************************************************)
EXTENDS Scheduler, Routing, FiniteSetTheorems, SequenceTheorems, TLAPS

-----------------------------------------------------------------------------
(* The deque operations of the model. *)

NoRepeats(s) == \A i, j \in DOMAIN s : s[i] = s[j] => i = j

\* A function on an initial stretch of the naturals is a sequence.
LEMMA FunctionIsSeq ==
  ASSUME NEW S, NEW n \in Nat, NEW f \in [1..n -> S]
  PROVE  f \in Seq(S) /\ DOMAIN f = 1..n /\ Len(f) = n
<1>1. f \in Seq(S)
  BY SeqDef
<1>2. DOMAIN f = 1..n
  OBVIOUS
<1> QED
  BY <1>1, <1>2, LenProperties

\* Removing an element of a sequence without repetitions leaves a shorter one
\* that holds everything else, still without repetitions (deque.remove).
LEMMA WithoutLemma ==
  ASSUME NEW S, NEW s \in Seq(S), NEW x, NEW p \in DOMAIN s, s[p] = x, NoRepeats(s)
  PROVE  /\ Without(s, x) \in Seq(S)
         /\ DOMAIN Without(s, x) = 1..(Len(s) - 1)
         /\ Len(Without(s, x)) = Len(s) - 1
         /\ NoRepeats(Without(s, x))
         /\ \A j \in DOMAIN Without(s, x) :
               Without(s, x)[j] # x /\ \E i \in DOMAIN s : s[i] = Without(s, x)[j]
         /\ \A i \in DOMAIN s : s[i] # x =>
               \E j \in DOMAIN Without(s, x) : Without(s, x)[j] = s[i]
<1> DEFINE w == Without(s, x)
<1>1. PositionIn(s, x) = p
  BY DEF PositionIn, NoRepeats
<1>2. w = [j \in 1..(Len(s) - 1) |-> IF j < p THEN s[j] ELSE s[j + 1]]
  BY <1>1 DEF Without
<1>3. Len(s) \in Nat /\ DOMAIN s = 1..Len(s) /\ p \in 1..Len(s)
  OBVIOUS
<1>4. w \in Seq(S) /\ DOMAIN w = 1..(Len(s) - 1) /\ Len(w) = Len(s) - 1
  <2>1. w \in [1..(Len(s) - 1) -> S]
    BY <1>2, <1>3
  <2>2. Len(s) - 1 \in Nat
    BY <1>3
  <2> HIDE DEF w
  <2> QED
    BY <2>1, <2>2, FunctionIsSeq
<1> DEFINE f(j) == IF j < p THEN j ELSE j + 1
<1>5. \A j \in 1..(Len(s) - 1) : f(j) \in 1..Len(s) /\ f(j) # p /\ w[j] = s[f(j)]
  BY <1>2, <1>3
<1>9. \A i, j \in 1..(Len(s) - 1) : f(i) = f(j) => i = j
  BY <1>3
<1> HIDE DEF w, f
<1>6. NoRepeats(w)
  BY <1>3, <1>4, <1>5, <1>9 DEF NoRepeats
<1>7. \A j \in DOMAIN w : w[j] # x /\ \E i \in DOMAIN s : s[i] = w[j]
  BY <1>3, <1>4, <1>5 DEF NoRepeats
<1>8. \A i \in DOMAIN s : s[i] # x => \E j \in DOMAIN w : w[j] = s[i]
  <2> TAKE i \in DOMAIN s
  <2> HAVE s[i] # x
  <2>1. CASE i < p
    BY <2>1, <1>3, <1>4, <1>5 DEF f
  <2>2. CASE i > p
    <3>1. i - 1 \in DOMAIN w /\ w[i - 1] = s[i]
      BY <2>2, <1>3, <1>4, <1>5 DEF f
    <3> QED  BY <3>1
  <2> QED
    BY <2>1, <2>2, <1>3
<1> QED
  BY <1>4, <1>6, <1>7, <1>8 DEF w

\* Rotating a sequence keeps its length and its elements (deque.rotate); the
\* element at the place rotated to comes last.
LEMMA RotatedLemma ==
  ASSUME NEW S, NEW s \in Seq(S), NEW n \in DOMAIN s
  PROVE  /\ Rotated(s, n) \in Seq(S)
         /\ DOMAIN Rotated(s, n) = DOMAIN s
         /\ Len(Rotated(s, n)) = Len(s)
         /\ Rotated(s, n)[Len(s)] = s[n]
         /\ \A j \in DOMAIN s : \E i \in DOMAIN s : Rotated(s, n)[j] = s[i]
         /\ \A i \in DOMAIN s : \E j \in DOMAIN s : Rotated(s, n)[j] = s[i]
         /\ NoRepeats(s) => NoRepeats(Rotated(s, n))
<1> DEFINE f(j) == IF j + n <= Len(s) THEN j + n ELSE j + n - Len(s)
<1> DEFINE q == Rotated(s, n)
<1>1. Len(s) \in Nat /\ DOMAIN s = 1..Len(s) /\ n \in 1..Len(s)
  OBVIOUS
<1>2. \A j \in 1..Len(s) : f(j) \in 1..Len(s) /\ q[j] = s[f(j)]
  BY <1>1 DEF Rotated
<1>3. q \in [1..Len(s) -> S]
  BY <1>1, <1>2 DEF Rotated
<1>4. q \in Seq(S) /\ DOMAIN q = DOMAIN s /\ Len(q) = Len(s)
  <2> QED  BY <1>1, <1>3, FunctionIsSeq
<1>5. q[Len(s)] = s[n]
  BY <1>1, <1>2
<1>6. \A j \in DOMAIN s : \E i \in DOMAIN s : q[j] = s[i]
  BY <1>1, <1>2
<1>7. \A i \in DOMAIN s : \E j \in DOMAIN s : q[j] = s[i]
  <2> TAKE i \in DOMAIN s
  <2> DEFINE g == IF i > n THEN i - n ELSE i + Len(s) - n
  <2>1. g \in 1..Len(s) /\ f(g) = i
    BY <1>1
  <2> QED
    BY <2>1, <1>1, <1>2
<1>8. NoRepeats(s) => NoRepeats(q)
  <2>1. \A i, j \in 1..Len(s) : f(i) = f(j) => i = j
    BY <1>1
  <2> QED
    BY <2>1, <1>1, <1>2, <1>4 DEF NoRepeats
<1> QED
  BY <1>4, <1>5, <1>6, <1>7, <1>8

\* Dropping the last element of a sequence without repetitions leaves the others.
LEMMA DropLastLemma ==
  ASSUME NEW S, NEW s \in Seq(S), NEW n \in Nat, Len(s) = n + 1, NoRepeats(s)
  PROVE  /\ SubSeq(s, 1, n) \in Seq(S)
         /\ NoRepeats(SubSeq(s, 1, n))
         /\ \A j \in DOMAIN SubSeq(s, 1, n) :
               /\ SubSeq(s, 1, n)[j] # s[n + 1]
               /\ \E i \in DOMAIN s : SubSeq(s, 1, n)[j] = s[i]
         /\ \A i \in DOMAIN s : s[i] # s[n + 1] =>
               \E j \in DOMAIN SubSeq(s, 1, n) : SubSeq(s, 1, n)[j] = s[i]
<1> DEFINE p == SubSeq(s, 1, n)
<1>1. DOMAIN s = 1..(n + 1)
  OBVIOUS
<1>2. p \in Seq(S) /\ DOMAIN p = 1..n /\ \A j \in 1..n : p[j] = s[j]
  OBVIOUS
<1> HIDE DEF p
<1>3. NoRepeats(p)
  BY <1>1, <1>2 DEF NoRepeats
<1>4. ASSUME NEW j \in DOMAIN p
      PROVE  p[j] # s[n + 1] /\ \E i \in DOMAIN s : p[j] = s[i]
  BY <1>1, <1>2 DEF NoRepeats
<1>5. ASSUME NEW i \in DOMAIN s, s[i] # s[n + 1]
      PROVE  \E j \in DOMAIN p : p[j] = s[i]
  <2>1. i \in DOMAIN p
    BY <1>1, <1>2, <1>5
  <2> QED
    BY <2>1, <1>2
<1> QED
  BY <1>2, <1>3, <1>4, <1>5 DEF p

-----------------------------------------------------------------------------
(* The inductive invariant. *)

\* What SlotsConserved and CapacityKept need of the counters themselves.
CountersBounded ==
  /\ active <= MaxConcurrent
  /\ \A k \in Key : NoLimit \notin LimitsOf[k] =>
        \E limit \in LimitsOf[k] : activeByKey[k] <= limit

\* A waiter carries a limit its key had.
AskedIsALimit == \A r \in At("waiting") : asked[r] \in LimitsOf[KeyOf[r]]

Inv ==
  /\ TypeOK
  /\ SlotsConserved
  /\ CountersBounded
  /\ AskedIsALimit
  /\ QueuesHoldTheWaiters
  /\ TurnsAreTheWaitingKeys

\* Finitely many requests own a slot, so the counts are numbers.
LEMMA OwnersFinite ==
  /\ IsFiniteSet(Owners) /\ Cardinality(Owners) \in Nat
  /\ \A k : IsFiniteSet(OwnersOf(k)) /\ Cardinality(OwnersOf(k)) \in Nat
<1>1. Owners \subseteq Request /\ \A k : OwnersOf(k) \subseteq Request
  BY DEF Owners, OwnersOf, At
<1> QED
  BY <1>1, SchedulerAssumption, FS_Subset, FS_CardinalityType

\* A request that comes to own a slot adds one to both counts, its own key's only.
LEMMA OwnerAdded ==
  ASSUME NEW r \in Request, r \notin Owners, Owners' = Owners \cup {r}
  PROVE  /\ Cardinality(Owners') = Cardinality(Owners) + 1
         /\ Cardinality(OwnersOf(KeyOf[r])') = Cardinality(OwnersOf(KeyOf[r])) + 1
         /\ \A k \in Key \ {KeyOf[r]} : OwnersOf(k)' = OwnersOf(k)
<1>1. r \notin OwnersOf(KeyOf[r])
  BY DEF OwnersOf
<1>2. OwnersOf(KeyOf[r])' = OwnersOf(KeyOf[r]) \cup {r}
  BY DEF OwnersOf
<1>3. \A k \in Key \ {KeyOf[r]} : OwnersOf(k)' = OwnersOf(k)
  BY DEF OwnersOf
<1> QED
  BY <1>1, <1>2, <1>3, OwnersFinite, FS_AddElement

\* A request that gives its slot up takes one from both counts, its own key's only.
LEMMA OwnerRemoved ==
  ASSUME NEW r \in Request, r \in Owners, Owners' = Owners \ {r}
  PROVE  /\ Cardinality(Owners') = Cardinality(Owners) - 1
         /\ Cardinality(OwnersOf(KeyOf[r])') = Cardinality(OwnersOf(KeyOf[r])) - 1
         /\ \A k \in Key \ {KeyOf[r]} : OwnersOf(k)' = OwnersOf(k)
<1>1. r \in OwnersOf(KeyOf[r])
  BY DEF OwnersOf
<1>2. OwnersOf(KeyOf[r])' = OwnersOf(KeyOf[r]) \ {r}
  BY DEF OwnersOf
<1>3. \A k \in Key \ {KeyOf[r]} : OwnersOf(k)' = OwnersOf(k)
  BY DEF OwnersOf
<1> QED
  BY <1>1, <1>2, <1>3, OwnersFinite, FS_RemoveElement

\* A request that moves between places that own no slot, or between places that
\* do, changes neither count.
LEMMA OwnersSame ==
  ASSUME NEW r \in Request, TypeOK, NEW place \in Place,
         pc' = [pc EXCEPT ![r] = place],
         pc[r] \in {"granted", "holding"} <=> place \in {"granted", "holding"},
         SlotsConserved, UNCHANGED <<active, activeByKey>>
  PROVE  SlotsConserved'
<1>1. Owners' = Owners
  BY DEF Owners, At, TypeOK
<1>2. \A k : OwnersOf(k)' = OwnersOf(k)
  BY <1>1 DEF OwnersOf
<1> QED
  BY <1>1, <1>2 DEF SlotsConserved

-----------------------------------------------------------------------------
(* Every action keeps it. *)

\* It holds in the empty gateway.
LEMMA InitInv == Init => Inv
<1> SUFFICES ASSUME Init PROVE Inv
  OBVIOUS
<1> USE SchedulerAssumption DEF Init, NoLimit
<1>1. TypeOK
  BY EmptySeq DEF TypeOK, Place
<1>2. Owners = {} /\ \A k : OwnersOf(k) = {}
  BY DEF Owners, OwnersOf, At
<1>3. SlotsConserved
  BY <1>2, FS_EmptySet DEF SlotsConserved
<1>4. CountersBounded
  BY DEF CountersBounded
<1>5. AskedIsALimit /\ QueuesHoldTheWaiters
  BY DEF AskedIsALimit, QueuesHoldTheWaiters, At
<1>6. TurnsAreTheWaitingKeys
  BY DEF TurnsAreTheWaitingKeys, InTurns
<1> QED
  BY <1>1, <1>3, <1>4, <1>5, <1>6 DEF Inv

\* A task that moves between places outside the queue, owning a slot before and
\* after or neither, disturbs nothing.
LEMMA PlaceOnly ==
  ASSUME Inv, NEW r \in Request, NEW place \in Place,
         pc' = [pc EXCEPT ![r] = place],
         pc[r] # "waiting", place # "waiting",
         pc[r] \in {"granted", "holding"} <=> place \in {"granted", "holding"},
         UNCHANGED <<asked, waiting, turns, active, activeByKey, dispatching>>
  PROVE  Inv'
<1>1. TypeOK'
  BY DEF Inv, TypeOK
<1>2. SlotsConserved'
  BY OwnersSame DEF Inv
<1>3. At("waiting")' = At("waiting") /\ \A q \in At("waiting") : pc'[q] = pc[q]
  BY DEF At, Inv, TypeOK
<1>4. CountersBounded' /\ AskedIsALimit'
  BY <1>3 DEF Inv, CountersBounded, AskedIsALimit
<1>5. QueuesHoldTheWaiters'
  BY <1>3 DEF Inv, QueuesHoldTheWaiters, At
<1>6. TurnsAreTheWaitingKeys'
  BY DEF Inv, TurnsAreTheWaitingKeys, InTurns
<1> QED
  BY <1>1, <1>2, <1>4, <1>5, <1>6 DEF Inv

\* _acquire_local: a waiter joins the end of its key's queue, and its key gets a
\* turn if it has none.
LEMMA AcquireInv ==
  ASSUME Inv, NEW r \in Request, Acquire(r)
  PROVE  Inv'
<1> DEFINE k == KeyOf[r]
<1> DEFINE q == waiting[k]
<1>1. k \in Key /\ pc[r] = "idle" /\ q \in Seq(Request)
  BY SchedulerAssumption DEF Acquire, Inv, TypeOK
<1>2. TypeOK'
  <2>1. asked' \in [Request -> Nat]
    BY SchedulerAssumption DEF Acquire, Inv, TypeOK
  <2>2. waiting' \in [Key -> Seq(Request)]
    BY <1>1 DEF Acquire, Inv, TypeOK
  <2>3. turns' \in Seq(Key)
    BY <1>1 DEF Acquire, Inv, TypeOK
  <2> QED
    BY <2>1, <2>2, <2>3 DEF Acquire, Inv, TypeOK, Place
<1>3. SlotsConserved'
  BY OwnersSame DEF Acquire, Inv, Place
<1>4. CountersBounded'
  BY DEF Acquire, Inv, CountersBounded
<1>5. AskedIsALimit'
  BY DEF Acquire, Inv, AskedIsALimit, At, TypeOK
<1>6. /\ waiting'[k] = Append(q, r)
      /\ \A j \in Key : j # k => waiting'[j] = waiting[j]
      /\ pc'[r] = "waiting"
      /\ \A x \in Request : x # r => pc'[x] = pc[x]
  BY <1>1 DEF Acquire, Inv, TypeOK
<1>7. /\ DOMAIN Append(q, r) = 1..(Len(q) + 1)
      /\ DOMAIN q = 1..Len(q) /\ Len(q) \in Nat
      /\ \A i \in DOMAIN q : Append(q, r)[i] = q[i]
      /\ Append(q, r)[Len(q) + 1] = r
  BY <1>1
<1>8. QueuesHoldTheWaiters'
  <2>1. \A j \in Key : \A i \in DOMAIN waiting[j] : waiting[j][i] # r
    BY <1>1 DEF Inv, QueuesHoldTheWaiters
  <2>2. ASSUME NEW j \in Key, NEW i \in DOMAIN waiting'[j]
        PROVE  /\ waiting'[j][i] \in Request
               /\ pc'[waiting'[j][i]] = "waiting"
               /\ KeyOf[waiting'[j][i]] = j
               /\ \A m \in DOMAIN waiting'[j] : waiting'[j][i] = waiting'[j][m] => i = m
    <3>1. CASE j = k
      BY <3>1, <2>1, <2>2, <1>1, <1>6, <1>7 DEF Inv, QueuesHoldTheWaiters
    <3>2. CASE j # k
      BY <3>2, <2>1, <2>2, <1>6 DEF Inv, QueuesHoldTheWaiters
    <3> QED  BY <3>1, <3>2
  <2>3. ASSUME NEW x \in At("waiting")'
        PROVE  \E i \in DOMAIN waiting'[KeyOf[x]] : waiting'[KeyOf[x]][i] = x
    <3>1. CASE x = r
      BY <3>1, <1>6, <1>7
    <3>2. CASE x # r
      <4>1. x \in At("waiting") /\ KeyOf[x] \in Key
        BY <3>2, <2>3, <1>6, SchedulerAssumption DEF At
      <4>2. PICK i \in DOMAIN waiting[KeyOf[x]] : waiting[KeyOf[x]][i] = x
        BY <4>1 DEF Inv, QueuesHoldTheWaiters
      <4> QED
        BY <4>1, <4>2, <1>6, <1>7
    <3> QED  BY <3>1, <3>2
  <2> QED
    BY <2>2, <2>3 DEF QueuesHoldTheWaiters
<1>9. TurnsAreTheWaitingKeys'
  <2>1. waiting'[k] # <<>>
    BY <1>1, <1>6
  <2>2. turns \in Seq(Key) /\ DOMAIN turns = 1..Len(turns) /\ Len(turns) \in Nat
    BY DEF Inv, TypeOK
  <2>3. CASE InTurns(k)
    <3>1. turns' = turns
      BY <2>3 DEF Acquire
    <3> QED
      BY <3>1, <2>1, <2>3, <1>1, <1>6 DEF Inv, TurnsAreTheWaitingKeys, InTurns
  <2>4. CASE ~InTurns(k)
    <3>1. turns' = Append(turns, k)
      BY <2>4 DEF Acquire
    <3>2. /\ DOMAIN turns' = 1..(Len(turns) + 1)
          /\ \A i \in DOMAIN turns : turns'[i] = turns[i]
          /\ turns'[Len(turns) + 1] = k
      BY <3>1, <2>2, <1>1
    <3>3. \A i, j \in DOMAIN turns' : turns'[i] = turns'[j] => i = j
      BY <3>2, <2>2, <2>4 DEF Inv, TurnsAreTheWaitingKeys, InTurns
    <3>4. \A j \in Key : InTurns(j)' <=> (InTurns(j) \/ j = k)
      BY <3>2, <2>2 DEF InTurns
    <3> QED
      BY <3>3, <3>4, <2>1, <1>6 DEF Inv, TurnsAreTheWaitingKeys
  <2> QED  BY <2>3, <2>4
<1> QED
  BY <1>2, <1>3, <1>4, <1>5, <1>8, <1>9 DEF Inv

\* _forget: a waiter that times out or is cancelled leaves its queue, and its key
\* leaves turns with its last waiter.
LEMMA ForgetInv ==
  ASSUME Inv, NEW r \in Request, pc[r] = "waiting", Forget(r),
         NEW place \in {"busy", "idle"}, pc' = [pc EXCEPT ![r] = place]
  PROVE  Inv'
<1> DEFINE k == KeyOf[r]
<1> DEFINE q == waiting[k]
<1> DEFINE w == Without(q, r)
<1>1. k \in Key /\ q \in Seq(Request)
  BY SchedulerAssumption DEF Inv, TypeOK
<1>2. PICK p \in DOMAIN q : q[p] = r
  BY DEF Inv, QueuesHoldTheWaiters, At
<1>3. NoRepeats(q)
  BY <1>1 DEF Inv, QueuesHoldTheWaiters, NoRepeats
<1>4. /\ w \in Seq(Request)
      /\ DOMAIN w = 1..(Len(q) - 1)
      /\ Len(w) = Len(q) - 1
      /\ NoRepeats(w)
      /\ \A j \in DOMAIN w : w[j] # r /\ \E i \in DOMAIN q : q[i] = w[j]
      /\ \A i \in DOMAIN q : q[i] # r => \E j \in DOMAIN w : w[j] = q[i]
  <2> HIDE DEF q
  <2> QED
    BY <1>1, <1>2, <1>3, WithoutLemma
<1>5. /\ waiting'[k] = w
      /\ \A j \in Key : j # k => waiting'[j] = waiting[j]
      /\ waiting' \in [Key -> Seq(Request)]
  BY <1>1, <1>4 DEF Forget, Inv, TypeOK
<1>6. turns \in Seq(Key) /\ NoRepeats(turns)
  BY DEF Inv, TypeOK, TurnsAreTheWaitingKeys, NoRepeats
<1>7. PICK t \in DOMAIN turns : turns[t] = k
  <2>1. q # <<>>
    BY <1>1, <1>2
  <2> QED
    BY <2>1, <1>1 DEF Inv, TurnsAreTheWaitingKeys, InTurns
<1>8. /\ Without(turns, k) \in Seq(Key)
      /\ NoRepeats(Without(turns, k))
      /\ \A j \in DOMAIN Without(turns, k) :
            Without(turns, k)[j] # k /\ \E i \in DOMAIN turns : turns[i] = Without(turns, k)[j]
      /\ \A i \in DOMAIN turns : turns[i] # k =>
            \E j \in DOMAIN Without(turns, k) : Without(turns, k)[j] = turns[i]
  BY <1>6, <1>7, WithoutLemma
<1>9. turns' = IF w = <<>> THEN Without(turns, k) ELSE turns
  BY DEF Forget
<1> HIDE DEF w
<1>10. TypeOK'
  BY <1>5, <1>6, <1>8, <1>9 DEF Forget, Inv, TypeOK, Place
<1>11. SlotsConserved'
  BY OwnersSame DEF Forget, Inv, Place
<1>12. CountersBounded' /\ AskedIsALimit'
  BY DEF Forget, Inv, CountersBounded, AskedIsALimit, At, TypeOK
<1>13. QueuesHoldTheWaiters'
  <2>1. \A x \in Request : x # r => pc'[x] = pc[x]
    BY DEF Inv, TypeOK
  <2>2. \A j \in Key : j # k => \A i \in DOMAIN waiting[j] : waiting[j][i] # r
    BY DEF Inv, QueuesHoldTheWaiters
  <2>3. ASSUME NEW j \in Key, NEW i \in DOMAIN waiting'[j]
        PROVE  /\ waiting'[j][i] \in Request
               /\ pc'[waiting'[j][i]] = "waiting"
               /\ KeyOf[waiting'[j][i]] = j
               /\ \A m \in DOMAIN waiting'[j] : waiting'[j][i] = waiting'[j][m] => i = m
    <3>1. CASE j = k
      BY <3>1, <2>1, <2>3, <1>1, <1>4, <1>5 DEF Inv, QueuesHoldTheWaiters, NoRepeats
    <3>2. CASE j # k
      BY <3>2, <2>1, <2>2, <2>3, <1>5 DEF Inv, QueuesHoldTheWaiters
    <3> QED  BY <3>1, <3>2
  <2>4. ASSUME NEW x \in At("waiting")'
        PROVE  \E i \in DOMAIN waiting'[KeyOf[x]] : waiting'[KeyOf[x]][i] = x
    <3>1. x # r /\ x \in At("waiting") /\ KeyOf[x] \in Key
      BY <2>4, SchedulerAssumption DEF At, Inv, TypeOK
    <3>2. PICK i \in DOMAIN waiting[KeyOf[x]] : waiting[KeyOf[x]][i] = x
      BY <3>1 DEF Inv, QueuesHoldTheWaiters
    <3>3. CASE KeyOf[x] = k
      <4>1. i \in DOMAIN q /\ q[i] # r /\ q[i] = x
        BY <3>1, <3>2, <3>3
      <4>2. \E j \in DOMAIN w : w[j] = x
        BY <4>1, <1>4
      <4> QED
        BY <4>2, <3>3, <1>5
    <3>4. CASE KeyOf[x] # k
      <4>1. waiting'[KeyOf[x]] = waiting[KeyOf[x]]
        BY <3>1, <3>4, <1>5
      <4> QED
        BY <4>1, <3>2
    <3> QED  BY <3>3, <3>4
  <2> QED
    BY <2>3, <2>4 DEF QueuesHoldTheWaiters
<1>14. TurnsAreTheWaitingKeys'
  <2>1. CASE w = <<>>
    <3>1. turns' = Without(turns, k)
      BY <2>1, <1>9
    <3>2. \A j \in Key : InTurns(j)' <=> (InTurns(j) /\ j # k)
      BY <3>1, <1>7, <1>8 DEF InTurns
    <3>3. \A i, j \in DOMAIN turns' : turns'[i] = turns'[j] => i = j
      BY <3>1, <1>8 DEF NoRepeats
    <3> QED
      BY <3>2, <3>3, <2>1, <1>5 DEF Inv, TurnsAreTheWaitingKeys
  <2>2. CASE w # <<>>
    <3>1. turns' = turns
      BY <2>2, <1>9
    <3> QED
      BY <3>1, <2>2, <1>5, <1>7 DEF Inv, TurnsAreTheWaitingKeys, InTurns
  <2> QED  BY <2>1, <2>2
<1> QED
  BY <1>10, <1>11, <1>12, <1>13, <1>14 DEF Inv

\* _release: the owner's slot is free again.
LEMMA GiveBackInv ==
  ASSUME Inv, NEW r \in Request, pc[r] \in {"granted", "holding"}, GiveBack(KeyOf[r]),
         NEW place \in {"idle", "spent"}, pc' = [pc EXCEPT ![r] = place]
  PROVE  Inv'
<1> DEFINE k == KeyOf[r]
<1>1. k \in Key /\ r \in Owners
  BY SchedulerAssumption DEF Owners, At
<1>2. Owners' = Owners \ {r}
  BY DEF Owners, At, Inv, TypeOK
<1>3. /\ Cardinality(Owners') = Cardinality(Owners) - 1
      /\ Cardinality(OwnersOf(k)') = Cardinality(OwnersOf(k)) - 1
      /\ \A j \in Key \ {k} : OwnersOf(j)' = OwnersOf(j)
  BY <1>1, <1>2, OwnerRemoved
<1>4. /\ Cardinality(Owners') \in Nat
      /\ \A j \in Key : Cardinality(OwnersOf(j)') \in Nat
  <2>1. IsFiniteSet(Owners')
    BY <1>2, OwnersFinite, FS_RemoveElement
  <2>2. \A j \in Key : OwnersOf(j)' \subseteq Owners'
    BY DEF OwnersOf
  <2> QED
    BY <2>1, <2>2, FS_Subset, FS_CardinalityType
<1>5. /\ active = Cardinality(Owners) /\ active \in Nat
      /\ activeByKey[k] = Cardinality(OwnersOf(k)) /\ activeByKey[k] \in Nat
  BY <1>1 DEF Inv, SlotsConserved, TypeOK
<1>6. active' = active - 1 /\ activeByKey'[k] = activeByKey[k] - 1
  BY <1>1, <1>3, <1>4, <1>5 DEF GiveBack, Inv, TypeOK
<1>7. \A j \in Key \ {k} : activeByKey'[j] = activeByKey[j]
  BY DEF GiveBack, Inv, TypeOK
<1>8. TypeOK'
  <2>1. active' \in Nat
    BY <1>3, <1>4, <1>5, <1>6
  <2>2. activeByKey' \in [Key -> Nat]
    BY <1>1 DEF GiveBack, Inv, TypeOK
  <2> QED
    BY <2>1, <2>2 DEF GiveBack, Inv, TypeOK, Place
<1>9. SlotsConserved'
  <2>1. active' = Cardinality(Owners')
    BY <1>3, <1>5, <1>6
  <2>2. ASSUME NEW j \in Key
        PROVE  activeByKey'[j] = Cardinality(OwnersOf(j)')
    <3>1. CASE j = k
      BY <3>1, <1>3, <1>5, <1>6
    <3>2. CASE j # k
      BY <3>2, <1>3, <1>7 DEF Inv, SlotsConserved
    <3> QED  BY <3>1, <3>2
  <2> QED
    BY <2>1, <2>2 DEF SlotsConserved
<1>10. CountersBounded'
  <2>1. active' <= MaxConcurrent
    BY <1>5, <1>6, SchedulerAssumption DEF Inv, CountersBounded
  <2>2. ASSUME NEW j \in Key, NoLimit \notin LimitsOf[j]
        PROVE  \E limit \in LimitsOf[j] : activeByKey'[j] <= limit
    <3>1. PICK limit \in LimitsOf[j] : activeByKey[j] <= limit
      BY <2>2 DEF Inv, CountersBounded
    <3>2. activeByKey[j] \in Nat /\ limit \in Nat
      BY SchedulerAssumption DEF Inv, TypeOK
    <3>3. activeByKey'[j] = activeByKey[j] \/ activeByKey'[j] = activeByKey[j] - 1
      BY <1>6, <1>7
    <3> QED
      BY <3>1, <3>2, <3>3
  <2> QED
    BY <2>1, <2>2 DEF CountersBounded
<1>11. At("waiting")' = At("waiting")
  BY DEF At, Inv, TypeOK
<1>12. AskedIsALimit' /\ QueuesHoldTheWaiters'
  <2>1. \A x \in Request : pc[x] = "waiting" => pc'[x] = "waiting"
    BY DEF Inv, TypeOK
  <2> QED
    BY <2>1, <1>11 DEF GiveBack, Inv, AskedIsALimit, QueuesHoldTheWaiters
<1>13. TurnsAreTheWaitingKeys'
  BY DEF GiveBack, Inv, TurnsAreTheWaitingKeys, InTurns
<1> QED
  BY <1>8, <1>9, <1>10, <1>12, <1>13 DEF Inv

-----------------------------------------------------------------------------

\* One turn of _dispatch's loop: the head of the i-th key in turns gets a slot, its
\* key goes to the back of turns and leaves it if nobody else waits.
LEMMA GrantInv ==
  ASSUME Inv, active < MaxConcurrent, NEW i \in DOMAIN turns, GrantTurn(i)
  PROVE  Inv'
<1> DEFINE k == turns[i]
<1> DEFINE q == waiting[k]
<1>1. turns \in Seq(Key) /\ NoRepeats(turns) /\ k \in Key /\ q \in Seq(Request) /\ q # <<>>
  BY DEF Inv, TypeOK, TurnsAreTheWaitingKeys, NoRepeats, GrantTurn, HeadEligible
<1>2. /\ Head(q) = q[1] /\ 1 \in DOMAIN q /\ Head(q) \in Request
      /\ Tail(q) \in Seq(Request)
      /\ Len(q) \in Nat \ {0} /\ DOMAIN q = 1..Len(q)
      /\ DOMAIN Tail(q) = 1..(Len(q) - 1)
      /\ \A j \in DOMAIN Tail(q) : Tail(q)[j] = q[j + 1]
  <2> HIDE DEF q
  <2> QED
    BY <1>1, HeadTailProperties, EmptySeq
<1>0. PICK r \in Request : r = Head(q)
  BY <1>2
<1>3. pc[r] = "waiting" /\ KeyOf[r] = k
  BY <1>0, <1>1, <1>2 DEF Inv, QueuesHoldTheWaiters
<1>4. /\ waiting'[k] = Tail(q)
      /\ \A j \in Key : j # k => waiting'[j] = waiting[j]
      /\ waiting' \in [Key -> Seq(Request)]
  BY <1>1, <1>2 DEF GrantTurn, Inv, TypeOK
<1>5. /\ pc' \in [Request -> Place]
      /\ pc'[r] = "granted"
      /\ \A x \in Request : x # r => pc'[x] = pc[x]
  BY <1>0 DEF GrantTurn, Inv, TypeOK, Place
<1>6. /\ active' = active + 1
      /\ activeByKey' \in [Key -> Nat]
      /\ activeByKey'[k] = activeByKey[k] + 1
      /\ \A j \in Key : j # k => activeByKey'[j] = activeByKey[j]
      /\ UNCHANGED <<asked, dispatching>>
  BY <1>1 DEF GrantTurn, Inv, TypeOK
<1>7. Eligible(r)
  BY <1>0 DEF GrantTurn, HeadEligible
<1>8. turns' = TurnsAfter(i)
  BY DEF GrantTurn
<1>9. SlotsConserved'
  <2>1. r \notin Owners /\ Owners' = Owners \cup {r}
    BY <1>2, <1>3, <1>5 DEF Owners, At
  <2>2. /\ Cardinality(Owners') = Cardinality(Owners) + 1
        /\ Cardinality(OwnersOf(KeyOf[r])') = Cardinality(OwnersOf(KeyOf[r])) + 1
        /\ \A j \in Key \ {KeyOf[r]} : OwnersOf(j)' = OwnersOf(j)
    BY <2>1, <1>2, OwnerAdded
  <2>3. ASSUME NEW j \in Key
        PROVE  activeByKey'[j] = Cardinality(OwnersOf(j)')
    <3>1. CASE j = KeyOf[r]
      <4>1. activeByKey'[j] = activeByKey[j] + 1
        BY <3>1, <1>3, <1>6
      <4>2. activeByKey[j] = Cardinality(OwnersOf(j))
        BY DEF Inv, SlotsConserved
      <4> QED
        BY <4>1, <4>2, <3>1, <2>2
    <3>2. CASE j # KeyOf[r]
      BY <3>2, <2>2, <1>3, <1>6 DEF Inv, SlotsConserved
    <3> QED  BY <3>1, <3>2
  <2> QED
    BY <2>2, <2>3, <1>6 DEF Inv, SlotsConserved
<1>10. CountersBounded'
  <2>1. active' <= MaxConcurrent
    BY <1>6, SchedulerAssumption DEF Inv, TypeOK
  <2>2. ASSUME NEW j \in Key, NoLimit \notin LimitsOf[j]
        PROVE  \E limit \in LimitsOf[j] : activeByKey'[j] <= limit
    <3>1. CASE j = k
      <4>1. asked[r] \in LimitsOf[k]
        BY <1>2, <1>3 DEF Inv, AskedIsALimit, At
      <4>2. activeByKey[k] < asked[r]
        BY <4>1, <3>1, <2>2, <1>3, <1>7 DEF Eligible
      <4>3. asked[r] \in Nat /\ activeByKey[k] \in Nat
        BY <1>1, <1>2 DEF Inv, TypeOK
      <4> QED
        BY <4>1, <4>2, <4>3, <3>1, <1>6
    <3>2. CASE j # k
      BY <3>2, <2>2, <1>6 DEF Inv, CountersBounded
    <3> QED  BY <3>1, <3>2
  <2> QED
    BY <2>1, <2>2 DEF CountersBounded
<1>11. AskedIsALimit'
  BY <1>5, <1>6 DEF Inv, AskedIsALimit, At
<1>12. QueuesHoldTheWaiters'
  <2>1. \A j \in DOMAIN Tail(q) : Tail(q)[j] # r
    BY <1>0, <1>1, <1>2 DEF Inv, QueuesHoldTheWaiters
  <2>2. \A j \in Key : j # k => \A m \in DOMAIN waiting[j] : waiting[j][m] # r
    BY <1>3 DEF Inv, QueuesHoldTheWaiters
  <2>3. ASSUME NEW j \in Key, NEW m \in DOMAIN waiting'[j]
        PROVE  /\ waiting'[j][m] \in Request
               /\ pc'[waiting'[j][m]] = "waiting"
               /\ KeyOf[waiting'[j][m]] = j
               /\ \A n \in DOMAIN waiting'[j] : waiting'[j][m] = waiting'[j][n] => m = n
    <3>1. CASE j = k
      <4>1. m \in DOMAIN Tail(q) /\ waiting'[j] = Tail(q)
        BY <3>1, <2>3, <1>4
      <4>2. /\ q[m + 1] \in Request /\ pc[q[m + 1]] = "waiting" /\ KeyOf[q[m + 1]] = k
            /\ \A n \in DOMAIN Tail(q) : q[m + 1] = q[n + 1] => m = n
        BY <4>1, <1>1, <1>2 DEF Inv, QueuesHoldTheWaiters
      <4> QED
        BY <4>1, <4>2, <3>1, <2>1, <1>2, <1>5
    <3>2. CASE j # k
      BY <3>2, <2>2, <2>3, <1>4, <1>5 DEF Inv, QueuesHoldTheWaiters
    <3> QED  BY <3>1, <3>2
  <2>4. ASSUME NEW x \in At("waiting")'
        PROVE  \E m \in DOMAIN waiting'[KeyOf[x]] : waiting'[KeyOf[x]][m] = x
    <3>1. x # r /\ x \in At("waiting") /\ KeyOf[x] \in Key
      BY <2>4, <1>5, SchedulerAssumption DEF At
    <3>2. PICK m \in DOMAIN waiting[KeyOf[x]] : waiting[KeyOf[x]][m] = x
      BY <3>1 DEF Inv, QueuesHoldTheWaiters
    <3>3. CASE KeyOf[x] = k
      <4>1. m \in 1..Len(q) /\ m # 1 /\ q[m] = x
        BY <1>0, <3>1, <3>2, <3>3, <1>2
      <4>2. m - 1 \in DOMAIN Tail(q) /\ Tail(q)[m - 1] = x
        BY <4>1, <1>2
      <4> QED
        BY <4>2, <3>3, <1>4
    <3>4. CASE KeyOf[x] # k
      <4>1. waiting'[KeyOf[x]] = waiting[KeyOf[x]]
        BY <3>1, <3>4, <1>4
      <4> QED
        BY <4>1, <3>2
    <3> QED  BY <3>3, <3>4
  <2> QED
    BY <2>3, <2>4 DEF QueuesHoldTheWaiters
<1> DEFINE s == Rotated(turns, i)
<1>13. /\ s \in Seq(Key) /\ DOMAIN s = DOMAIN turns /\ Len(s) = Len(turns)
       /\ s[Len(turns)] = k
       /\ \A j \in DOMAIN turns : \E m \in DOMAIN turns : s[j] = turns[m]
       /\ \A m \in DOMAIN turns : \E j \in DOMAIN turns : s[j] = turns[m]
       /\ NoRepeats(turns) => NoRepeats(s)
  <2>1. turns \in Seq(Key)
    BY <1>1
  <2> QED
    BY <2>1, RotatedLemma
<1>14. turns' = IF Len(q) = 1 THEN SubSeq(s, 1, Len(turns) - 1) ELSE s
  BY <1>8 DEF TurnsAfter
<1> HIDE DEF s
<1>15. /\ turns' \in Seq(Key) /\ NoRepeats(turns')
       /\ \A j \in Key : InTurns(j)' <=> (InTurns(j) /\ (j = k => Len(q) # 1))
  <2>1. CASE Len(q) = 1
    <3> DEFINE n == Len(turns) - 1
    <3>1. turns' = SubSeq(s, 1, n)
      BY <2>1, <1>14
    <3>2. n \in Nat /\ Len(s) = n + 1 /\ s[n + 1] = k
      BY <1>1, <1>13
    <3> HIDE DEF n
    <3>3. /\ turns' \in Seq(Key) /\ NoRepeats(turns')
          /\ \A j \in DOMAIN turns' : turns'[j] # k /\ \E m \in DOMAIN s : turns'[j] = s[m]
          /\ \A m \in DOMAIN s : s[m] # k => \E j \in DOMAIN turns' : turns'[j] = s[m]
      <4>1. s \in Seq(Key) /\ NoRepeats(s)
        BY <1>1, <1>13
      <4>2. /\ SubSeq(s, 1, n) \in Seq(Key) /\ NoRepeats(SubSeq(s, 1, n))
            /\ \A j \in DOMAIN SubSeq(s, 1, n) :
                  /\ SubSeq(s, 1, n)[j] # s[n + 1]
                  /\ \E i_1 \in DOMAIN s : SubSeq(s, 1, n)[j] = s[i_1]
            /\ \A i_1 \in DOMAIN s : s[i_1] # s[n + 1] =>
                  \E j \in DOMAIN SubSeq(s, 1, n) : SubSeq(s, 1, n)[j] = s[i_1]
        BY <3>2, <4>1, DropLastLemma
      <4> QED
        BY <4>2, <3>1, <3>2
    <3>4. ASSUME NEW j \in Key
          PROVE  InTurns(j)' <=> (InTurns(j) /\ j # k)
      <4>1. ASSUME InTurns(j)'
            PROVE  InTurns(j) /\ j # k
        <5>1. PICK a \in DOMAIN turns' : turns'[a] = j
          BY <4>1 DEF InTurns
        <5>2. PICK b \in DOMAIN s : s[b] = j
          BY <5>1, <3>3
        <5> QED
          BY <5>1, <5>2, <3>3, <1>13 DEF InTurns
      <4>2. ASSUME InTurns(j), j # k
            PROVE  InTurns(j)'
        <5>1. PICK a \in DOMAIN turns : turns[a] = j
          BY <4>2 DEF InTurns
        <5>2. PICK b \in DOMAIN s : s[b] = j
          BY <5>1, <1>13
        <5> QED
          BY <4>2, <5>2, <3>3 DEF InTurns
      <4> QED  BY <4>1, <4>2
    <3> QED
      BY <3>3, <3>4, <2>1
  <2>2. CASE Len(q) # 1
    <3>1. turns' = s
      BY <2>2, <1>14
    <3>2. ASSUME NEW j \in Key
          PROVE  InTurns(j)' <=> InTurns(j)
      BY <3>1, <1>13 DEF InTurns
    <3> QED
      BY <3>1, <3>2, <2>2, <1>1, <1>13
  <2> QED  BY <2>1, <2>2
<1>16. TurnsAreTheWaitingKeys'
  <2>1. Tail(q) # <<>> <=> Len(q) # 1
    <3> HIDE DEF q
    <3>1. Len(Tail(q)) = Len(q) - 1
      BY <1>1, HeadTailProperties
    <3>2. Tail(q) = <<>> <=> Len(Tail(q)) = 0
      BY <1>2, EmptySeq
    <3> QED
      BY <3>1, <3>2, <1>2
  <2>2. ASSUME NEW j \in Key
        PROVE  InTurns(j)' <=> waiting'[j] # <<>>
    <3>1. InTurns(j) <=> waiting[j] # <<>>
      BY DEF Inv, TurnsAreTheWaitingKeys
    <3>2. CASE j = k
      BY <3>1, <3>2, <2>1, <1>1, <1>4, <1>15
    <3>3. CASE j # k
      BY <3>1, <3>3, <1>4, <1>15
    <3> QED  BY <3>2, <3>3
  <2> QED
    BY <2>2, <1>15 DEF TurnsAreTheWaitingKeys, NoRepeats
<1>17. TypeOK'
  <2>1. pc' \in [Request -> Place] /\ waiting' \in [Key -> Seq(Request)]
    BY <1>4, <1>5
  <2>2. active' \in Nat /\ activeByKey' \in [Key -> Nat]
    BY <1>6 DEF Inv, TypeOK
  <2>3. asked' \in [Request -> Nat] /\ dispatching' \in BOOLEAN
    BY <1>6 DEF Inv, TypeOK
  <2> QED
    BY <2>1, <2>2, <2>3, <1>15 DEF TypeOK
<1> QED
  BY <1>9, <1>10, <1>11, <1>12, <1>16, <1>17 DEF Inv

\* The end of _dispatch, and a step of something else, disturb nothing.
LEMMA DispatchingOnly ==
  ASSUME Inv, dispatching' \in BOOLEAN,
         UNCHANGED <<pc, asked, waiting, turns, active, activeByKey>>
  PROVE  Inv'
<1>1. TypeOK'
  BY DEF Inv, TypeOK
<1>2. SlotsConserved'
  BY DEF Inv, SlotsConserved, Owners, OwnersOf, At
<1>3. CountersBounded' /\ AskedIsALimit'
  BY DEF Inv, CountersBounded, AskedIsALimit, At
<1>4. QueuesHoldTheWaiters'
  BY DEF Inv, QueuesHoldTheWaiters, At
<1>5. TurnsAreTheWaitingKeys'
  BY DEF Inv, TurnsAreTheWaitingKeys, InTurns
<1> QED
  BY <1>1, <1>2, <1>3, <1>4, <1>5 DEF Inv

\* Every step of the queue keeps the invariant.
LEMMA NextInv == Inv /\ [Next]_vars => Inv'
<1> SUFFICES ASSUME Inv, [Next]_vars PROVE Inv'
  OBVIOUS
<1>1. CASE DispatchGrant
  BY <1>1, GrantInv DEF DispatchGrant
<1>2. CASE DispatchEnd
  BY <1>2, DispatchingOnly DEF DispatchEnd
<1>3. ASSUME NEW r \in Request, RequestStep(r)
      PROVE  Inv'
  <2>1. CASE Acquire(r)
    BY <2>1, AcquireInv
  <2>2. CASE RefuseFull(r)
    BY <2>2, PlaceOnly DEF RefuseFull, Place
  <2>3. CASE Resume(r)
    BY <2>3, PlaceOnly DEF Resume, Place
  <2>4. CASE TimeoutWaiting(r)
    BY <2>4, ForgetInv DEF TimeoutWaiting
  <2>5. CASE TimeoutGranted(r)
    BY <2>5, PlaceOnly DEF TimeoutGranted, Place
  <2>6. CASE CancelWaiting(r)
    BY <2>6, ForgetInv DEF CancelWaiting
  <2>7. CASE CancelGranted(r)
    BY <2>7, GiveBackInv DEF CancelGranted
  <2>8. CASE Release(r)
    BY <2>8, GiveBackInv DEF Release
  <2>9. CASE ReleaseAgain(r)
    BY <2>9, PlaceOnly DEF ReleaseAgain, Place
  <2>10. CASE Answered(r)
    BY <2>10, PlaceOnly DEF Answered, Place
  <2> QED
    BY <1>3, <2>1, <2>2, <2>3, <2>4, <2>5, <2>6, <2>7, <2>8, <2>9, <2>10 DEF RequestStep
<1>4. CASE UNCHANGED vars
  BY <1>4, DispatchingOnly DEF vars, Inv, TypeOK
<1> QED
  BY <1>1, <1>2, <1>3, <1>4 DEF Next, Dispatch

-----------------------------------------------------------------------------
(* The theorems. *)

\* In every reachable state of the queue the whole invariant holds.
LEMMA AlwaysInv == Spec => []Inv
  BY InitInv, NextInv, PTL DEF Spec

\* Every variable keeps its type.
THEOREM TypeCorrect == Spec => []TypeOK
<1>1. Inv => TypeOK
  BY DEF Inv
<1> QED
  BY <1>1, AlwaysInv, PTL

\* However grants, timeouts, cancellations and releases interleave, the counters
\* of scheduler.py equal the number of tasks that own a slot: no slot leaks and
\* none is given back twice.
THEOREM SlotsAreConserved == Spec => []SlotsConserved
<1>1. Inv => SlotsConserved
  BY DEF Inv
<1> QED
  BY <1>1, AlwaysInv, PTL

\* Neither the backend's max_concurrent nor a key's limit is ever exceeded.
THEOREM CapacityIsKept == Spec => []CapacityKept
<1>1. Inv => CapacityKept
  BY DEF Inv, SlotsConserved, CountersBounded, CapacityKept
<1> QED
  BY <1>1, AlwaysInv, PTL

\* The queues hold exactly the waiting requests, once each, under their own key.
THEOREM NobodyIsLost == Spec => []QueuesHoldTheWaiters
<1>1. Inv => QueuesHoldTheWaiters
  BY DEF Inv
<1> QED
  BY <1>1, AlwaysInv, PTL

\* Every key with a waiter has exactly one turn per round, and no other key has one.
THEOREM EveryWaitingKeyHasATurn == Spec => []TurnsAreTheWaitingKeys
<1>1. Inv => TurnsAreTheWaitingKeys
  BY DEF Inv
<1> QED
  BY <1>1, AlwaysInv, PTL

-----------------------------------------------------------------------------
(* No needless wait. *)

\* No admin edits a key's limit while requests are in the gateway.
LimitsStay == \A k \in Key : \A l, m \in LimitsOf[k] : l = m

\* The waiters of a key are behind its head, which _dispatch has looked at.
LEMMA WaiterHasHead ==
  ASSUME Inv, NEW r \in At("waiting")
  PROVE  LET k == KeyOf[r]
             h == Head(waiting[k])
         IN  /\ k \in Key /\ waiting[k] # <<>>
             /\ \E i \in DOMAIN turns : turns[i] = k
             /\ h \in At("waiting") /\ KeyOf[h] = k
<1> DEFINE k == KeyOf[r]
<1>1. r \in Request /\ k \in Key /\ waiting[k] \in Seq(Request)
  BY SchedulerAssumption DEF At, Inv, TypeOK
<1>2. PICK i \in DOMAIN waiting[k] : waiting[k][i] = r
  BY DEF Inv, QueuesHoldTheWaiters
<1>3. PICK q \in Seq(Request) : q = waiting[k]
  BY <1>1
<1>4. q # <<>> /\ 1 \in DOMAIN q /\ Head(q) = q[1]
  BY <1>2, <1>3, HeadTailProperties, EmptySeq
<1>5. Head(q) \in At("waiting") /\ KeyOf[Head(q)] = k
  BY <1>1, <1>3, <1>4 DEF Inv, QueuesHoldTheWaiters, At
<1>6. InTurns(k)
  BY <1>1, <1>3, <1>4 DEF Inv, TurnsAreTheWaitingKeys
<1> QED
  BY <1>1, <1>3, <1>4, <1>5, <1>6 DEF InTurns

\* While _dispatch is still running nothing is claimed; when it ends nobody with
\* an eligible head is left beside a free slot; afterwards nothing frees a slot or
\* adds a waiter without running _dispatch again.
LEMMA NoNeedlessWaitStep ==
  ASSUME LimitsStay, Inv, NoNeedlessWait, [Next]_vars
  PROVE  NoNeedlessWait'
<1>1. CASE dispatching'
  BY <1>1 DEF NoNeedlessWait
<1>2. CASE DispatchEnd
  <2>1. SUFFICES ASSUME active < MaxConcurrent, NEW r \in At("waiting")
                 PROVE  ~Eligible(r)
    BY <1>2 DEF DispatchEnd, NoNeedlessWait, At, Eligible
  <2> DEFINE k == KeyOf[r]
  <2> DEFINE h == Head(waiting[k])
  <2>2. /\ k \in Key /\ waiting[k] # <<>>
        /\ \E i \in DOMAIN turns : turns[i] = k
        /\ h \in At("waiting") /\ KeyOf[h] = k
    BY WaiterHasHead
  <2>3. ~Eligible(h)
    BY <1>2, <2>1, <2>2 DEF DispatchEnd, CanGrant, HeadEligible
  <2>4. asked[h] \in LimitsOf[k] /\ asked[r] \in LimitsOf[k]
    BY <2>2 DEF Inv, AskedIsALimit
  <2>5. asked[h] = asked[r]
    BY <2>2, <2>4 DEF LimitsStay
  <2> QED
    BY <2>2, <2>3, <2>5 DEF Eligible
<1>3. ASSUME ~dispatching, ~dispatching', At("waiting")' \subseteq At("waiting"),
             UNCHANGED <<asked, active, activeByKey>>
      PROVE  NoNeedlessWait'
  BY <1>3 DEF NoNeedlessWait, Eligible
<1>4. ASSUME NEW r \in Request, RequestStep(r), ~dispatching'
      PROVE  NoNeedlessWait'
  <2>1. ~dispatching /\ UNCHANGED <<asked, active, activeByKey>>
    BY <1>4 DEF RequestStep, Acquire, RefuseFull, Resume, TimeoutWaiting, TimeoutGranted,
       CancelWaiting, CancelGranted, Release, ReleaseAgain, Answered, Forget, GiveBack
  <2>2. \E place \in {"busy", "idle", "holding"} : pc' = [pc EXCEPT ![r] = place]
    BY <1>4 DEF RequestStep, Acquire, RefuseFull, Resume, TimeoutWaiting, TimeoutGranted,
       CancelWaiting, CancelGranted, Release, ReleaseAgain, Answered, Forget, GiveBack
  <2>3. At("waiting")' \subseteq At("waiting")
    BY <2>2 DEF At, Inv, TypeOK
  <2> QED
    BY <1>4, <2>1, <2>3, <1>3
<1>5. CASE DispatchGrant
  BY <1>5 DEF DispatchGrant, GrantTurn, NoNeedlessWait
<1>6. CASE UNCHANGED vars
  BY <1>6 DEF vars, NoNeedlessWait, At, Eligible
<1> QED
  BY <1>1, <1>2, <1>4, <1>5, <1>6 DEF Next, Dispatch

\* Whatever happens in the gateway, a request that waits beside a free slot is at
\* its key's own limit, provided the limit is not edited meanwhile.
THEOREM NobodyWaitsNeedlessly ==
  ASSUME LimitsStay
  PROVE  Spec => []NoNeedlessWait
<1>1. Init => NoNeedlessWait
  BY DEF Init, NoNeedlessWait, At
<1>2. Inv /\ NoNeedlessWait /\ [Next]_vars => NoNeedlessWait'
  BY NoNeedlessWaitStep
<1> QED
  BY <1>1, <1>2, AlwaysInv, PTL DEF Spec

-----------------------------------------------------------------------------
(* Round-robin. *)

\* The elements of s in front of x.
InFront(s, x) == {s[i] : i \in {j \in DOMAIN s : \A m \in 1..j : s[m] # x}}

\* In a sequence without repetitions they are those at the smaller places.
LEMMA InFrontIs ==
  ASSUME NEW S, NEW s \in Seq(S), NoRepeats(s), NEW p \in DOMAIN s
  PROVE  InFront(s, s[p]) = {s[i] : i \in 1..(p - 1)}
<1>1. DOMAIN s = 1..Len(s) /\ Len(s) \in Nat /\ p \in 1..Len(s)
  OBVIOUS
<1>2. ASSUME NEW j \in DOMAIN s
      PROVE  (\A m \in 1..j : s[m] # s[p]) <=> j \in 1..(p - 1)
  <2>1. CASE j < p
    <3>1. \A m \in 1..j : m \in DOMAIN s /\ m # p
      BY <1>1, <2>1
    <3> QED
      BY <3>1, <2>1, <1>1 DEF NoRepeats
  <2>2. CASE p <= j
    BY <1>1, <2>2
  <2> QED
    BY <2>1, <2>2, <1>1
<1>3. {j \in DOMAIN s : \A m \in 1..j : s[m] # s[p]} = 1..(p - 1)
  BY <1>1, <1>2
<1> QED
  BY <1>3 DEF InFront

\* If every place before x's new one held, before, something in front of x, then
\* nothing new got in front of x.
LEMMA StaysBehind ==
  ASSUME NEW S, NEW s \in Seq(S), NoRepeats(s), NEW t \in Seq(S), NoRepeats(t),
         NEW p \in DOMAIN s, NEW n \in DOMAIN t, s[p] = t[n],
         \A j \in 1..(n - 1) : \E i \in 1..(p - 1) : t[j] = s[i]
  PROVE  InFront(t, s[p]) \subseteq InFront(s, s[p])
<1>1. InFront(s, s[p]) = {s[i] : i \in 1..(p - 1)}
  BY InFrontIs
<1>2. InFront(t, t[n]) = {t[i] : i \in 1..(n - 1)}
  BY InFrontIs
<1> QED
  BY <1>1, <1>2

\* deque.remove of another element lets nothing get in front of s[p].
LEMMA WithoutKeepsOrder ==
  ASSUME NEW S, NEW s \in Seq(S), NoRepeats(s), NEW p \in DOMAIN s, NEW t \in DOMAIN s,
         s[p] # s[t]
  PROVE  InFront(Without(s, s[t]), s[p]) \subseteq InFront(s, s[p])
<1> DEFINE w == Without(s, s[t])
<1>1. PositionIn(s, s[t]) = t
  BY DEF PositionIn, NoRepeats
<1>2. w = [j \in 1..(Len(s) - 1) |-> IF j < t THEN s[j] ELSE s[j + 1]]
  BY <1>1 DEF Without
<1>3. Len(s) \in Nat /\ DOMAIN s = 1..Len(s) /\ p \in 1..Len(s) /\ t \in 1..Len(s) /\ p # t
  OBVIOUS
<1>4. w \in Seq(S) /\ NoRepeats(w) /\ DOMAIN w = 1..(Len(s) - 1)
  BY WithoutLemma
<1> DEFINE n == IF p < t THEN p ELSE p - 1
<1>5. n \in DOMAIN w /\ w[n] = s[p]
  BY <1>2, <1>3, <1>4
<1>6. ASSUME NEW j \in 1..(n - 1)
      PROVE  \E i \in 1..(p - 1) : w[j] = s[i]
  <2>1. j \in 1..(Len(s) - 1) /\ j \in 1..(p - 1) /\ (j >= t => j + 1 \in 1..(p - 1))
    BY <1>3
  <2>2. w[j] = IF j < t THEN s[j] ELSE s[j + 1]
    BY <2>1, <1>2
  <2> QED
    BY <2>1, <2>2, <1>3
<1> HIDE DEF w, n
<1>7. InFront(w, s[p]) \subseteq InFront(s, s[p])
  BY <1>4, <1>5, <1>6, StaysBehind
<1> QED
  BY <1>7 DEF w

\* What one step may do to the place of k in turns.
FairTo(k) ==
  /\ InFront(turns', k) \subseteq InFront(turns, k)
  /\ \A r \in Request : Granted(r) =>
        KeyOf[r] \in InFront(turns, k) /\ KeyOf[r] \notin InFront(turns', k)

\* A new waiter's key comes behind everyone in turns.
LEMMA AcquireFair ==
  ASSUME Inv, NEW r \in Request, Acquire(r), NEW k \in Key, InTurns(k)
  PROVE  InFront(turns', k) \subseteq InFront(turns, k)
<1>1. turns \in Seq(Key) /\ NoRepeats(turns) /\ KeyOf[r] \in Key
  BY SchedulerAssumption DEF Inv, TypeOK, TurnsAreTheWaitingKeys, NoRepeats
<1>2. PICK p \in DOMAIN turns : turns[p] = k
  BY DEF InTurns
<1>3. CASE turns' = turns
  BY <1>3
<1>4. CASE turns' = Append(turns, KeyOf[r])
  <2>1. turns' \in Seq(Key) /\ NoRepeats(turns')
    <3>1. Inv'
      BY AcquireInv
    <3> QED
      BY <3>1 DEF Inv, TypeOK, TurnsAreTheWaitingKeys, NoRepeats
  <2>2. p \in DOMAIN turns' /\ \A j \in 1..p : turns'[j] = turns[j]
    BY <1>1, <1>4
  <2>3. p \in Nat
    BY <1>1
  <2>4. \A j \in 1..(p - 1) : \E i \in 1..(p - 1) : turns'[j] = turns[i]
    BY <2>2, <2>3
  <2>5. turns'[p] = turns[p]
    BY <2>2, <2>3, <1>1
  <2> QED
    BY <1>1, <1>2, <2>1, <2>2, <2>4, <2>5, StaysBehind
<1> QED
  BY <1>3, <1>4 DEF Acquire

\* A key that loses its last waiter leaves turns; the others keep their order.
LEMMA ForgetFair ==
  ASSUME Inv, NEW r \in At("waiting"), Forget(r), NEW k \in Key, InTurns(k), InTurns(k)'
  PROVE  InFront(turns', k) \subseteq InFront(turns, k)
<1>1. turns \in Seq(Key) /\ NoRepeats(turns) /\ KeyOf[r] \in Key
  BY SchedulerAssumption DEF At, Inv, TypeOK, TurnsAreTheWaitingKeys, NoRepeats
<1>2. PICK p \in DOMAIN turns : turns[p] = k
  BY DEF InTurns
<1>3. CASE turns' = turns
  BY <1>3
<1>4. CASE turns' = Without(turns, KeyOf[r])
  <2>1. PICK t \in DOMAIN turns : turns[t] = KeyOf[r]
    BY WaiterHasHead
  <2>2. \A j \in DOMAIN turns' : turns'[j] # KeyOf[r]
    BY <1>1, <1>4, <2>1, WithoutLemma
  <2>3. turns[p] # turns[t]
    BY <1>2, <2>1, <2>2 DEF InTurns
  <2> QED
    BY <1>1, <1>2, <1>4, <2>1, <2>3, WithoutKeepsOrder
<1> QED
  BY <1>3, <1>4 DEF Forget

\* A key that is served was in front of k, whose head may run too, and goes behind
\* it; the others keep their order.
LEMMA GrantFair ==
  ASSUME Inv, active < MaxConcurrent, NEW i \in DOMAIN turns, GrantTurn(i),
         NEW k \in Key, InTurns(k), InTurns(k)', HeadEligible(k), turns[i] # k
  PROVE  /\ InFront(turns', k) \subseteq InFront(turns, k)
         /\ turns[i] \in InFront(turns, k) /\ turns[i] \notin InFront(turns', k)
<1> DEFINE L == Len(turns)
<1>1. turns \in Seq(Key) /\ NoRepeats(turns) /\ DOMAIN turns = 1..L /\ L \in Nat /\ i \in 1..L
  BY DEF Inv, TypeOK, TurnsAreTheWaitingKeys, NoRepeats
<1>2. turns' \in Seq(Key) /\ NoRepeats(turns')
  <2>1. Inv'
    BY GrantInv
  <2> QED
    BY <2>1 DEF Inv, TypeOK, TurnsAreTheWaitingKeys, NoRepeats
<1>3. PICK p \in DOMAIN turns : turns[p] = k
  BY DEF InTurns
<1>4. p \in 1..L /\ i < p
  <2>1. \A j \in 1..(i - 1) : turns[j] # k
    BY DEF GrantTurn
  <2> QED
    BY <2>1, <1>1, <1>3
<1>5. /\ DOMAIN turns' = 1..L \/ DOMAIN turns' = 1..(L - 1)
      /\ \A j \in DOMAIN turns' :
            turns'[j] = IF j + i <= L THEN turns[j + i] ELSE turns[j + i - L]
  <2> DEFINE s == Rotated(turns, i)
  <2>1. s \in Seq(Key) /\ DOMAIN s = 1..L /\ Len(s) = L
    BY <1>1, RotatedLemma
  <2>2. \A j \in 1..L : s[j] = IF j + i <= L THEN turns[j + i] ELSE turns[j + i - L]
    BY DEF Rotated
  <2> HIDE DEF s
  <2>3. CASE turns' = s
    BY <2>1, <2>2, <2>3
  <2>4. CASE turns' = SubSeq(s, 1, L - 1)
    <3>1. DOMAIN turns' = 1..(L - 1) /\ \A j \in 1..(L - 1) : turns'[j] = s[j]
      BY <2>1, <2>4, <1>1
    <3>2. \A j \in 1..(L - 1) : j \in 1..L
      BY <1>1
    <3> HIDE DEF L
    <3> QED
      BY <3>1, <3>2, <2>2
  <2> QED
    BY <2>3, <2>4 DEF s, GrantTurn, TurnsAfter
<1>6. p - i \in DOMAIN turns' /\ turns'[p - i] = k
  BY <1>1, <1>3, <1>4, <1>5
<1>7. \A j \in 1..(p - i - 1) : turns'[j] = turns[j + i] /\ j + i \in 1..(p - 1)
  BY <1>1, <1>4, <1>5
<1> HIDE DEF L
<1>8. InFront(turns', k) \subseteq InFront(turns, k)
  <2>1. \A j \in 1..(p - i - 1) : \E m \in 1..(p - 1) : turns'[j] = turns[m]
    BY <1>7
  <2> QED
    BY <1>1, <1>2, <1>3, <1>6, <2>1, StaysBehind
<1>9. InFront(turns, k) = {turns[m] : m \in 1..(p - 1)}
  BY <1>1, <1>3, InFrontIs
<1>10. InFront(turns', k) = {turns'[m] : m \in 1..(p - i - 1)}
  BY <1>2, <1>6, InFrontIs
<1>11. turns[i] \in InFront(turns, k)
  BY <1>1, <1>4, <1>9
<1>12. \A j \in 1..(p - i - 1) : turns'[j] # turns[i]
  <2> TAKE j \in 1..(p - i - 1)
  <2>1. j + i \in DOMAIN turns /\ j + i # i
    BY <1>1, <1>4
  <2> QED
    BY <2>1, <1>1, <1>7 DEF NoRepeats
<1> QED
  BY <1>8, <1>10, <1>11, <1>12

\* Every step is fair to a key that stays in turns, whose head may run and which
\* is not served.
LEMMA EveryStepIsFair ==
  ASSUME Inv, [Next]_vars, NEW k \in Key, InTurns(k), InTurns(k)', HeadEligible(k),
         \A r \in Request : KeyOf[r] = k => ~Granted(r)
  PROVE  FairTo(k)
<1>1. CASE DispatchGrant
  <2>1. PICK i \in DOMAIN turns : GrantTurn(i)
    BY <1>1 DEF DispatchGrant
  <2> DEFINE h == Head(waiting[turns[i]])
  <2>2. turns[i] \in Key /\ h \in Request /\ pc[h] = "waiting" /\ KeyOf[h] = turns[i]
    <3>1. PICK q \in Seq(Request) : q = waiting[turns[i]]
      BY DEF Inv, TypeOK
    <3>2. turns[i] \in Key /\ q # <<>>
      BY <2>1, <3>1 DEF GrantTurn, HeadEligible, Inv, TypeOK
    <3>3. 1 \in DOMAIN q /\ Head(q) = q[1]
      BY <3>2, HeadTailProperties, EmptySeq
    <3> QED
      BY <3>1, <3>2, <3>3 DEF Inv, QueuesHoldTheWaiters
  <2>3. pc' = [pc EXCEPT ![h] = "granted"]
    BY <2>1 DEF GrantTurn
  <2>4. Granted(h) /\ \A r \in Request : Granted(r) => r = h
    BY <2>2, <2>3 DEF Granted, Inv, TypeOK
  <2>5. turns[i] # k
    BY <2>2, <2>4
  <2>6. /\ InFront(turns', k) \subseteq InFront(turns, k)
        /\ turns[i] \in InFront(turns, k) /\ turns[i] \notin InFront(turns', k)
    BY <1>1, <2>1, <2>5, GrantFair DEF DispatchGrant
  <2> QED
    BY <2>2, <2>4, <2>6 DEF FairTo
<1>2. ASSUME InFront(turns', k) \subseteq InFront(turns, k), \A r \in Request : ~Granted(r)
      PROVE  FairTo(k)
  BY <1>2 DEF FairTo
<1>3. CASE DispatchEnd
  BY <1>2, <1>3 DEF DispatchEnd, Granted
<1>4. ASSUME NEW r \in Request, RequestStep(r)
      PROVE  FairTo(k)
  <2>1. \E place \in {"waiting", "busy", "idle", "holding", "spent"} :
          pc' = [pc EXCEPT ![r] = place]
    BY <1>4 DEF RequestStep, Acquire, RefuseFull, Resume, TimeoutWaiting, TimeoutGranted,
       CancelWaiting, CancelGranted, Release, ReleaseAgain, Answered
  <2>2. \A x \in Request : ~Granted(x)
    BY <2>1 DEF Granted, Inv, TypeOK
  <2>3. Acquire(r) \/ (r \in At("waiting") /\ Forget(r)) \/ turns' = turns
    BY <1>4 DEF RequestStep, RefuseFull, Resume, TimeoutWaiting, TimeoutGranted,
       CancelWaiting, CancelGranted, Release, ReleaseAgain, Answered, GiveBack, At
  <2>4. InFront(turns', k) \subseteq InFront(turns, k)
    BY <2>3, AcquireFair, ForgetFair
  <2> QED
    BY <1>2, <2>2, <2>4
<1>5. CASE UNCHANGED vars
  BY <1>2, <1>5 DEF vars, Granted
<1> QED
  BY <1>1, <1>3, <1>4, <1>5 DEF Next, Dispatch

\* Round-robin for any number of keys and requests: a key whose head may run is
\* overtaken by nobody, and each key served meanwhile goes behind it.
THEOREM NobodyIsOvertaken == Spec => NoOvertaking
<1>1. Inv /\ [Next]_vars =>
        [\A k \in Key :
           (/\ InTurns(k) /\ InTurns(k)' /\ HeadEligible(k)
            /\ \A r \in Request : KeyOf[r] = k => ~Granted(r))
           => /\ Ahead(k)' \subseteq Ahead(k)
              /\ \A r \in Request : Granted(r) =>
                    KeyOf[r] \in Ahead(k) /\ KeyOf[r] \notin Ahead(k)']_vars
  <2> SUFFICES ASSUME Inv, [Next]_vars, NEW k \in Key,
                      InTurns(k), InTurns(k)', HeadEligible(k),
                      \A r \in Request : KeyOf[r] = k => ~Granted(r)
               PROVE  /\ Ahead(k)' \subseteq Ahead(k)
                      /\ \A r \in Request : Granted(r) =>
                            KeyOf[r] \in Ahead(k) /\ KeyOf[r] \notin Ahead(k)'
    OBVIOUS
  <2>1. FairTo(k)
    BY EveryStepIsFair
  <2>2. Ahead(k) = InFront(turns, k) /\ Ahead(k)' = InFront(turns', k)
    BY DEF Ahead, InFront
  <2> QED
    BY <2>1, <2>2 DEF FairTo
<1> QED
  BY <1>1, AlwaysInv, PTL DEF Spec, NoOvertaking

-----------------------------------------------------------------------------
(* The queue implements the pool. *)

\* Every step of the queue is a step of SlotPool's or one it does not see.
LEMMA PoolStep ==
  ASSUME Inv, [Next]_vars
  PROVE  [Pool!PoolNext]_(Pool!poolVars)
<1> DEFINE Seen == <<At("waiting"), Owners>>
<1> USE DEF Inv, TypeOK
<1>1. CASE DispatchGrant
  <2>1. PICK i \in DOMAIN turns : GrantTurn(i)
    BY <1>1 DEF DispatchGrant
  <2> DEFINE k == turns[i]
  <2> DEFINE h == Head(waiting[k])
  <2>2. k \in Key /\ h \in Request /\ pc[h] = "waiting" /\ KeyOf[h] = k /\ Eligible(h)
    <3>1. PICK q \in Seq(Request) : q = waiting[k]
      OBVIOUS
    <3>2. k \in Key /\ q # <<>> /\ Eligible(h)
      BY <2>1, <3>1 DEF GrantTurn, HeadEligible
    <3>3. 1 \in DOMAIN q /\ Head(q) = q[1]
      BY <3>2, HeadTailProperties, EmptySeq
    <3> QED
      BY <3>1, <3>2, <3>3 DEF QueuesHoldTheWaiters
  <2>3. pc' = [pc EXCEPT ![h] = "granted"]
    BY <2>1 DEF GrantTurn
  <2> HIDE DEF h
  <2>4. h \in At("waiting") /\ At("waiting")' = At("waiting") \ {h} /\ Owners' = Owners \cup {h}
    BY <2>2, <2>3 DEF At, Owners
  <2>5. Cardinality(Owners) < MaxConcurrent
    BY <1>1 DEF DispatchGrant, SlotsConserved
  <2>6. /\ asked[h] \in LimitsOf[KeyOf[h]]
        /\ asked[h] = 0 \/ Cardinality(OwnersOf(KeyOf[h])) < asked[h]
    BY <2>2, <2>4 DEF AskedIsALimit, SlotsConserved, Eligible, NoLimit
  <2>7. /\ Pool!HeldByKey(KeyOf[h]) = OwnersOf(KeyOf[h])
        /\ \A S : Pool!Cardinality(S) = Cardinality(S)
    BY DEF Pool!HeldByKey, OwnersOf, Pool!Cardinality, Cardinality
  <2>8. Pool!Grant(h)
    BY <2>4, <2>5, <2>6, <2>7 DEF Pool!Grant
  <2> QED
    BY <2>2, <2>8 DEF Pool!PoolNext
<1>2. ASSUME UNCHANGED Seen
      PROVE  [Pool!PoolNext]_(Pool!poolVars)
  BY <1>2 DEF Pool!poolVars
<1>3. CASE DispatchEnd
  BY <1>2, <1>3 DEF DispatchEnd, At, Owners
<1>4. ASSUME NEW r \in Request, RequestStep(r)
      PROVE  [Pool!PoolNext]_(Pool!poolVars)
  <2>1. CASE Acquire(r)
    <3>1. r \notin At("waiting") \cup Owners /\ At("waiting")' = At("waiting") \cup {r}
          /\ Owners' = Owners
      BY <2>1 DEF Acquire, At, Owners
    <3> QED
      BY <3>1 DEF Pool!Join, Pool!PoolNext
  <2>2. CASE TimeoutWaiting(r) \/ CancelWaiting(r)
    <3>1. r \in At("waiting") /\ At("waiting")' = At("waiting") \ {r} /\ Owners' = Owners
      BY <2>2 DEF TimeoutWaiting, CancelWaiting, At, Owners
    <3> QED
      BY <3>1 DEF Pool!Leave, Pool!PoolNext
  <2>3. CASE CancelGranted(r) \/ Release(r)
    <3>1. r \in Owners /\ Owners' = Owners \ {r} /\ At("waiting")' = At("waiting")
      BY <2>3 DEF CancelGranted, Release, At, Owners
    <3> QED
      BY <3>1 DEF Pool!Return, Pool!PoolNext
  <2>4. CASE RefuseFull(r) \/ Resume(r) \/ TimeoutGranted(r) \/ ReleaseAgain(r) \/ Answered(r)
    <3>1. UNCHANGED Seen
      BY <2>4 DEF RefuseFull, Resume, TimeoutGranted, ReleaseAgain, Answered, At, Owners
    <3> QED
      BY <3>1, <1>2
  <2> QED
    BY <1>4, <2>1, <2>2, <2>3, <2>4 DEF RequestStep
<1>5. CASE UNCHANGED vars
  BY <1>2, <1>5 DEF vars, At, Owners
<1> QED
  BY <1>1, <1>3, <1>4, <1>5 DEF Next, Dispatch

\* The queue keeps SlotPool's safety promise: a slot goes to a request that wants
\* one, within the backend's and its key's limits, and comes back once.
THEOREM QueueImplementsPool == Spec => Pool!PoolSafety
<1>1. Init => Pool!PoolInit
  BY DEF Init, Pool!PoolInit, At, Owners
<1>2. Inv /\ [Next]_vars => [Pool!PoolNext]_(Pool!poolVars)
  BY PoolStep
<1> QED
  BY <1>1, <1>2, AlwaysInv, PTL DEF Spec, Pool!PoolSafety

-----------------------------------------------------------------------------
(* Routing: which members of the pool a request is tried on. What a request was *)
(* told is true, or the backend has been disturbed since it was asked; lists and *)
(* details are as old as their time stamps say; so that what a request has heard *)
(* of the members it has passed is true of those left alone for long enough.    *)

(* What is in the hands of a request. *)
AskRecords == [stage : {"idle", "routing", "routed", "calling", "ended"} \union Waiting, next : Nat \ {0},
               serving : SUBSET Backends, targets : Seq(Backends), ctx : Nat \union {Unknown},
               sent : Nat, answer : States \union {Unknown}]
RoutingTyped ==
    /\ clock \in Nat
    /\ backend \in [Backends -> States]
    /\ listed \in [Backends -> [present : BOOLEAN, at : Int]]
    /\ details \in [Backends -> [window : Windows \union {Unknown}, at : Int]]
    /\ ask \in [Askers -> AskRecords]
    /\ disturbed \in [Backends -> Nat]
    /\ \A b \in Backends : disturbed[b] <= clock /\ listed[b].at <= clock /\ details[b].at <= clock

(* The rest of what is known of a request v at time t, when the backends are bk *)
(* and were disturbed at d: what it was told is true, or its backend has been  *)
(* disturbed since it asked; and so is what it has heard of the members it has  *)
(* been at, if they have been left alone for as long as it may have taken.     *)
AskedBy(v) == IF v.stage = "listing" THEN Members[v.next] ELSE v.targets[1]
Span(v, t) == DISCOVERY_SECONDS + (v.next - 1) * ReplyTime + (IF v.stage = "listing" THEN t - v.sent ELSE 0)
Told(v, bk, d) ==
    v.answer = Unknown \/ v.answer = bk[AskedBy(v)] \/ d[AskedBy(v)] >= v.sent
Heard(v, t, bk, d) ==
    \A i \in 1..(v.next - 1) :
        t - d[Members[i]] > Span(v, t) => (Members[i] \in v.serving <=> bk[Members[i]].present)
Placed(v) ==
    /\ v.stage = "listing" => v.next \in DOMAIN Members
    /\ v.stage = "routing" => v.next \in 1..(Len(Members) + 1)
    /\ v.stage \in {"routed", "looking", "calling"} => v.targets # <<>>
    /\ v.stage = "calling" /\ v.targets[1] \in TakesOptions => v.ctx # Unknown
    /\ v.stage = "idle" => v.serving = {}
    /\ v.stage \in {"routing", "listing"} => \A b \in v.serving : \E i \in 1..(v.next - 1) : Members[i] = b
    /\ v.stage \notin Waiting => v.answer = Unknown
Sane(v, t, bk, d) ==
    /\ Placed(v)
    /\ v.stage \in Waiting => v.sent <= t /\ t <= v.sent + ReplyTime /\ Told(v, bk, d)
    /\ v.stage \in {"routing", "listing"} /\ Len(Members) > 1 => Heard(v, t, bk, d)

(* A list and the details of a model are true, unless the backend was disturbed *)
(* since they were asked for.                                               *)
ListsTrue == \A b \in Backends : listed[b].at - ReplyTime > disturbed[b] => listed[b].present = backend[b].present
DetailsTrue == \A b \in Backends : details[b].at > disturbed[b] => details[b].window = Window(backend[b])
RoutingInv ==
    /\ RoutingTyped /\ ListsTrue /\ DetailsTrue
    /\ \A r \in Askers : Sane(ask[r], clock, backend, disturbed)

-----------------------------------------------------------------------------
LEMMA MembersAre ==
    /\ Len(Members) \in Nat \ {0} /\ DOMAIN Members = 1..Len(Members)
    /\ \A i \in DOMAIN Members : Members[i] \in Backends
    /\ \A b \in Backends : \E i \in DOMAIN Members : Members[i] = b
    /\ IsFiniteSet(Backends) /\ Primary \in Backends
<1>1. Members \in Seq(Backends) /\ Members # <<>> BY RoutingAssumption DEF Backends
<1>2. Len(Members) \in Nat \ {0} /\ DOMAIN Members = 1..Len(Members) BY <1>1, EmptySeq, LenProperties
<1>3. Backends = {Members[i] : i \in DOMAIN Members} BY DEF Backends, ToSet
<1>4. \A i \in DOMAIN Members : Members[i] \in Backends BY <1>3
<1>5. IsFiniteSet(Backends)
  <2>1. IsFiniteSet(DOMAIN Members) BY <1>2, FS_Interval
  <2>2. Members \in Surjection(DOMAIN Members, Backends)
    <3>1. Members \in [DOMAIN Members -> Backends] BY <1>1, <1>2
    <3> QED BY <1>3, <3>1 DEF Surjection
  <2> QED BY <2>1, <2>2, FS_Surjection
<1> QED BY <1>2, <1>3, <1>4, <1>5 DEF Primary

LEMMA Numbers ==
    /\ DISCOVERY_SECONDS \in Nat /\ CACHE_SECONDS \in Nat /\ ReplyTime \in Nat /\ DefaultCtx \in Nat
    /\ Unknown \notin Nat /\ LongAgo \in Int /\ LongAgo < 0 /\ Windows \subseteq Nat
    /\ \A n \in Nat : n * ReplyTime \in Nat /\ (n + 1) * ReplyTime = n * ReplyTime + ReplyTime
    /\ \A n \in Nat \ {0} : n * ReplyTime >= ReplyTime
<1>1. /\ DISCOVERY_SECONDS \in Nat /\ CACHE_SECONDS \in Nat /\ ReplyTime \in Nat /\ DefaultCtx \in Nat
      /\ Unknown \notin Nat /\ Windows \subseteq Nat
  BY RoutingAssumption
<1>2. \A n, m \in Nat : n * m \in Nat /\ (n + 1) * m = n * m + m OBVIOUS
<1>3. \A n \in Nat \ {0} : n - 1 \in Nat /\ n = (n - 1) + 1 OBVIOUS
<1>4. \A n \in Nat \ {0} : n * ReplyTime >= ReplyTime
  <2> TAKE n \in Nat \ {0}
  <2>1. n * ReplyTime = (n - 1) * ReplyTime + ReplyTime /\ (n - 1) * ReplyTime \in Nat BY <1>1, <1>2, <1>3
  <2> QED BY <1>1, <2>1
<1> QED BY <1>1, <1>2, <1>4 DEF LongAgo

LEMMA SpanIs ==
    ASSUME NEW v \in AskRecords, NEW t \in Nat, v.stage \in Waiting => v.sent <= t
    PROVE  Span(v, t) \in Nat
<1>1. v.next - 1 \in Nat /\ v.sent \in Nat BY DEF AskRecords
<1>2. (v.next - 1) * ReplyTime \in Nat /\ DISCOVERY_SECONDS \in Nat BY <1>1, Numbers
<1>3. (IF v.stage = "listing" THEN t - v.sent ELSE 0) \in Nat BY <1>1 DEF Waiting
<1> QED BY <1>2, <1>3 DEF Span

LEMMA AskedByIs ==
    ASSUME NEW v \in AskRecords, Placed(v), v.stage \in Waiting
    PROVE  AskedBy(v) \in Backends
<1>1. CASE v.stage = "listing" BY <1>1, MembersAre DEF Placed, AskedBy
<1>2. CASE v.stage = "looking"
  <2>1. v.targets \in Seq(Backends) /\ v.targets # <<>> BY <1>2 DEF Placed, AskRecords
  <2> QED BY <1>2, <2>1 DEF AskedBy
<1> QED BY <1>1, <1>2 DEF Waiting

(* Whatever is disturbed now does not count any more. *)
LEMMA StaysSane ==
    ASSUME NEW v \in AskRecords, NEW t \in Nat, NEW bk, NEW d, Sane(v, t, bk, d), NEW bk2, NEW d2 \in [Backends -> Nat],
           \A b \in Backends : (d2[b] = d[b] /\ bk2[b] = bk[b]) \/ d2[b] = t
    PROVE  Sane(v, t, bk2, d2)
<1>1. Placed(v) BY DEF Sane
<1>2. ASSUME v.stage \in Waiting PROVE v.sent <= t /\ t <= v.sent + ReplyTime /\ Told(v, bk2, d2)
  <2>1. v.sent <= t /\ t <= v.sent + ReplyTime /\ Told(v, bk, d) BY <1>2 DEF Sane
  <2>2. AskedBy(v) \in Backends BY <1>1, <1>2, AskedByIs
  <2> QED BY <2>1, <2>2 DEF Told
<1>3. ASSUME v.stage \in {"routing", "listing"}, Len(Members) > 1, NEW i \in 1..(v.next - 1),
             t - d2[Members[i]] > Span(v, t)
      PROVE  Members[i] \in v.serving <=> bk2[Members[i]].present
  <2>1. Heard(v, t, bk, d) BY <1>3 DEF Sane
  <2>2. i \in DOMAIN Members BY <1>1, <1>3, MembersAre DEF Placed, AskRecords
  <2>3. Members[i] \in Backends BY <2>2, MembersAre
  <2>4. Span(v, t) \in Nat BY <1>2, SpanIs
  <2>5. d2[Members[i]] # t BY <1>3, <2>3, <2>4
  <2> QED BY <1>3, <2>1, <2>3, <2>5 DEF Heard
<1> QED BY <1>1, <1>2, <1>3 DEF Sane, Heard

LEMMA TimeKeepsSane ==
    ASSUME NEW v \in AskRecords, NEW t \in Nat, NEW bk, NEW d \in [Backends -> Nat], Sane(v, t, bk, d),
           ~(v.stage \in Waiting /\ t - v.sent >= ReplyTime), v.stage # "routing"
    PROVE  Sane(v, t + 1, bk, d)
<1>1. Placed(v) /\ v.sent \in Nat /\ ReplyTime \in Nat BY Numbers DEF Sane, AskRecords
<1>2. ASSUME v.stage \in Waiting PROVE v.sent <= t + 1 /\ t + 1 <= v.sent + ReplyTime /\ Told(v, bk, d)
  BY <1>1, <1>2 DEF Sane
<1>3. ASSUME v.stage \in {"routing", "listing"}, Len(Members) > 1, NEW i \in 1..(v.next - 1),
             (t + 1) - d[Members[i]] > Span(v, t + 1)
      PROVE  Members[i] \in v.serving <=> bk[Members[i]].present
  <2>1. Heard(v, t, bk, d) /\ v.stage = "listing" BY <1>3 DEF Sane
  <2>2. i \in DOMAIN Members BY <1>1, <1>3, <2>1, MembersAre DEF Placed, AskRecords
  <2>3. d[Members[i]] \in Nat BY <2>2, MembersAre
  <2>4. Span(v, t) \in Nat /\ Span(v, t + 1) = Span(v, t) + 1
    <3>1. v.next - 1 \in Nat BY DEF AskRecords
    <3>2. (v.next - 1) * ReplyTime \in Nat /\ DISCOVERY_SECONDS \in Nat BY <3>1, Numbers
    <3>3. v.sent <= t BY <2>1 DEF Sane, Waiting
    <3> QED BY <1>1, <2>1, <3>2, <3>3 DEF Span
  <2>5. t - d[Members[i]] > Span(v, t) BY <1>3, <2>3, <2>4
  <2> QED BY <2>1, <2>5 DEF Heard
<1>4. v.stage \in {"routing", "listing"} /\ Len(Members) > 1 => Heard(v, t + 1, bk, d) BY <1>3 DEF Heard
<1> QED BY <1>1, <1>2, <1>4 DEF Sane

-----------------------------------------------------------------------------
(* One request moves, and at most one backend is disturbed by that. *)
LEMMA OneMoves ==
    ASSUME RoutingInv, NEW r \in Askers, NEW w \in AskRecords, ask' = [ask EXCEPT ![r] = w],
           clock' = clock, backend' = backend, disturbed' \in [Backends -> Nat],
           \A b \in Backends : disturbed'[b] = disturbed[b] \/ disturbed'[b] = clock,
           Sane(w, clock, backend, disturbed')
    PROVE  /\ ask' \in [Askers -> AskRecords] /\ \A b \in Backends : disturbed'[b] <= clock'
           /\ \A q \in Askers : Sane(ask'[q], clock', backend', disturbed')
<1>1. ask \in [Askers -> AskRecords] /\ clock \in Nat /\ disturbed \in [Backends -> Nat]
      /\ \A b \in Backends : disturbed[b] <= clock
  BY DEF RoutingInv, RoutingTyped
<1>2. ask'[r] = w /\ \A q \in Askers \ {r} : ask'[q] = ask[q] BY <1>1
<1>3. ASSUME NEW q \in Askers \ {r} PROVE Sane(ask[q], clock, backend, disturbed')
  <2>1. ask[q] \in AskRecords /\ Sane(ask[q], clock, backend, disturbed) BY <1>1 DEF RoutingInv
  <2> QED BY <1>1, <2>1, StaysSane
<1> QED BY <1>1, <1>2, <1>3

(* A list or details that came without a disturbance are true.                *)
LEMMA NothingLearnt ==
    ASSUME RoutingInv, clock' = clock, backend' = backend, listed' = listed, details' = details,
           disturbed' \in [Backends -> Nat], \A b \in Backends : disturbed'[b] = disturbed[b] \/ disturbed'[b] = clock
    PROVE  ListsTrue' /\ DetailsTrue'
<1>1. \A b \in Backends : listed[b].at <= clock /\ listed[b].at \in Int /\ details[b].at <= clock
                          /\ details[b].at \in Int /\ disturbed[b] \in Nat
  BY DEF RoutingInv, RoutingTyped
<1>2. ASSUME NEW b \in Backends, listed[b].at - ReplyTime > disturbed'[b] PROVE listed[b].present = backend[b].present
  BY <1>1, <1>2, Numbers DEF RoutingInv, ListsTrue, RoutingTyped
<1>3. ASSUME NEW b \in Backends, details[b].at > disturbed'[b] PROVE details[b].window = Window(backend[b])
  BY <1>1, <1>3, Numbers DEF RoutingInv, DetailsTrue, RoutingTyped
<1> QED BY <1>2, <1>3 DEF ListsTrue, DetailsTrue

LEMMA HeardOfOne ==
    ASSUME RoutingInv, NEW r \in Askers, ask[r].stage \in {"routing", "listing"}, ask[r].next \in DOMAIN Members,
           NEW present \in BOOLEAN, NEW d \in [Backends -> Nat],
           \A b \in Backends : d[b] = disturbed[b] \/ d[b] = clock,
           Len(Members) > 1 => (clock - d[Members[ask[r].next]] > DISCOVERY_SECONDS + ask[r].next * ReplyTime
                                  => present = backend[Members[ask[r].next]].present)
    PROVE  Considered(r, present) \in AskRecords /\ Sane(Considered(r, present), clock, backend, d)
<1> DEFINE v == ask[r]
           n == v.next
           b == Members[n]
           w == Considered(r, present)
<1>1. v \in AskRecords /\ clock \in Nat /\ Sane(v, clock, backend, disturbed) BY DEF RoutingInv, RoutingTyped
<1>2. Sane(v, clock, backend, d) BY <1>1, StaysSane
<1>3. n \in Nat \ {0} /\ n + 1 \in Nat \ {0} /\ (n + 1) - 1 = n /\ b \in Backends BY <1>1, MembersAre DEF AskRecords
<1>4. /\ w.stage = "routing" /\ w.next = n + 1 /\ w.answer = Unknown /\ w.sent = 0
      /\ w.serving = v.serving \union (IF present THEN {b} ELSE {})
      /\ w \in AskRecords
  BY <1>1, <1>3 DEF Considered, AskRecords
<1> HIDE DEF w
<1>5. \A c \in v.serving : \E i \in 1..(n - 1) : Members[i] = c BY <1>1 DEF Sane, Placed
<1>6. Placed(w)
  <2>1. n + 1 \in 1..(Len(Members) + 1) BY <1>3, MembersAre
  <2>2. ASSUME NEW c \in w.serving PROVE \E i \in 1..n : Members[i] = c
    <3>1. CASE c \in v.serving BY <1>3, <1>5, <3>1
    <3>2. CASE c = b BY <1>3, <3>2
    <3> QED BY <1>4, <2>2, <3>1, <3>2
  <2> QED BY <1>3, <1>4, <2>1, <2>2 DEF Placed, Waiting
<1>7. ASSUME Len(Members) > 1 PROVE Heard(w, clock, backend, d)
  <2>1. Heard(v, clock, backend, d) BY <1>2, <1>7 DEF Sane
  <2>2. Span(w, clock) = DISCOVERY_SECONDS + n * ReplyTime
    <3>1. n * ReplyTime \in Nat /\ DISCOVERY_SECONDS \in Nat BY <1>3, Numbers
    <3> QED BY <1>3, <1>4, <3>1 DEF Span
  <2>3. Span(v, clock) <= Span(w, clock) /\ Span(v, clock) \in Nat /\ Span(w, clock) \in Nat
    <3>0. \A k \in Nat \ {0} : k - 1 \in Nat /\ k = (k - 1) + 1 OBVIOUS
    <3>1. n - 1 \in Nat /\ n = (n - 1) + 1 BY <1>3, <3>0
    <3>2. (n - 1) * ReplyTime \in Nat /\ n * ReplyTime = (n - 1) * ReplyTime + ReplyTime
          /\ DISCOVERY_SECONDS \in Nat /\ ReplyTime \in Nat
      BY <3>1, Numbers
    <3>3. v.stage = "listing" => v.sent <= clock /\ clock <= v.sent + ReplyTime BY <1>1 DEF Sane, Waiting
    <3>4. v.sent \in Nat BY <1>1 DEF AskRecords
    <3> DEFINE extra == IF v.stage = "listing" THEN clock - v.sent ELSE 0
               before == (n - 1) * ReplyTime
    <3>5. extra \in Nat /\ extra <= ReplyTime BY <1>1, <3>2, <3>3, <3>4
    <3>6. Span(v, clock) = DISCOVERY_SECONDS + before + extra BY DEF Span
    <3>7. before \in Nat /\ Span(w, clock) = DISCOVERY_SECONDS + before + ReplyTime
          /\ DISCOVERY_SECONDS \in Nat /\ ReplyTime \in Nat
      BY <2>2, <3>2
    <3> HIDE DEF extra, before
    <3> QED BY <3>5, <3>6, <3>7
  <2>4. ASSUME NEW i \in 1..(n - 1), clock - d[Members[i]] > Span(w, clock)
        PROVE  Members[i] \in v.serving <=> backend[Members[i]].present
    <3>1. i \in DOMAIN Members BY <1>3, MembersAre
    <3>2. d[Members[i]] \in Nat BY <3>1, MembersAre
    <3> QED BY <1>1, <2>1, <2>3, <2>4, <3>2 DEF Heard
  <2>5. ASSUME clock - d[b] > Span(w, clock)
        PROVE  (present <=> backend[b].present) /\ (b \in v.serving => backend[b].present)
    <3>1. present <=> backend[b].present BY <1>7, <2>2, <2>5
    <3>2. ASSUME b \in v.serving PROVE backend[b].present
      <4>1. PICK i \in 1..(n - 1) : Members[i] = b BY <1>5, <3>2
      <4> QED BY <2>4, <2>5, <3>2, <4>1
    <3> QED BY <3>1, <3>2
  <2>6. ASSUME NEW i \in 1..n, clock - d[Members[i]] > Span(w, clock)
        PROVE  Members[i] \in w.serving <=> backend[Members[i]].present
    <3>1. CASE Members[i] = b BY <1>4, <2>5, <2>6, <3>1
    <3>2. CASE Members[i] # b
      <4>1. i \in 1..(n - 1) BY <1>3, <3>2
      <4> QED BY <1>4, <2>4, <2>6, <3>2, <4>1
    <3> QED BY <3>1, <3>2
  <2> QED BY <1>3, <1>4, <2>6 DEF Heard
<1>8. w.stage = "routing" /\ w.stage \notin Waiting BY <1>4 DEF Waiting
<1>9. Sane(w, clock, backend, d) BY <1>6, <1>7, <1>8 DEF Sane
<1> QED BY <1>4, <1>9 DEF w

(* The request is past its list, and nothing it knows is asked of it any more. *)
LEMMA NothingHeard ==
    ASSUME NEW w \in AskRecords, Placed(w), w.stage \notin {"routing", "listing"} \union Waiting, NEW t, NEW bk, NEW d
    PROVE  Sane(w, t, bk, d)
BY DEF Sane

-----------------------------------------------------------------------------
(* One lemma for the actions that leave lists, details and backends alone.     *)
LEMMA OnlyAsks ==
    ASSUME RoutingInv, NEW r \in Askers, NEW w \in AskRecords, ask' = [ask EXCEPT ![r] = w],
           UNCHANGED <<clock, backend, listed, details>>, disturbed' \in [Backends -> Nat],
           \A b \in Backends : disturbed'[b] = disturbed[b] \/ disturbed'[b] = clock,
           Sane(w, clock, backend, disturbed')
    PROVE  RoutingInv'
<1>1. ListsTrue' /\ DetailsTrue' BY NothingLearnt
<1>2. /\ ask' \in [Askers -> AskRecords] /\ \A b \in Backends : disturbed'[b] <= clock'
      /\ \A q \in Askers : Sane(ask'[q], clock', backend', disturbed')
  BY OneMoves
<1>3. RoutingTyped' BY <1>2 DEF RoutingInv, RoutingTyped
<1> QED BY <1>1, <1>2, <1>3 DEF RoutingInv

LEMMA Undisturbed ==
    ASSUME RoutingInv, disturbed' = disturbed
    PROVE  /\ disturbed' \in [Backends -> Nat]
           /\ \A b \in Backends : disturbed'[b] = disturbed[b] \/ disturbed'[b] = clock
           /\ \A r \in Askers : Sane(ask[r], clock, backend, disturbed') /\ ask[r] \in AskRecords
BY DEF RoutingInv, RoutingTyped

LEMMA OneDisturbed ==
    ASSUME RoutingInv, NEW r \in Askers, ask[r].stage \in Waiting, Disturbed(r)
    PROVE  /\ Asked(r) \in Backends /\ disturbed' \in [Backends -> Nat] /\ disturbed'[Asked(r)] = clock
           /\ \A b \in Backends : disturbed'[b] = disturbed[b] \/ disturbed'[b] = clock
           /\ \A b \in Backends \ {Asked(r)} : disturbed'[b] = disturbed[b]
<1>1. ask[r] \in AskRecords /\ Placed(ask[r]) /\ clock \in Nat /\ disturbed \in [Backends -> Nat]
  BY DEF RoutingInv, RoutingTyped, Sane
<1>2. Asked(r) = AskedBy(ask[r]) BY DEF Asked, AskedBy, In
<1>3. Asked(r) \in Backends BY <1>1, <1>2, AskedByIs
<1> QED BY <1>1, <1>3 DEF Disturbed

LEMMA Ended ==
    /\ [NotAsked EXCEPT !.stage = "ended"] \in AskRecords
    /\ NotAsked \in AskRecords
    /\ \A t, bk, d : Sane([NotAsked EXCEPT !.stage = "ended"], t, bk, d) /\ Sane(NotAsked, t, bk, d)
<1>1. <<>> \in Seq(Backends) OBVIOUS
<1>2. [NotAsked EXCEPT !.stage = "ended"] = [stage |-> "ended", next |-> 1, serving |-> {}, targets |-> <<>>,
                                             ctx |-> Unknown, sent |-> 0, answer |-> Unknown]
  BY DEF NotAsked
<1> DEFINE e == [NotAsked EXCEPT !.stage = "ended"]
<1>3. e \in AskRecords /\ NotAsked \in AskRecords
  <2>1. \A st \in {"ended", "idle"} :
           [stage |-> st, next |-> 1, serving |-> {}, targets |-> <<>>, ctx |-> Unknown, sent |-> 0,
            answer |-> Unknown] \in AskRecords
    <3> TAKE st \in {"ended", "idle"}
    <3>1. st \in {"idle", "routing", "routed", "calling", "ended"} \union Waiting OBVIOUS
    <3>2. 1 \in Nat \ {0} /\ 0 \in Nat /\ {} \in SUBSET Backends OBVIOUS
    <3>3. Unknown \in Nat \union {Unknown} /\ Unknown \in States \union {Unknown} OBVIOUS
    <3> QED BY <1>1, <3>1, <3>2, <3>3, Zenon DEF AskRecords
  <2> QED BY <1>2, <2>1 DEF NotAsked
<1>4. e.stage = "ended" /\ e.answer = Unknown /\ NotAsked.stage = "idle" /\ NotAsked.answer = Unknown
      /\ NotAsked.serving = {}
  BY <1>2 DEF NotAsked
<1> HIDE DEF e
<1>5. Placed(e) /\ Placed(NotAsked) BY <1>4 DEF Placed
<1>6. \A t, bk, d : Sane(e, t, bk, d) /\ Sane(NotAsked, t, bk, d) BY <1>4, <1>5 DEF Sane, Waiting
<1> QED BY <1>3, <1>6 DEF e

LEMMA RepliesMoves ==
    ASSUME RoutingInv, NEW r \in Askers, Replies(r)
    PROVE  RoutingInv'
<1> DEFINE v == ask[r]
           w == [v EXCEPT !.answer = backend[Asked(r)]]
<1>1. v \in AskRecords /\ Sane(v, clock, backend, disturbed) /\ v.stage \in Waiting BY DEF RoutingInv, RoutingTyped, Replies
<1>2. Asked(r) = AskedBy(v) BY DEF Asked, AskedBy, In
<1>3. Asked(r) \in Backends BY <1>1, <1>2, AskedByIs DEF Sane
<1>4. backend[Asked(r)] \in States BY <1>3 DEF RoutingInv, RoutingTyped
<1>5. /\ w.stage = v.stage /\ w.next = v.next /\ w.serving = v.serving /\ w.targets = v.targets
      /\ w.ctx = v.ctx /\ w.sent = v.sent /\ w.answer = backend[Asked(r)] /\ w \in AskRecords
  BY <1>1, <1>4 DEF AskRecords
<1>6. ask' = [ask EXCEPT ![r] = w]
  BY DEF Replies
<1> HIDE DEF w
<1>7. Sane(w, clock, backend, disturbed)
  <2>1. AskedBy(w) = AskedBy(v) /\ Span(w, clock) = Span(v, clock) BY <1>5 DEF AskedBy, Span
  <2>2. Placed(w) BY <1>1, <1>5 DEF Sane, Placed
  <2>3. Heard(v, clock, backend, disturbed) => Heard(w, clock, backend, disturbed) BY <1>5, <2>1 DEF Heard
  <2> QED BY <1>1, <1>2, <1>5, <2>1, <2>2, <2>3 DEF Sane, Told
<1>8. UNCHANGED <<clock, backend, listed, details, disturbed>> BY DEF Replies, World
<1> QED BY <1>5, <1>6, <1>7, <1>8, OnlyAsks, Undisturbed

LEMMA StartRouteMoves ==
    ASSUME RoutingInv, NEW r \in Askers, StartRoute(r)
    PROVE  RoutingInv'
<1> DEFINE v == ask[r]
           w == [v EXCEPT !.stage = "routing", !.next = IF Len(Members) = 1 THEN 2 ELSE 1]
<1>1. v \in AskRecords /\ Sane(v, clock, backend, disturbed) /\ v.stage = "idle"
  BY DEF RoutingInv, RoutingTyped, StartRoute, In
<1> DEFINE first == IF Len(Members) = 1 THEN 2 ELSE 1
<1>0. first \in Nat \ {0} /\ v.serving = {} /\ v.answer = Unknown
  BY <1>1 DEF Sane, Placed, Waiting
<1> HIDE DEF first
<1>2. /\ w.stage = "routing" /\ w.next = first /\ w.serving = v.serving
      /\ w.answer = v.answer /\ w \in AskRecords
  BY <1>0, <1>1 DEF AskRecords, first
<1>3. ask' = [ask EXCEPT ![r] = w] /\ UNCHANGED <<clock, backend, listed, details, disturbed>>
  BY DEF StartRoute, World
<1> HIDE DEF w
<1>4. Placed(w)
  <2>1. first \in 1..(Len(Members) + 1) BY MembersAre DEF first
  <2> QED BY <1>0, <1>2, <2>1 DEF Placed
<1>5. Len(Members) > 1 => Heard(w, clock, backend, disturbed)
  <2>1. ASSUME Len(Members) > 1 PROVE 1..(first - 1) = {}
    <3>1. Len(Members) # 1 BY <2>1, MembersAre
    <3>2. first = 1 BY <3>1 DEF first
    <3> QED BY <3>2
  <2> QED BY <1>2, <2>1 DEF Heard
<1>6. Sane(w, clock, backend, disturbed) BY <1>2, <1>4, <1>5 DEF Sane, Waiting
<1> QED BY <1>2, <1>3, <1>6, OnlyAsks, Undisturbed

LEMMA ConsiderMoves ==
    ASSUME RoutingInv, NEW r \in Askers, Consider(r)
    PROVE  RoutingInv'
<1> DEFINE v == ask[r]
           b == Members[v.next]
           w == [v EXCEPT !.stage = "listing", !.sent = clock]
<1>1. /\ v \in AskRecords /\ Sane(v, clock, backend, disturbed) /\ v.stage = "routing" /\ v.next <= Len(Members)
      /\ clock \in Nat /\ disturbed \in [Backends -> Nat]
  BY DEF RoutingInv, RoutingTyped, Consider, Checks, In
<1>2. v.next \in DOMAIN Members /\ b \in Backends /\ v.next \in Nat \ {0} BY <1>1, MembersAre DEF AskRecords
<1>3. UNCHANGED <<clock, backend, listed, details, disturbed>> BY DEF Consider, World
<1>4. CASE Due(b)
  <2>1. ask' = [ask EXCEPT ![r] = w] BY <1>4 DEF Consider
  <2>2. /\ w.stage = "listing" /\ w.next = v.next /\ w.serving = v.serving /\ w.targets = v.targets
        /\ w.ctx = v.ctx /\ w.sent = clock /\ w.answer = v.answer /\ v.answer = Unknown /\ w \in AskRecords
    BY <1>1 DEF AskRecords, Sane, Placed, Waiting
  <2> HIDE DEF w
  <2>3. Placed(w) BY <1>1, <1>2, <2>2 DEF Sane, Placed, Waiting
  <2>4. Span(w, clock) = Span(v, clock)
    <3>1. v.next - 1 \in Nat BY <1>2
    <3>2. (v.next - 1) * ReplyTime \in Nat /\ DISCOVERY_SECONDS \in Nat BY <3>1, Numbers
    <3> QED BY <1>1, <2>2, <3>2 DEF Span
  <2>5. Len(Members) > 1 => Heard(w, clock, backend, disturbed) BY <1>1, <2>2, <2>4 DEF Sane, Heard
  <2>6. Sane(w, clock, backend, disturbed) BY <1>1, <2>2, <2>3, <2>5, Numbers DEF Sane, Told
  <2> QED BY <1>3, <2>1, <2>2, <2>6, OnlyAsks, Undisturbed
<1>5. CASE ~Due(b)
  <2>1. ask' = [ask EXCEPT ![r] = Considered(r, listed[b].present)] BY <1>5 DEF Consider
  <2>2. listed[b].present \in BOOLEAN /\ listed[b].at \in Int /\ disturbed[b] \in Nat
    BY <1>2 DEF RoutingInv, RoutingTyped
  <2>3. ASSUME clock - disturbed[b] > DISCOVERY_SECONDS + v.next * ReplyTime
        PROVE  listed[b].present = backend[b].present
    <3>1. clock - listed[b].at <= DISCOVERY_SECONDS BY <1>1, <1>5, <2>2, Numbers DEF Due
    <3>2. v.next * ReplyTime >= ReplyTime /\ v.next * ReplyTime \in Nat BY <1>2, Numbers
    <3>3. listed[b].at - ReplyTime > disturbed[b]
      <4> DEFINE span == v.next * ReplyTime
      <4>1. span >= ReplyTime /\ span \in Nat /\ clock - disturbed[b] > DISCOVERY_SECONDS + span BY <2>3, <3>2
      <4>2. ReplyTime \in Nat /\ DISCOVERY_SECONDS \in Nat BY Numbers
      <4>3. \A c, d, s, p \in Nat : \A l \in Int : \A m \in Nat :
               s >= p /\ c - d > m + s /\ c - l <= m => l - p > d
        OBVIOUS
      <4> HIDE DEF span, b
      <4> QED BY <1>1, <2>2, <3>1, <4>1, <4>2, <4>3
    <3> QED BY <1>2, <3>3 DEF RoutingInv, ListsTrue
  <2>4. Considered(r, listed[b].present) \in AskRecords
        /\ Sane(Considered(r, listed[b].present), clock, backend, disturbed)
    BY <1>1, <1>2, <2>2, <2>3, HeardOfOne
  <2> QED BY <1>3, <2>1, <2>4, OnlyAsks, Undisturbed
<1> QED BY <1>4, <1>5

LEMMA ListModelsMoves ==
    ASSUME RoutingInv, NEW r \in Askers, ListModels(r)
    PROVE  RoutingInv'
<1> DEFINE v == ask[r]
           b == Asked(r)
           here == v.answer.present
<1>1. /\ v \in AskRecords /\ Sane(v, clock, backend, disturbed) /\ v.stage = "listing" /\ v.answer # Unknown
      /\ clock \in Nat /\ disturbed \in [Backends -> Nat]
  BY DEF RoutingInv, RoutingTyped, ListModels, In
<1>2. v.next \in DOMAIN Members /\ v.next \in Nat \ {0} /\ b = Members[v.next] /\ b = AskedBy(v)
      /\ here \in BOOLEAN /\ v.sent \in Nat
  BY <1>1 DEF AskRecords, Sane, Placed, Asked, AskedBy, In, States
<1>3. b \in Backends BY <1>2, MembersAre
<1>4. UNCHANGED <<clock, backend, details, disturbed>> /\ ask' = [ask EXCEPT ![r] = Considered(r, here)]
      /\ listed' = [listed EXCEPT ![b] = [present |-> here, at |-> clock]]
  BY DEF ListModels, World
<1>5. v.sent <= clock /\ clock <= v.sent + ReplyTime /\ Told(v, backend, disturbed) BY <1>1 DEF Sane, Waiting
<1>6. ASSUME clock - ReplyTime > disturbed[b] PROVE here = backend[b].present
  <2>1. disturbed[b] \in Nat /\ ReplyTime \in Nat BY <1>1, <1>3, Numbers
  <2>2. disturbed[b] < v.sent BY <1>1, <1>2, <1>5, <1>6, <2>1
  <2> QED BY <1>1, <1>2, <1>5, <2>1, <2>2 DEF Told
<1>7. ASSUME clock - disturbed[b] > DISCOVERY_SECONDS + v.next * ReplyTime PROVE here = backend[b].present
  <2>1. v.next * ReplyTime >= ReplyTime /\ v.next * ReplyTime \in Nat BY <1>2, Numbers
  <2>2. disturbed[b] \in Nat BY <1>1, <1>3
  <2> QED BY <1>1, <1>6, <1>7, <2>1, <2>2, Numbers
<1>8. Considered(r, here) \in AskRecords /\ Sane(Considered(r, here), clock, backend, disturbed)
  BY <1>1, <1>2, <1>7, HeardOfOne
<1>9. /\ ask' \in [Askers -> AskRecords] /\ \A c \in Backends : disturbed'[c] <= clock'
      /\ \A q \in Askers : Sane(ask'[q], clock', backend', disturbed')
  BY <1>4, <1>8, OneMoves, Undisturbed
<1>10. listed \in [Backends -> [present : BOOLEAN, at : Int]] /\ \A c \in Backends : listed[c].at <= clock
  BY DEF RoutingInv, RoutingTyped
<1>11. /\ listed' \in [Backends -> [present : BOOLEAN, at : Int]]
       /\ listed'[b].present = here /\ listed'[b].at = clock
       /\ \A c \in Backends \ {b} : listed'[c] = listed[c]
       /\ \A c \in Backends : listed'[c].at <= clock
  BY <1>1, <1>2, <1>3, <1>4, <1>10
<1>12. RoutingTyped' BY <1>4, <1>9, <1>11 DEF RoutingInv, RoutingTyped
<1>13. ListsTrue' BY <1>4, <1>6, <1>11 DEF RoutingInv, ListsTrue
<1>14. DetailsTrue' BY <1>4 DEF RoutingInv, DetailsTrue
<1> QED BY <1>9, <1>12, <1>13, <1>14 DEF RoutingInv

LEMMA ListFailsMoves ==
    ASSUME RoutingInv, NEW r \in Askers, ListFails(r)
    PROVE  RoutingInv'
<1> DEFINE v == ask[r]
           b == Asked(r)
           here == listed[b].present
<1>1. /\ v \in AskRecords /\ Sane(v, clock, backend, disturbed) /\ v.stage = "listing" /\ v.stage \in Waiting
      /\ clock \in Nat /\ disturbed \in [Backends -> Nat] /\ Disturbed(r)
  BY DEF RoutingInv, RoutingTyped, ListFails, In, Waiting
<1>2. v.next \in DOMAIN Members /\ v.next \in Nat \ {0} /\ b = Members[v.next]
  BY <1>1 DEF AskRecords, Sane, Placed, Asked, In
<1>3. /\ b \in Backends /\ disturbed' \in [Backends -> Nat] /\ disturbed'[b] = clock
      /\ \A c \in Backends : disturbed'[c] = disturbed[c] \/ disturbed'[c] = clock
      /\ \A c \in Backends \ {b} : disturbed'[c] = disturbed[c]
  BY <1>1, OneDisturbed
<1>4. UNCHANGED <<clock, backend, details>> /\ ask' = [ask EXCEPT ![r] = Considered(r, here)]
      /\ listed' = [listed EXCEPT ![b].at = clock]
  BY DEF ListFails, World
<1>5. listed \in [Backends -> [present : BOOLEAN, at : Int]] /\ \A c \in Backends : listed[c].at <= clock
  BY DEF RoutingInv, RoutingTyped
<1>6. ~(clock - disturbed'[b] > DISCOVERY_SECONDS + v.next * ReplyTime)
  <2>1. v.next * ReplyTime \in Nat BY <1>2, Numbers
  <2> QED BY <1>1, <1>3, <2>1, Numbers
<1>7. Considered(r, here) \in AskRecords /\ Sane(Considered(r, here), clock, backend, disturbed')
  <2>1. here \in BOOLEAN BY <1>3, <1>5
  <2> QED BY <1>1, <1>2, <1>3, <1>6, <2>1, HeardOfOne
<1>8. /\ ask' \in [Askers -> AskRecords] /\ \A c \in Backends : disturbed'[c] <= clock'
      /\ \A q \in Askers : Sane(ask'[q], clock', backend', disturbed')
  BY <1>3, <1>4, <1>7, OneMoves
<1>9. /\ listed' \in [Backends -> [present : BOOLEAN, at : Int]]
      /\ listed'[b].at = clock
      /\ \A c \in Backends \ {b} : listed'[c] = listed[c]
      /\ \A c \in Backends : listed'[c].at <= clock
  BY <1>1, <1>3, <1>4, <1>5
<1>10. RoutingTyped' BY <1>3, <1>4, <1>8, <1>9 DEF RoutingInv, RoutingTyped
<1>11. ListsTrue'
  <2>1. ~(clock - ReplyTime > clock) BY <1>1, Numbers
  <2> QED BY <1>3, <1>4, <1>9, <2>1 DEF RoutingInv, ListsTrue
<1>12. DetailsTrue'
  <2>1. \A c \in Backends : details[c].at <= clock /\ details[c].at \in Int BY DEF RoutingInv, RoutingTyped
  <2> QED BY <1>1, <1>3, <1>4, <2>1 DEF RoutingInv, DetailsTrue
<1> QED BY <1>8, <1>10, <1>11, <1>12 DEF RoutingInv

LEMMA ListBreaksMoves ==
    ASSUME RoutingInv, NEW r \in Askers, ListBreaks(r)
    PROVE  RoutingInv'
<1>1. ask[r].stage \in Waiting /\ Disturbed(r) /\ Ends(r) /\ UNCHANGED <<clock, backend, listed, details>>
  BY DEF ListBreaks, World, In, Waiting
<1>2. disturbed' \in [Backends -> Nat] /\ \A b \in Backends : disturbed'[b] = disturbed[b] \/ disturbed'[b] = clock
  BY <1>1, OneDisturbed
<1> QED BY <1>1, <1>2, Ended, OnlyAsks DEF Ends

(* The orders by load are those of the members that have the model.            *)
LEMMA OrdersAre ==
    ASSUME NEW serving \in SUBSET Backends, NEW targets \in Orders(serving)
    PROVE  /\ targets \in Seq(Backends) /\ targets # <<>>
           /\ serving = {} => targets = <<Primary>>
           /\ serving # {} /\ Len(Members) # 1 => ToSet(targets) = serving
<1>1. CASE serving = {} \/ Len(Members) = 1
  <2>1. targets = <<Primary>> BY <1>1 DEF Orders
  <2>2. <<Primary>> \in Seq(Backends) /\ <<Primary>> # <<>> BY MembersAre
  <2> QED BY <1>1, <2>1, <2>2
<1>2. CASE serving # {} /\ Len(Members) # 1
  <2>1. IsFiniteSet(serving) BY MembersAre, FS_Subset
  <2>2. Cardinality(serving) \in Nat BY <2>1, FS_CardinalityType
  <2> DEFINE n == Cardinality(serving)
  <2>3. targets \in [1..n -> serving] /\ \A i, j \in 1..n : i # j => targets[i] # targets[j]
    <3>1. targets \in SetToSeqs(serving) BY <1>2 DEF Orders
    <3>2. SetToSeqs(serving) = {f \in [1..n -> serving] : \A i, j \in 1..n : i # j => f[i] # f[j]}
      BY Zenon DEF SetToSeqs
    <3> HIDE DEF n
    <3> QED BY <3>1, <3>2
  <2>4. targets \in Injection(1..n, serving) BY <2>3 DEF Injection, IsInjective
  <2>5. Cardinality(1..n) = n BY <2>2, FS_Interval
  <2>6. targets \in Surjection(1..n, serving) BY <2>1, <2>4, <2>5, FS_Injection
  <2>7. DOMAIN targets = 1..n BY <2>3
  <2>8. ToSet(targets) = serving BY <2>3, <2>6, <2>7 DEF ToSet, Surjection
  <2>9. targets \in Seq(Backends) BY <2>2, <2>3
  <2>10. targets # <<>> BY <1>2, <2>8 DEF ToSet
  <2> QED BY <1>2, <2>8, <2>9, <2>10
<1> QED BY <1>1, <1>2

LEMMA RoutedMoves ==
    ASSUME RoutingInv, NEW r \in Askers, Routed(r)
    PROVE  RoutingInv'
<1> DEFINE v == ask[r]
<1>1. v \in AskRecords /\ Sane(v, clock, backend, disturbed) /\ v.stage = "routing"
  BY DEF RoutingInv, RoutingTyped, Routed, In
<1>2. PICK targets \in Orders(v.serving) :
         ask' = [ask EXCEPT ![r].stage = "routed", ![r].targets = targets, ![r].serving = {}]
  BY DEF Routed
<1> DEFINE w == [v EXCEPT !.stage = "routed", !.targets = targets, !.serving = {}]
<1>3. targets \in Seq(Backends) /\ targets # <<>> BY <1>1, OrdersAre DEF AskRecords
<1>4. w.stage = "routed" /\ w.targets = targets /\ w.answer = Unknown /\ w \in AskRecords
  BY <1>1, <1>3 DEF AskRecords, Sane, Placed, Waiting
<1>5. ask' = [ask EXCEPT ![r] = w] BY <1>2
<1> HIDE DEF w
<1>6. Sane(w, clock, backend, disturbed) BY <1>3, <1>4 DEF Sane, Placed, Waiting
<1>7. UNCHANGED <<clock, backend, listed, details, disturbed>> BY DEF Routed, World
<1> QED BY <1>4, <1>5, <1>6, <1>7, OnlyAsks, Undisturbed

LEMMA CtxIs ==
    /\ Ctx(Unknown) = DefaultCtx
    /\ \A n \in Windows : Ctx(n) = Min({DefaultCtx, n}) /\ Ctx(n) \in Nat
    /\ \A n \in Windows \union {Unknown} : Ctx(n) \in Nat /\ Ctx(n) # Unknown
<1>1. \A n \in Windows : n # Unknown /\ n \in Nat BY Numbers
<1>2. \A m, n \in Nat : Min({m, n}) \in {m, n}
  <2>1. \A m, n \in Nat : \E x \in {m, n} : \A y \in {m, n} : x <= y
    <3> TAKE m, n \in Nat
    <3>1. CASE m <= n BY <3>1
    <3>2. CASE n <= m BY <3>2
    <3> QED BY <3>1, <3>2
  <2> QED BY <2>1 DEF Min
<1>3. \A n \in Windows : Ctx(n) = Min({DefaultCtx, n}) /\ Ctx(n) \in Nat BY <1>1, <1>2, Numbers DEF Ctx
<1>4. Ctx(Unknown) = DefaultCtx BY DEF Ctx
<1> QED BY <1>3, <1>4, Numbers

LEMMA ChosenIs ==
    ASSUME RoutingInv, NEW r \in Askers, ask[r].targets # <<>>, NEW ctx \in Nat \union {Unknown},
           ask[r].targets[1] \in TakesOptions => ctx # Unknown
    PROVE  Chosen(r, ctx) \in AskRecords /\ \A t, bk, d : Sane(Chosen(r, ctx), t, bk, d)
<1> DEFINE w == Chosen(r, ctx)
<1>1. ask[r] \in AskRecords BY DEF RoutingInv, RoutingTyped
<1>2. w = [ask[r] EXCEPT !.stage = "calling", !.next = 1, !.ctx = ctx, !.sent = 0, !.answer = Unknown] BY DEF Chosen
<1> HIDE DEF w
<1>3. w.stage = "calling" /\ w.targets = ask[r].targets /\ w.ctx = ctx /\ w.answer = Unknown
  BY <1>1, <1>2 DEF AskRecords
<1>4. w \in AskRecords
  <2>1. "calling" \in {"idle", "routing", "routed", "calling", "ended"} \union Waiting OBVIOUS
  <2>2. 1 \in Nat \ {0} /\ 0 \in Nat /\ Unknown \in States \union {Unknown} OBVIOUS
  <2> HIDE DEF Waiting
  <2> QED BY <1>1, <1>2, <2>1, <2>2 DEF AskRecords
<1>5. Placed(w) BY <1>3 DEF Placed
<1>6. \A t, bk, d : Sane(w, t, bk, d) BY <1>3, <1>5 DEF Sane, Waiting
<1> QED BY <1>4, <1>6 DEF w

LEMMA FirstTarget ==
    ASSUME RoutingInv, NEW r \in Askers, In(r, "routed") \/ In(r, "looking")
    PROVE  ask[r].targets # <<>> /\ ask[r].targets[1] \in Backends
<1>1. ask[r] \in AskRecords /\ Placed(ask[r]) BY DEF RoutingInv, RoutingTyped, Sane
<1>2. ask[r].targets \in Seq(Backends) /\ ask[r].targets # <<>> BY <1>1 DEF AskRecords, Placed, In
<1> QED BY <1>2

LEMMA ChooseWindowMoves ==
    ASSUME RoutingInv, NEW r \in Askers, ChooseWindow(r)
    PROVE  RoutingInv'
<1> DEFINE v == ask[r]
           b == v.targets[1]
           w == [v EXCEPT !.stage = "looking", !.sent = clock]
<1>1. /\ v \in AskRecords /\ Sane(v, clock, backend, disturbed) /\ v.stage = "routed" /\ clock \in Nat
      /\ v.targets # <<>> /\ b \in Backends
  BY FirstTarget DEF RoutingInv, RoutingTyped, ChooseWindow, In
<1>2. UNCHANGED <<clock, backend, listed, details, disturbed>> BY DEF ChooseWindow, World
<1>3. CASE b \notin TakesOptions
  <2>1. ask' = [ask EXCEPT ![r] = Chosen(r, Unknown)] BY <1>3 DEF ChooseWindow
  <2> QED BY <1>1, <1>2, <1>3, <2>1, ChosenIs, OnlyAsks, Undisturbed
<1>4. CASE b \in TakesOptions /\ Fresh(b)
  <2>1. ask' = [ask EXCEPT ![r] = Chosen(r, Ctx(details[b].window))] BY <1>4 DEF ChooseWindow
  <2>2. details[b].window \in Windows \union {Unknown} BY <1>1 DEF RoutingInv, RoutingTyped
  <2>3. Ctx(details[b].window) \in Nat /\ Ctx(details[b].window) # Unknown BY <2>2, CtxIs
  <2> QED BY <1>1, <1>2, <2>1, <2>3, ChosenIs, OnlyAsks, Undisturbed
<1>5. CASE b \in TakesOptions /\ ~Fresh(b)
  <2>1. ask' = [ask EXCEPT ![r] = w] BY <1>5 DEF ChooseWindow
  <2>2. w.stage = "looking" /\ w.targets = v.targets /\ w.sent = clock /\ w.answer = Unknown /\ w \in AskRecords
    BY <1>1 DEF AskRecords, Sane, Placed, Waiting
  <2> HIDE DEF w
  <2>3. Sane(w, clock, backend, disturbed) BY <1>1, <2>2, Numbers DEF Sane, Placed, Waiting, Told
  <2> QED BY <1>2, <2>1, <2>2, <2>3, OnlyAsks, Undisturbed
<1> QED BY <1>3, <1>4, <1>5

(* What is remembered of a model is as old as the question.                    *)
LEMMA RememberedIs ==
    ASSUME RoutingInv, NEW r \in Askers, In(r, "looking"), NEW window \in Windows \union {Unknown},
           details' = Remembered(r, window)
    PROVE  LET b == ask[r].targets[1]
           IN /\ b \in Backends /\ Asked(r) = b
              /\ details' \in [Backends -> [window : Windows \union {Unknown}, at : Int]]
              /\ details'[b].window = window /\ details'[b].at = ask[r].sent /\ ask[r].sent <= clock
              /\ clock <= ask[r].sent + ReplyTime /\ ask[r].sent \in Nat
              /\ \A c \in Backends \ {b} : details'[c] = details[c]
              /\ \A c \in Backends : details'[c].at <= clock
<1> DEFINE b == ask[r].targets[1]
<1>1. b \in Backends /\ Asked(r) = b BY FirstTarget DEF Asked, In
<1>2. details \in [Backends -> [window : Windows \union {Unknown}, at : Int]] /\ \A c \in Backends : details[c].at <= clock
  BY DEF RoutingInv, RoutingTyped
<1>3. ask[r].sent \in Nat BY DEF RoutingInv, RoutingTyped, AskRecords
<1>4. ask[r].sent <= clock /\ clock <= ask[r].sent + ReplyTime BY DEF RoutingInv, Sane, In, Waiting
<1>5. details' = [details EXCEPT ![b] = [window |-> window, at |-> ask[r].sent]] BY <1>1 DEF Remembered
<1> HIDE DEF b
<1>6. /\ details' \in [Backends -> [window : Windows \union {Unknown}, at : Int]]
      /\ details'[b].window = window /\ details'[b].at = ask[r].sent
      /\ \A c \in Backends \ {b} : details'[c] = details[c]
  BY <1>1, <1>2, <1>3, <1>5
<1>7. \A c \in Backends : details'[c].at <= clock BY <1>1, <1>2, <1>4, <1>6
<1> QED BY <1>1, <1>3, <1>4, <1>6, <1>7 DEF b

LEMMA LookUpModelMoves ==
    ASSUME RoutingInv, NEW r \in Askers, LookUpModel(r)
    PROVE  RoutingInv'
<1> DEFINE v == ask[r]
           b == v.targets[1]
           window == Window(v.answer)
<1>1. /\ v \in AskRecords /\ Sane(v, clock, backend, disturbed) /\ v.stage = "looking" /\ In(r, "looking")
      /\ v.answer # Unknown /\ disturbed \in [Backends -> Nat]
  BY DEF RoutingInv, RoutingTyped, LookUpModel, In
<1>2. window \in Windows \union {Unknown} BY <1>1 DEF AskRecords, States, Window
<1>3. /\ UNCHANGED <<clock, backend, listed, disturbed>> /\ details' = Remembered(r, window)
      /\ ask' = [ask EXCEPT ![r] = Chosen(r, Ctx(window))]
  BY DEF LookUpModel, World
<1> HIDE DEF window
<1>4. Ctx(window) \in Nat /\ Ctx(window) # Unknown BY <1>2, CtxIs
<1>5. Chosen(r, Ctx(window)) \in AskRecords /\ Sane(Chosen(r, Ctx(window)), clock, backend, disturbed')
  BY <1>1, <1>4, FirstTarget, ChosenIs
<1>6. /\ ask' \in [Askers -> AskRecords] /\ \A c \in Backends : disturbed'[c] <= clock'
      /\ \A q \in Askers : Sane(ask'[q], clock', backend', disturbed')
  BY <1>3, <1>5, OneMoves, Undisturbed
<1>7. /\ b \in Backends /\ details' \in [Backends -> [window : Windows \union {Unknown}, at : Int]]
      /\ details'[b].window = window /\ details'[b].at = v.sent
      /\ \A c \in Backends \ {b} : details'[c] = details[c]
      /\ \A c \in Backends : details'[c].at <= clock
      /\ v.sent \in Nat
  BY <1>1, <1>2, <1>3, RememberedIs
<1>8. Told(v, backend, disturbed) /\ AskedBy(v) = b BY <1>1 DEF Sane, Waiting, AskedBy
<1>9. ASSUME v.sent > disturbed[b] PROVE window = Window(backend[b])
  <2>1. disturbed[b] \in Nat BY <1>1, <1>7
  <2>2. v.answer = backend[b] BY <1>1, <1>7, <1>8, <1>9, <2>1 DEF Told
  <2> QED BY <2>2 DEF window
<1>10. RoutingTyped' BY <1>3, <1>6, <1>7 DEF RoutingInv, RoutingTyped
<1>11. DetailsTrue' BY <1>3, <1>7, <1>9 DEF RoutingInv, DetailsTrue, Window
<1>12. ListsTrue' BY <1>3 DEF RoutingInv, ListsTrue
<1> QED BY <1>6, <1>10, <1>11, <1>12 DEF RoutingInv

LEMMA LookUpFailsMoves ==
    ASSUME RoutingInv, NEW r \in Askers, LookUpFails(r)
    PROVE  RoutingInv'
<1> DEFINE b == ask[r].targets[1]
<1>1. In(r, "looking") /\ ask[r].stage \in Waiting /\ Disturbed(r) /\ clock \in Nat
  BY DEF RoutingInv, RoutingTyped, LookUpFails, In, Waiting
<1>2. /\ UNCHANGED <<clock, backend, listed>> /\ details' = Remembered(r, Unknown)
      /\ ask' = [ask EXCEPT ![r] = Chosen(r, DefaultCtx)]
  BY DEF LookUpFails, World
<1>3. Chosen(r, DefaultCtx) \in AskRecords /\ Sane(Chosen(r, DefaultCtx), clock, backend, disturbed')
  BY <1>1, FirstTarget, ChosenIs, Numbers
<1>4. /\ b \in Backends /\ Asked(r) = b /\ details' \in [Backends -> [window : Windows \union {Unknown}, at : Int]]
      /\ \A c \in Backends \ {b} : details'[c] = details[c]
      /\ \A c \in Backends : details'[c].at <= clock
  BY <1>1, <1>2, RememberedIs
<1>5. /\ disturbed' \in [Backends -> Nat] /\ disturbed'[b] = clock
      /\ \A c \in Backends : disturbed'[c] = disturbed[c] \/ disturbed'[c] = clock
      /\ \A c \in Backends \ {b} : disturbed'[c] = disturbed[c]
  BY <1>1, <1>4, OneDisturbed
<1>6. /\ ask' \in [Askers -> AskRecords] /\ \A c \in Backends : disturbed'[c] <= clock'
      /\ \A q \in Askers : Sane(ask'[q], clock', backend', disturbed')
  BY <1>2, <1>3, <1>5, OneMoves
<1>7. RoutingTyped' BY <1>2, <1>4, <1>5, <1>6 DEF RoutingInv, RoutingTyped
<1>8. DetailsTrue'
  <2>1. ~(details'[b].at > clock) /\ details'[b].at \in Int BY <1>1, <1>4
  <2> QED BY <1>2, <1>4, <1>5, <2>1 DEF RoutingInv, DetailsTrue, Window
<1>9. ListsTrue'
  <2>1. \A c \in Backends : listed[c].at <= clock /\ listed[c].at \in Int BY DEF RoutingInv, RoutingTyped
  <2>2. \A c \in Backends : ~(listed[c].at - ReplyTime > clock)
    <3>1. \A n \in Int : n <= clock => ~(n - ReplyTime > clock) BY <1>1, Numbers
    <3> QED BY <2>1, <3>1
  <2> QED BY <1>2, <1>5, <2>2 DEF RoutingInv, ListsTrue
<1> QED BY <1>6, <1>7, <1>8, <1>9 DEF RoutingInv

LEMMA CallMoves ==
    ASSUME RoutingInv, NEW r \in Askers, Generate(r) \/ FailOver(r)
    PROVE  RoutingInv'
<1> DEFINE v == ask[r]
           w == [v EXCEPT !.next = @ + 1]
<1>1. v \in AskRecords /\ Sane(v, clock, backend, disturbed) /\ v.stage = "calling"
  BY DEF RoutingInv, RoutingTyped, Generate, FailOver, In
<1>2. UNCHANGED <<clock, backend, listed, details, disturbed>> BY DEF Generate, FailOver, World
<1>3. CASE Ends(r) BY <1>2, <1>3, Ended, OnlyAsks, Undisturbed DEF Ends
<1>4. CASE ask' = [ask EXCEPT ![r].next = @ + 1]
  <2>1. ask' = [ask EXCEPT ![r] = w] BY <1>4
  <2>2. w.stage = "calling" /\ w.targets = v.targets /\ w.ctx = v.ctx /\ w.answer = v.answer /\ w \in AskRecords
    BY <1>1 DEF AskRecords
  <2> HIDE DEF w
  <2>3. Sane(w, clock, backend, disturbed) BY <1>1, <2>2 DEF Sane, Placed, Waiting
  <2> QED BY <1>2, <2>1, <2>2, <2>3, OnlyAsks, Undisturbed
<1> QED BY <1>3, <1>4 DEF Generate, FailOver

LEMMA PassesMoves == ASSUME RoutingInv, Passes PROVE RoutingInv'
<1>1. /\ clock' = clock + 1 /\ clock \in Nat /\ UNCHANGED <<backend, listed, details, ask, disturbed>>
      /\ \A r \in Askers : ~(ask[r].stage \in Waiting /\ clock - ask[r].sent >= ReplyTime) /\ ask[r].stage # "routing"
  BY DEF Passes, RoutingInv, RoutingTyped, Late, In
<1>2. disturbed \in [Backends -> Nat] /\ \A r \in Askers : ask[r] \in AskRecords /\ Sane(ask[r], clock, backend, disturbed)
  BY DEF RoutingInv, RoutingTyped
<1>3. \A r \in Askers : Sane(ask[r], clock + 1, backend, disturbed) BY <1>1, <1>2, TimeKeepsSane
<1>4. RoutingTyped'
  <2>1. \A b \in Backends : /\ disturbed[b] <= clock + 1 /\ listed[b].at <= clock + 1 /\ details[b].at <= clock + 1
    BY <1>1, <1>2 DEF RoutingInv, RoutingTyped
  <2> QED BY <1>1, <2>1 DEF RoutingInv, RoutingTyped
<1>5. ListsTrue' /\ DetailsTrue' BY <1>1 DEF RoutingInv, ListsTrue, DetailsTrue
<1> QED BY <1>1, <1>3, <1>4, <1>5 DEF RoutingInv

LEMMA DisturbMoves == ASSUME RoutingInv, NEW b \in Backends, Disturb(b) PROVE RoutingInv'
<1>1. PICK state \in States : backend' = [backend EXCEPT ![b] = state] BY DEF Disturb
<1>2. /\ disturbed' = [disturbed EXCEPT ![b] = clock] /\ UNCHANGED <<clock, listed, details, ask>>
      /\ clock \in Nat /\ disturbed \in [Backends -> Nat] /\ backend \in [Backends -> States]
      /\ \A c \in Backends : disturbed[c] <= clock /\ listed[c].at <= clock /\ details[c].at <= clock
      /\ \A c \in Backends : listed[c].at \in Int /\ details[c].at \in Int
  BY DEF Disturb, RoutingInv, RoutingTyped
<1>3. /\ disturbed' \in [Backends -> Nat] /\ backend' \in [Backends -> States] /\ disturbed'[b] = clock
      /\ \A c \in Backends : (disturbed'[c] = disturbed[c] /\ backend'[c] = backend[c]) \/ disturbed'[c] = clock
      /\ \A c \in Backends \ {b} : disturbed'[c] = disturbed[c] /\ backend'[c] = backend[c]
      /\ \A c \in Backends : disturbed'[c] <= clock
  BY <1>1, <1>2
<1>4. ASSUME NEW r \in Askers PROVE Sane(ask[r], clock, backend', disturbed')
  <2>1. ask[r] \in AskRecords /\ Sane(ask[r], clock, backend, disturbed) BY DEF RoutingInv, RoutingTyped
  <2> QED BY <1>2, <1>3, <2>1, StaysSane
<1>5. RoutingTyped' BY <1>2, <1>3 DEF RoutingInv, RoutingTyped
<1>6. ListsTrue'
  <2>1. \A c \in Backends : ~(listed[c].at - ReplyTime > clock) BY <1>2, Numbers
  <2> QED BY <1>2, <1>3, <2>1 DEF RoutingInv, ListsTrue
<1>7. DetailsTrue'
  <2>1. \A c \in Backends : ~(details[c].at > clock) BY <1>2
  <2> QED BY <1>2, <1>3, <2>1 DEF RoutingInv, DetailsTrue
<1> QED BY <1>2, <1>4, <1>5, <1>6, <1>7 DEF RoutingInv

LEMMA RoutingFromTheStart == RoutingInit => RoutingInv
<1> SUFFICES ASSUME RoutingInit PROVE RoutingInv
  OBVIOUS
<1>1. /\ clock = 0 /\ backend \in [Backends -> States] /\ ask = [r \in Askers |-> NotAsked]
      /\ disturbed = [b \in Backends |-> 0]
      /\ listed = [b \in Backends |-> [present |-> FALSE, at |-> LongAgo]]
      /\ details = [b \in Backends |-> [window |-> Unknown, at |-> LongAgo]]
  BY DEF RoutingInit
<1>2. LongAgo \in Int /\ LongAgo < 0 /\ ReplyTime \in Nat BY Numbers
<1>3. RoutingTyped BY <1>1, <1>2, Ended DEF RoutingTyped
<1>4. ListsTrue /\ DetailsTrue BY <1>1, <1>2 DEF ListsTrue, DetailsTrue
<1>5. \A r \in Askers : Sane(ask[r], clock, backend, disturbed) BY <1>1, Ended
<1> QED BY <1>3, <1>4, <1>5 DEF RoutingInv

LEMMA RoutingStep == RoutingInv /\ [RoutingNext]_routingVars => RoutingInv'
<1> SUFFICES ASSUME RoutingInv, [RoutingNext]_routingVars PROVE RoutingInv'
  OBVIOUS
<1>1. CASE UNCHANGED routingVars
  BY <1>1 DEF routingVars, RoutingInv, RoutingTyped, ListsTrue, DetailsTrue
<1>2. CASE RoutingNext
  BY <1>2, PassesMoves, DisturbMoves, RepliesMoves, StartRouteMoves, ConsiderMoves, ListModelsMoves, ListFailsMoves,
     ListBreaksMoves, RoutedMoves, ChooseWindowMoves, LookUpModelMoves, LookUpFailsMoves, CallMoves
     DEF RoutingNext
<1> QED BY <1>1, <1>2

(* Requests go to who has the model, as far as that could be known, however many *)
(* members the pool has and requests ask them (BackendPool.route).              *)
THEOREM RequestsGoWhereTheModelIs == RoutingSpec => RoutedByWhatIsServed
<1>1. RoutingInv /\ [RoutingNext]_routingVars
      => [\A r \in Askers : In(r, "routing") /\ ask'[r].stage = "routed" /\ Len(Members) > 1 =>
            \A b \in Backends : Settled(b) =>
                LET target == b \in ToSet(ask'[r].targets)
                IN IF backend[b].present THEN target ELSE target => ask'[r].targets = <<Primary>>]_routingVars
  <2> SUFFICES ASSUME RoutingInv, RoutingNext, NEW r \in Askers, In(r, "routing"), ask'[r].stage = "routed",
                      Len(Members) > 1, NEW b \in Backends, Settled(b)
               PROVE  IF backend[b].present THEN b \in ToSet(ask'[r].targets)
                      ELSE b \in ToSet(ask'[r].targets) => ask'[r].targets = <<Primary>>
    BY Zenon
  <2> DEFINE v == ask[r]
  <2>1. /\ ask \in [Askers -> AskRecords] /\ v \in AskRecords /\ Sane(v, clock, backend, disturbed) /\ v.stage = "routing"
        /\ clock \in Nat /\ disturbed[b] \in Nat
    BY DEF RoutingInv, RoutingTyped, In
  <2>2. Routed(r)
    <3>1. ASSUME NEW q \in Askers, NEW w, ask' = [ask EXCEPT ![q] = w], w.stage # "routed" \/ q # r PROVE FALSE
      BY <2>1, <3>1
    <3>2. ask' # ask BY <2>1
    <3>3. \A q \in Askers : \A present : Considered(q, present).stage = "routing"
      <4> TAKE q \in Askers
      <4> TAKE present
      <4>1. ask[q] \in AskRecords BY <2>1
      <4> QED BY <4>1 DEF Considered, AskRecords
    <3>4. \A q \in Askers : \A ctx : Chosen(q, ctx).stage = "calling"
      <4> TAKE q \in Askers
      <4> TAKE ctx
      <4>1. ask[q] \in AskRecords BY <2>1
      <4> QED BY <4>1 DEF Chosen, AskRecords
    <3>5. [NotAsked EXCEPT !.stage = "ended"].stage = "ended" BY DEF NotAsked
    <3>6. ASSUME NEW q \in Askers, q = r \/ q # r,
                 StartRoute(q) \/ Consider(q) \/ ListModels(q) \/ ListFails(q) \/ ListBreaks(q)
          PROVE  FALSE
      <4>1. ASSUME ListModels(q) \/ ListFails(q) PROVE FALSE
        BY <3>1, <3>3, <4>1 DEF ListModels, ListFails
      <4>2. ASSUME ListBreaks(q) PROVE FALSE BY <3>1, <3>5, <4>2 DEF ListBreaks, Ends
      <4>3. ASSUME StartRoute(q) PROVE FALSE
        <5>1. q # r BY <2>1, <4>3 DEF StartRoute, In
        <5> QED BY <2>1, <4>3, <5>1 DEF StartRoute
      <4>4. ASSUME Consider(q) PROVE FALSE
        <5>1. ask[q] \in AskRecords BY <2>1
        <5>2. [ask[q] EXCEPT !.stage = "listing", !.sent = clock].stage = "listing" BY <5>1 DEF AskRecords
        <5> QED BY <3>1, <3>3, <4>4, <5>2 DEF Consider
      <4> QED BY <3>6, <4>1, <4>2, <4>3, <4>4
    <3>7. ASSUME NEW q \in Askers, Replies(q) \/ ChooseWindow(q) \/ LookUpModel(q) \/ LookUpFails(q)
                                    \/ Generate(q) \/ FailOver(q)
          PROVE  FALSE
      <4>1. q # r BY <2>1, <3>7 DEF Replies, ChooseWindow, LookUpModel, LookUpFails, Generate, FailOver, In, Waiting
      <4>2. ask'[r] = ask[r]
        BY <2>1, <3>7, <4>1 DEF Replies, ChooseWindow, LookUpModel, LookUpFails, Generate, FailOver, Ends
      <4> QED BY <2>1, <4>2
    <3>8. ASSUME NEW q \in Askers, Routed(q) PROVE q = r
      <4>1. ASSUME q # r PROVE FALSE
        <5>1. ask'[r] = ask[r] BY <2>1, <3>8, <4>1 DEF Routed
        <5> QED BY <2>1, <5>1
      <4> QED BY <4>1
    <3> QED BY <3>2, <3>6, <3>7, <3>8 DEF RoutingNext, Passes, Disturb
  <2>3. PICK targets \in Orders(v.serving) :
           ask' = [ask EXCEPT ![r].stage = "routed", ![r].targets = targets, ![r].serving = {}]
    BY <2>2 DEF Routed
  <2>4. ask'[r].targets = targets BY <2>1, <2>3 DEF AskRecords
  <2>5. v.next = Len(Members) + 1
    <3>1. v.next \in 1..(Len(Members) + 1) BY <2>1 DEF Sane, Placed
    <3>2. ~(v.next <= Len(Members)) BY <2>1, <2>2 DEF Routed, Checks, In
    <3> QED BY <3>1, <3>2, MembersAre
  <2>6. Span(v, clock) = DISCOVERY_SECONDS + Len(Members) * ReplyTime
    <3>1. Len(Members) \in Nat BY MembersAre
    <3>2. v.next - 1 = Len(Members) BY <2>5, <3>1
    <3>3. Len(Members) * ReplyTime \in Nat /\ DISCOVERY_SECONDS \in Nat BY <3>1, Numbers
    <3> QED BY <2>1, <3>2, <3>3 DEF Span
  <2>7. PICK i \in DOMAIN Members : Members[i] = b BY MembersAre
  <2>8. i \in 1..(v.next - 1) BY <2>5, <2>7, MembersAre
  <2>9. b \in v.serving <=> backend[b].present
    <3>1. Heard(v, clock, backend, disturbed) BY <2>1 DEF Sane
    <3>2. clock - disturbed[Members[i]] > Span(v, clock) BY <2>6, <2>7 DEF Settled
    <3> QED BY <2>7, <2>8, <3>1, <3>2 DEF Heard
  <2>10. v.serving \in SUBSET Backends
    <3> HIDE DEF v
    <3> QED BY <2>1 DEF AskRecords
  <2>11. v.serving # {} => ToSet(targets) = v.serving
    <3>1. Len(Members) # 1 BY MembersAre
    <3> QED BY <2>3, <2>10, <3>1, OrdersAre
  <2>12. v.serving = {} => targets = <<Primary>> BY <2>3, <2>10, OrdersAre
  <2> QED BY <2>4, <2>9, <2>11, <2>12
<1> QED
  BY <1>1, RoutingFromTheStart, RoutingStep, PTL DEF RoutingSpec, RoutedByWhatIsServed

(* Who takes options is asked for a window that fits, as far as that could be    *)
(* known (apply_default_num_ctx).                                            *)
THEOREM WindowsAreFitting == RoutingSpec => WindowsFit
<1>1. RoutingInv /\ [RoutingNext]_routingVars
      => [\A r \in Askers :
            /\ Served(r) /\ {ask[r].targets[1], Target(r)} \subseteq TakesOptions => ask[r].ctx # Unknown
            /\ LET target == ask[r].targets[1]
               IN (In(r, "routed") \/ In(r, "looking")) /\ ask'[r].stage = "calling" /\ target \in TakesOptions
                  /\ backend[target].present /\ clock - disturbed'[target] > CACHE_SECONDS + ReplyTime
                  => ask'[r].ctx = Min({DefaultCtx, backend[target].window})]_routingVars
  <2> SUFFICES ASSUME RoutingInv, RoutingNext, NEW r \in Askers
               PROVE  /\ Served(r) /\ {ask[r].targets[1], Target(r)} \subseteq TakesOptions => ask[r].ctx # Unknown
                      /\ LET target == ask[r].targets[1]
                         IN (In(r, "routed") \/ In(r, "looking")) /\ ask'[r].stage = "calling" /\ target \in TakesOptions
                            /\ backend[target].present /\ clock - disturbed'[target] > CACHE_SECONDS + ReplyTime
                            => ask'[r].ctx = Min({DefaultCtx, backend[target].window})
    BY Zenon
  <2> DEFINE v == ask[r]
             target == v.targets[1]
  <2>1. /\ ask \in [Askers -> AskRecords] /\ v \in AskRecords /\ Sane(v, clock, backend, disturbed)
        /\ clock \in Nat /\ disturbed \in [Backends -> Nat]
    BY DEF RoutingInv, RoutingTyped
  <2>2. Served(r) /\ {target, Target(r)} \subseteq TakesOptions => v.ctx # Unknown
    BY <2>1 DEF Served, In, Sane, Placed
  <2>3. ASSUME In(r, "routed") \/ In(r, "looking"), ask'[r].stage = "calling", target \in TakesOptions,
               backend[target].present, clock - disturbed'[target] > CACHE_SECONDS + ReplyTime
        PROVE  ask'[r].ctx = Min({DefaultCtx, backend[target].window})
    <3>1. target \in Backends BY <2>3, FirstTarget
    <3>2. backend[target] \in States /\ details[target].window \in Windows \union {Unknown} /\ details[target].at \in Int
      BY <3>1 DEF RoutingInv, RoutingTyped
    <3>3. Window(backend[target]) = backend[target].window /\ backend[target].window \in Windows
      BY <2>3, <3>2 DEF Window, States
    <3>4. \A ctx : Chosen(r, ctx).ctx = ctx BY <2>1 DEF Chosen, AskRecords
    <3>5. ASSUME ChooseWindow(r) PROVE ask'[r].ctx = Min({DefaultCtx, backend[target].window})
      <4>1. disturbed' = disturbed BY <3>5 DEF ChooseWindow
      <4>2. Fresh(target)
        <5>1. ASSUME ~Fresh(target) PROVE FALSE
          <6>1. ask' = [ask EXCEPT ![r] = [v EXCEPT !.stage = "looking", !.sent = clock]]
            BY <2>3, <3>5, <5>1 DEF ChooseWindow
          <6>2. [v EXCEPT !.stage = "looking", !.sent = clock].stage = "looking" BY <2>1 DEF AskRecords
          <6> QED BY <2>1, <2>3, <6>1, <6>2
        <5> QED BY <5>1
      <4>3. ask'[r] = Chosen(r, Ctx(details[target].window)) BY <2>1, <2>3, <3>5, <4>2 DEF ChooseWindow
      <4>4. details[target].at > disturbed[target]
        <5>1. disturbed[target] \in Nat BY <2>1, <3>1
        <5> QED BY <2>1, <2>3, <3>2, <4>1, <4>2, <5>1, Numbers DEF Fresh
      <4>5. details[target].window = backend[target].window
        BY <3>1, <3>3, <4>4 DEF RoutingInv, DetailsTrue
      <4> QED BY <3>3, <3>4, <4>3, <4>5, CtxIs
    <3>6. ASSUME LookUpModel(r) PROVE ask'[r].ctx = Min({DefaultCtx, backend[target].window})
      <4>1. disturbed' = disturbed /\ v.stage = "looking" /\ v.answer # Unknown BY <3>6 DEF LookUpModel, In
      <4>2. ask'[r] = Chosen(r, Ctx(Window(v.answer))) BY <2>1, <3>6 DEF LookUpModel
      <4>3. Told(v, backend, disturbed) /\ AskedBy(v) = target /\ clock <= v.sent + ReplyTime
        BY <2>1, <4>1 DEF Sane, Waiting, AskedBy
      <4>4. ~(disturbed[target] >= v.sent)
        <5>1. disturbed[target] \in Nat /\ v.sent \in Nat BY <2>1, <3>1 DEF AskRecords
        <5> QED BY <2>1, <2>3, <4>1, <4>3, <5>1, Numbers
      <4>5. v.answer = backend[target] BY <4>1, <4>3, <4>4 DEF Told
      <4> QED BY <3>3, <3>4, <4>2, <4>5, CtxIs
    <3>7. ASSUME LookUpFails(r) PROVE FALSE
      <4>1. Asked(r) = target /\ In(r, "looking") BY <3>7 DEF LookUpFails, Asked, In
      <4>2. disturbed'[target] = clock BY <2>1, <3>1, <3>7, <4>1 DEF LookUpFails, Disturbed
      <4> QED BY <2>1, <2>3, <4>2, Numbers
    <3>8. v.stage = "routed" \/ v.stage = "looking" BY <2>3 DEF In
    <3>9. ASSUME NEW q \in Askers \ {r}, NEW w, ask' = [ask EXCEPT ![q] = w] PROVE FALSE
      BY <2>1, <2>3, <3>8, <3>9
    <3>10. ask'[r] # ask[r] BY <2>3, <3>8
    <3>11. ASSUME NEW q \in Askers, q # r,
                  \/ Replies(q) \/ StartRoute(q) \/ Consider(q) \/ ListModels(q) \/ ListFails(q) \/ ListBreaks(q)
                  \/ Routed(q) \/ ChooseWindow(q) \/ LookUpModel(q) \/ LookUpFails(q) \/ Generate(q) \/ FailOver(q)
           PROVE  FALSE
      <4>1. ASSUME Replies(q) \/ StartRoute(q) \/ Routed(q) \/ FailOver(q) PROVE ask'[r] = ask[r]
        BY <2>1, <3>11, <4>1 DEF Replies, StartRoute, Routed, FailOver, Ends
      <4>2. ASSUME Consider(q) \/ ListModels(q) \/ ListFails(q) \/ ListBreaks(q) \/ Generate(q) PROVE ask'[r] = ask[r]
        BY <2>1, <3>11, <4>2 DEF Consider, ListModels, ListFails, ListBreaks, Generate, Ends
      <4>3. ASSUME ChooseWindow(q) \/ LookUpModel(q) \/ LookUpFails(q) PROVE ask'[r] = ask[r]
        BY <2>1, <3>11, <4>3 DEF ChooseWindow, LookUpModel, LookUpFails
      <4> QED BY <3>10, <3>11, <4>1, <4>2, <4>3
    <3>12. ASSUME Replies(r) PROVE FALSE
      <4>1. ask'[r].stage = v.stage BY <2>1, <3>12 DEF Replies, AskRecords
      <4> QED BY <2>3, <3>8, <4>1
    <3>13. ~StartRoute(r) /\ ~Consider(r) /\ ~ListModels(r) /\ ~ListFails(r) /\ ~ListBreaks(r) /\ ~Routed(r)
           /\ ~Generate(r) /\ ~FailOver(r)
      BY <3>8 DEF StartRoute, Consider, Checks, ListModels, ListFails, ListBreaks, Routed, Generate, FailOver, In
    <3>14. ~Passes /\ \A b \in Backends : ~Disturb(b) BY <3>10 DEF Passes, Disturb
    <3> QED BY <3>5, <3>6, <3>7, <3>11, <3>12, <3>13, <3>14 DEF RoutingNext
  <2> QED BY <2>2, <2>3
<1> QED
  BY <1>1, RoutingFromTheStart, RoutingStep, PTL DEF RoutingSpec, WindowsFit
=============================================================================
