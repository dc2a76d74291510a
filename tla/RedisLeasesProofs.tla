-------------------------- MODULE RedisLeasesProofs --------------------------
(***************************************************************************)
(* Proofs about RedisLeases.tla, for any number of tasks and any limit.    *)
(***************************************************************************)
EXTENDS RedisLeases, FiniteSetTheorems, TLAPS

Inv == LeaseTypeOK /\ NeverOverstated

\* Places a task is in between its INCR and its DECR.
OwingPlace == {"counted", "exceeding", "refusing", "admitted", "returning"}

\* Finitely many tasks owe a DECR, so their count is a number.
LEMMA OwingFinite == IsFiniteSet(Owing) /\ Cardinality(Owing) \in Nat
<1>1. Owing \subseteq Task
  BY DEF Owing
<1> QED
  BY <1>1, RedisLeasesAssumption, FS_Subset, FS_CardinalityType

\* The tasks in given places; Owing and Granted are two such sets.
Among(places) == {t \in Task : pc[t] \in places}
GrantedPlace == {"counted", "admitted"}
Granted == Among(GrantedPlace)

\* Those past their INCR by permission outnumber the limit by what is forgotten.
GrantsAreBounded == Cardinality(Granted) <= Limit + Forgotten

\* Finitely many tasks are in any places, so their count is a number.
LEMMA AmongFinite ==
  ASSUME NEW places
  PROVE  /\ IsFiniteSet(Among(places)) /\ Cardinality(Among(places)) \in Nat
         /\ Cardinality(Among(places)') \in Nat
<1>1. Among(places) \subseteq Task /\ Among(places)' \subseteq Task
  BY DEF Among
<1> QED
  BY <1>1, RedisLeasesAssumption, FS_Subset, FS_CardinalityType

\* A task that moves adds itself to those in given places, leaves them, or
\* changes nothing in them.
LEMMA AmongAfter ==
  ASSUME LeaseTypeOK, NEW t \in Task, NEW place \in LeasePlace, LeaseGoto(t, place), NEW places
  PROVE  /\ pc[t] \notin places /\ place \in places =>
              Cardinality(Among(places)') = Cardinality(Among(places)) + 1
         /\ pc[t] \in places /\ place \notin places =>
              Cardinality(Among(places)') = Cardinality(Among(places)) - 1
         /\ (pc[t] \in places <=> place \in places) =>
              Cardinality(Among(places)') = Cardinality(Among(places))
<1>1. /\ pc'[t] = place
      /\ \A x \in Task : x # t => pc'[x] = pc[x]
  BY DEF LeaseGoto, LeaseTypeOK
<1>2. ASSUME pc[t] \notin places, place \in places
      PROVE  Cardinality(Among(places)') = Cardinality(Among(places)) + 1
  <2>1. t \notin Among(places) /\ Among(places)' = Among(places) \cup {t}
    BY <1>1, <1>2 DEF Among
  <2> QED
    BY <2>1, AmongFinite, FS_AddElement
<1>3. ASSUME pc[t] \in places, place \notin places
      PROVE  Cardinality(Among(places)') = Cardinality(Among(places)) - 1
  <2>1. t \in Among(places) /\ Among(places)' = Among(places) \ {t}
    BY <1>1, <1>3 DEF Among
  <2> QED
    BY <2>1, AmongFinite, FS_RemoveElement
<1>4. ASSUME pc[t] \in places <=> place \in places
      PROVE  Cardinality(Among(places)') = Cardinality(Among(places))
  <2>1. Among(places)' = Among(places)
    BY <1>1, <1>4 DEF Among
  <2> QED
    BY <2>1
<1> QED
  BY <1>2, <1>3, <1>4

\* The same for the tasks that owe a DECR.
LEMMA OwingAfter ==
  ASSUME LeaseTypeOK, NEW t \in Task, NEW place \in LeasePlace, LeaseGoto(t, place)
  PROVE  /\ pc[t] \notin OwingPlace /\ place \in OwingPlace =>
              Cardinality(Owing') = Cardinality(Owing) + 1
         /\ pc[t] \in OwingPlace /\ place \notin OwingPlace =>
              Cardinality(Owing') = Cardinality(Owing) - 1
         /\ (pc[t] \in OwingPlace <=> place \in OwingPlace) =>
              Cardinality(Owing') = Cardinality(Owing)
<1>1. Owing = Among(OwingPlace) /\ Owing' = Among(OwingPlace)'
  BY DEF Owing, Among, OwingPlace
<1> QED
  BY <1>1, AmongAfter

\* It holds before the first INCR.
LEMMA InitInv == LeaseInit => Inv
<1> SUFFICES ASSUME LeaseInit PROVE Inv
  OBVIOUS
<1>1. LeaseTypeOK
  BY RedisLeasesAssumption DEF LeaseInit, LeaseTypeOK, LeasePlace
<1>2. Owing = {}
  BY DEF LeaseInit, Owing
<1> QED
  BY <1>1, <1>2, FS_EmptySet DEF Inv, NeverOverstated, LeaseInit

\* No command of a task and no expiry makes the counter overstate.
LEMMA NextInv == Inv /\ [LeaseNext]_leaseVars => Inv'
<1> SUFFICES ASSUME Inv, [LeaseNext]_leaseVars PROVE Inv'
  OBVIOUS
<1> USE DEF Inv
<1>1. /\ Cardinality(Owing) \in Nat /\ Cardinality(Owing') \in Nat
      /\ lost \in Nat /\ count \in Int
      /\ count <= Cardinality(Owing) + lost
  <2>1. Owing' \subseteq Task
    BY DEF Owing
  <2>2. Cardinality(Owing') \in Nat
    BY <2>1, RedisLeasesAssumption, FS_Subset, FS_CardinalityType
  <2> QED
    BY <2>2, OwingFinite, RedisLeasesAssumption DEF LeaseTypeOK, NeverOverstated
<1>2. ASSUME NEW t \in Task, Incr(t)
      PROVE  Inv'
  <2>1. PICK place \in {"exceeding", "counted"} : LeaseGoto(t, place)
    BY <1>2 DEF Incr
  <2>2. Cardinality(Owing') = Cardinality(Owing) + 1
    BY <1>2, <2>1, OwingAfter DEF Incr, OwingPlace, LeasePlace
  <2>3. LeaseTypeOK'
    BY <1>2, <2>1 DEF Incr, Add, LeaseGoto, LeaseTypeOK, LeasePlace
  <2> QED
    BY <1>1, <1>2, <2>2, <2>3 DEF Incr, Add, NeverOverstated
<1>3. ASSUME NEW t \in Task, Expire(t)
      PROVE  Inv'
  <2>1. PICK place \in {"admitted", "refusing"} : LeaseGoto(t, place)
    BY <1>3 DEF Expire
  <2>2. Cardinality(Owing') = Cardinality(Owing)
    BY <1>3, <2>1, OwingAfter DEF Expire, OwingPlace, LeasePlace
  <2>3. LeaseTypeOK'
    BY <1>3, <2>1 DEF Expire, LeaseGoto, LeaseTypeOK, LeasePlace
  <2> QED
    BY <1>1, <1>3, <2>2, <2>3 DEF Expire, NeverOverstated
<1>4. ASSUME NEW t \in Task, Refuse(t)
      PROVE  Inv'
  <2>1. Cardinality(Owing') = Cardinality(Owing) - 1
    BY <1>4, OwingAfter DEF Refuse, OwingPlace, LeasePlace
  <2>2. LeaseTypeOK'
    BY <1>4 DEF Refuse, Add, LeaseGoto, LeaseTypeOK, LeasePlace
  <2> QED
    BY <1>1, <1>4, <2>1, <2>2 DEF Refuse, Add, NeverOverstated
<1>5. ASSUME NEW t \in Task, Finish(t)
      PROVE  Inv'
  <2>1. Cardinality(Owing') = Cardinality(Owing)
    BY <1>5, OwingAfter DEF Finish, OwingPlace, LeasePlace
  <2>2. LeaseTypeOK'
    BY <1>5 DEF Finish, LeaseGoto, LeaseTypeOK, LeasePlace
  <2> QED
    BY <1>1, <1>5, <2>1, <2>2 DEF Finish, NeverOverstated
<1>6. ASSUME NEW t \in Task, Decr(t)
      PROVE  Inv'
  <2>1. PICK place \in {"deleting", "away"} : LeaseGoto(t, place)
    BY <1>6 DEF Decr
  <2>2. Cardinality(Owing') = Cardinality(Owing) - 1
    BY <1>6, <2>1, OwingAfter DEF Decr, OwingPlace, LeasePlace
  <2>3. LeaseTypeOK'
    BY <1>6, <2>1 DEF Decr, Add, LeaseGoto, LeaseTypeOK, LeasePlace
  <2> QED
    BY <1>1, <1>6, <2>2, <2>3 DEF Decr, Add, NeverOverstated
<1>7. ASSUME NEW t \in Task, Del(t)
      PROVE  Inv'
  <2>1. LeaseTypeOK'
    BY <1>7, RedisLeasesAssumption DEF Del, RemoveKey, LeaseGoto, LeaseTypeOK, LeasePlace
  <2> QED
    BY <1>1, <1>7, <2>1 DEF Del, RemoveKey, NeverOverstated
<1>8. ASSUME NEW t \in Task, Vanish(t)
      PROVE  Inv'
  <2>1. Cardinality(Owing') = Cardinality(Owing) - 1
    BY <1>8, OwingAfter DEF Vanish, OwingPlace, LeasePlace
  <2>2. LeaseTypeOK'
    BY <1>8, RedisLeasesAssumption DEF Vanish, LeaseGoto, LeaseTypeOK, LeasePlace
  <2> QED
    BY <1>1, <1>8, <2>1, <2>2 DEF Vanish, NeverOverstated
<1>9. CASE Tick
  <2>1. LeaseTypeOK'
    BY <1>9, RedisLeasesAssumption DEF Tick, RemoveKey, LeaseTypeOK
  <2>2. Owing' = Owing
    BY <1>9 DEF Tick, Owing
  <2> QED
    BY <1>1, <1>9, <2>1, <2>2 DEF Tick, RemoveKey, NeverOverstated
<1>10. CASE UNCHANGED leaseVars
  BY <1>10 DEF leaseVars, LeaseTypeOK, NeverOverstated, Owing
<1> QED
  BY <1>2, <1>3, <1>4, <1>5, <1>6, <1>7, <1>8, <1>9, <1>10 DEF LeaseNext, Finishing

\* Whatever the order of INCR, EXPIRE, DECR and DEL of any number of tasks, and
\* whatever crashes and expires between them, the counter never stands above the
\* leases that are out: a key is not refused for requests it no longer runs.
THEOREM CounterNeverOverstates == LeaseSpec => []NeverOverstated
<1>1. Inv => NeverOverstated
  BY DEF Inv
<1> QED
  BY <1>1, InitInv, NextInv, PTL DEF LeaseSpec

\* Granted tasks are some of those that owe a DECR.
LEMMA GrantedOwe == Cardinality(Granted) <= Cardinality(Owing)
<1>1. Granted \subseteq Owing
  BY DEF Granted, Among, GrantedPlace, Owing
<1> QED
  BY <1>1, OwingFinite, FS_Subset

\* No grant, refusal, release, wipe, loss or expiry breaks the bound on grants.
LEMMA NextGrants == Inv /\ Inv' /\ GrantsAreBounded /\ [LeaseNext]_leaseVars => GrantsAreBounded'
<1> SUFFICES ASSUME Inv, Inv', GrantsAreBounded, [LeaseNext]_leaseVars PROVE GrantsAreBounded'
  OBVIOUS
<1> USE DEF Inv
<1> DEFINE granted == Cardinality(Granted)
           owing == Cardinality(Owing)
<1> HIDE DEF granted, owing
<1>1. /\ owing \in Nat /\ owing' \in Nat /\ granted \in Nat /\ granted' \in Nat
      /\ count \in Int /\ count' \in Int /\ lost \in Nat /\ lost' \in Nat /\ Limit \in Nat
  <2>1. Owing = Among(OwingPlace) /\ Owing' = Among(OwingPlace)'
    BY DEF Owing, Among, OwingPlace
  <2> QED
    BY <2>1, AmongFinite, RedisLeasesAssumption DEF LeaseTypeOK, Granted, granted, owing
<1>2. granted <= Limit + owing + lost - count
  BY <1>1 DEF GrantsAreBounded, Forgotten, granted, owing
<1>3. granted' <= owing'
  <2>1. Granted' \subseteq Owing' /\ IsFiniteSet(Owing')
    <3>1. Owing' \subseteq Task /\ Granted' \subseteq Owing'
      BY DEF Granted, Among, GrantedPlace, Owing
    <3> QED
      BY <3>1, RedisLeasesAssumption, FS_Subset
  <2> QED
    BY <2>1, FS_Subset DEF granted, owing
<1>15. lost' = 0 /\ count' = 0 => granted' <= Limit + owing' + lost' - count'
  <2>1. PICK g \in Nat, o \in Nat : g = granted' /\ o = owing'
    BY <1>1
  <2>2. g <= o
    BY <1>3, <2>1
  <2>3. g <= Limit + o + 0 - 0
    BY <1>1, <2>2
  <2> QED
    BY <2>1, <2>3
<1>14. granted <= owing
  BY GrantedOwe DEF granted, owing
<1>4. SUFFICES granted' <= Limit + owing' + lost' - count'
  BY <1>1 DEF GrantsAreBounded, Forgotten, granted, owing
<1>5. ASSUME NEW t \in Task, NEW place \in LeasePlace, LeaseGoto(t, place)
      PROVE  /\ granted' = granted + (IF place \in GrantedPlace THEN 1 ELSE 0)
                                   - (IF pc[t] \in GrantedPlace THEN 1 ELSE 0)
             /\ owing' = owing + (IF place \in OwingPlace THEN 1 ELSE 0)
                               - (IF pc[t] \in OwingPlace THEN 1 ELSE 0)
  <2>1. /\ pc[t] \notin GrantedPlace /\ place \in GrantedPlace => granted' = granted + 1
        /\ pc[t] \in GrantedPlace /\ place \notin GrantedPlace => granted' = granted - 1
        /\ (pc[t] \in GrantedPlace <=> place \in GrantedPlace) => granted' = granted
    BY <1>5, AmongAfter DEF Granted, granted
  <2>2. /\ pc[t] \notin OwingPlace /\ place \in OwingPlace => owing' = owing + 1
        /\ pc[t] \in OwingPlace /\ place \notin OwingPlace => owing' = owing - 1
        /\ (pc[t] \in OwingPlace <=> place \in OwingPlace) => owing' = owing
    BY <1>5, OwingAfter DEF owing
  <2> QED
    BY <1>1, <2>1, <2>2
<1>6. ASSUME NEW t \in Task, Incr(t)
      PROVE  granted' <= Limit + owing' + lost' - count'
  <2>1. PICK place \in {"exceeding", "counted"} :
             LeaseGoto(t, place) /\ (place = "counted" => count' <= Limit)
    BY <1>1, <1>6 DEF Incr
  <2>2. granted' = granted + (IF place = "counted" THEN 1 ELSE 0) /\ owing' = owing + 1
    BY <1>1, <1>5, <1>6, <2>1 DEF Incr, GrantedPlace, OwingPlace, LeasePlace
  <2>3. lost' = lost /\ count' = count + 1
    BY <1>6 DEF Incr, Add
  <2> QED
    BY <1>1, <1>2, <1>14, <2>1, <2>2, <2>3
<1>7. ASSUME NEW t \in Task, Expire(t)
      PROVE  granted' <= Limit + owing' + lost' - count'
  <2>1. granted' = granted /\ owing' = owing /\ lost' = lost /\ count' = count
    BY <1>1, <1>5, <1>7 DEF Expire, GrantedPlace, OwingPlace, LeasePlace
  <2> QED
    BY <1>1, <1>2, <2>1
<1>8. ASSUME NEW t \in Task, Refuse(t) \/ Decr(t)
      PROVE  granted' <= Limit + owing' + lost' - count'
  <2>1. PICK place \in {"deleting", "away"} : LeaseGoto(t, place)
    BY <1>8 DEF Refuse, Decr
  <2>2. granted' = granted /\ owing' = owing - 1
    BY <1>1, <1>5, <1>8, <2>1 DEF Refuse, Decr, GrantedPlace, OwingPlace, LeasePlace
  <2>3. lost' = lost /\ count' = count - 1
    BY <1>1, <1>8 DEF Refuse, Decr, Add
  <2> QED
    BY <1>1, <1>2, <2>2, <2>3
<1>9. ASSUME NEW t \in Task, Finish(t)
      PROVE  granted' <= Limit + owing' + lost' - count'
  <2>1. granted' = granted - 1 /\ owing' = owing /\ lost' = lost /\ count' = count
    BY <1>1, <1>5, <1>9 DEF Finish, GrantedPlace, OwingPlace, LeasePlace
  <2> QED
    BY <1>1, <1>2, <2>1
<1>10. ASSUME NEW t \in Task, Del(t)
      PROVE  granted' <= Limit + owing' + lost' - count'
  <2>1. lost' = 0 /\ count' = 0
    BY <1>10 DEF Del, RemoveKey
  <2> QED
    BY <1>15, <2>1
<1>11. ASSUME NEW t \in Task, Vanish(t)
      PROVE  granted' <= Limit + owing' + lost' - count'
  <2>1. granted' <= granted /\ owing' = owing - 1
    BY <1>1, <1>5, <1>11 DEF Vanish, GrantedPlace, OwingPlace, LeasePlace
  <2>2. lost' = lost + 1 /\ count' = count
    BY <1>11 DEF Vanish
  <2> QED
    BY <1>1, <1>2, <2>1, <2>2
<1>12. CASE Tick
  <2>1. (lost' = lost /\ count' = count) \/ (lost' = 0 /\ count' = 0)
    BY <1>12 DEF Tick, RemoveKey
  <2>2. granted' = granted /\ owing' = owing
    BY <1>12 DEF Tick, Granted, Among, Owing, granted, owing
  <2>3. CASE lost' = lost /\ count' = count
    BY <1>1, <1>2, <2>2, <2>3
  <2>4. CASE lost' = 0 /\ count' = 0
    BY <1>15, <2>4
  <2> QED
    BY <2>1, <2>3, <2>4
<1>13. CASE UNCHANGED leaseVars
  <2>1. granted' = granted /\ owing' = owing /\ lost' = lost /\ count' = count
    BY <1>13 DEF leaseVars, Granted, Among, Owing, granted, owing
  <2> QED
    BY <1>1, <1>2, <2>1
<1> QED
  BY <1>6, <1>7, <1>8, <1>9, <1>10, <1>11, <1>12, <1>13 DEF LeaseNext, Finishing

\* A key runs more requests at once than its limit allows by no more than the
\* counter has forgotten: only a DEL or an expiry that wipes others' INCRs lets
\* too many in, for any number of workers and any limit.
THEOREM OverrunsAreForgottenLeases == LeaseSpec => []OverrunIsForgotten
<1>1. LeaseInit => GrantsAreBounded
  <2> SUFFICES ASSUME LeaseInit PROVE GrantsAreBounded
    OBVIOUS
  <2>1. Owing = {} /\ Granted = {}
    BY DEF LeaseInit, Owing, Granted, Among, GrantedPlace
  <2> QED
    BY <2>1, FS_EmptySet, RedisLeasesAssumption DEF LeaseInit, GrantsAreBounded, Forgotten
<1>2. Inv /\ GrantsAreBounded => OverrunIsForgotten
  <2> SUFFICES ASSUME Inv, GrantsAreBounded PROVE OverrunIsForgotten
    OBVIOUS
  <2>1. Admitted \subseteq Granted /\ IsFiniteSet(Granted) /\ Cardinality(Granted) \in Nat
    BY AmongFinite DEF Admitted, Granted, Among, GrantedPlace
  <2>2. Cardinality(Admitted) <= Cardinality(Granted) /\ Cardinality(Admitted) \in Nat
    BY <2>1, FS_Subset, FS_CardinalityType
  <2>3. Limit + Forgotten \in Int
    BY OwingFinite, RedisLeasesAssumption DEF Inv, LeaseTypeOK, Forgotten
  <2> QED
    BY <2>1, <2>2, <2>3 DEF GrantsAreBounded, OverrunIsForgotten
<1> QED
  BY <1>1, <1>2, InitInv, NextInv, NextGrants, PTL DEF LeaseSpec

=============================================================================
