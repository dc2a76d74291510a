---------------------------- MODULE GatewayProofs ----------------------------
(***************************************************************************)
(* Proofs about Gateway.tla and Memory.tla, for any number of keys,         *)
(* requests and turns and any length of the clock.                         *)
(***************************************************************************)
EXTENDS Gateway, Memory, FiniteSetTheorems, WellFoundedInduction, TLAPS

-----------------------------------------------------------------------------
(* Memory: the rolling summaries of a session.                              *)

\* A finite set of times that is not empty has a latest one, and Max is it.
LEMMA MaxIsThere ==
  ASSUME NEW S, \A n \in S : n \in Nat, IsFiniteSet(S), S # {}
  PROVE  Max(S) \in S /\ \A n \in S : n <= Max(S)
<1> DEFINE Above(n) == {m \in S : m > n}
<1> DEFINE T == {Above(n) : n \in S}
<1>1. T \subseteq FiniteSubsetsOf(S) /\ T # {}
  <2>1. \A n \in S : Above(n) \in SUBSET S
    OBVIOUS
  <2>2. \A n \in S : IsFiniteSet(Above(n))
    <3> HIDE DEF Above
    <3> QED
      BY <2>1, FS_Subset
  <2> QED
    BY <2>1, <2>2 DEF FiniteSubsetsOf
<1>2. IsWellFoundedOn(StrictSubsetOrdering(S), FiniteSubsetsOf(S))
  BY FS_StrictSubsetOrderingWellFounded
<1>3. PICK x \in T : \A y \in T : <<y, x>> \notin StrictSubsetOrdering(S)
  <2> HIDE DEF T
  <2> QED
    BY <1>1, <1>2, WFMin
<1>4. PICK top \in S : x = Above(top)
  BY <1>3
<1>5. ASSUME NEW n \in S, n > top
      PROVE  FALSE
  <2>0. n \in Nat /\ top \in Nat /\ \A m \in S : m \in Nat
    OBVIOUS
  <2>4. \A m \in S : m > n => m > top
    BY <1>5, <2>0
  <2>5. \A m : m \in Above(n) => m \in Above(top)
    BY <2>4
  <2>6. n \in Above(top) /\ n \notin Above(n)
    BY <1>5, <2>0
  <2>1. Above(n) \subseteq Above(top) /\ n \in Above(top) /\ n \notin Above(n)
    <3> HIDE DEF Above
    <3> QED
      BY <2>5, <2>6
  <2>2. <<Above(n), Above(top)>> \in StrictSubsetOrdering(S)
    <3>1. Above(n) \in SUBSET S /\ Above(top) \in SUBSET S
      OBVIOUS
    <3> HIDE DEF Above
    <3> QED
      BY <2>1, <3>1 DEF StrictSubsetOrdering
  <2>3. Above(n) \in T
    OBVIOUS
  <2> HIDE DEF Above
  <2> QED
    BY <1>3, <1>4, <2>2, <2>3
<1>6. \A n \in S : n <= top
  BY <1>5
<1> QED
  BY <1>6 DEF Max

\* The turns whose message is being written: it has its time and no row yet.
Writing == {t \in Turns : turn[t].step \in {"user written", "assistant written"}}

\* No two messages are of the same time.
TimesDiffer ==
    /\ \A t \in Writing : turn[t].at # 0 /\ \A m \in messages : m.at # turn[t].at
    /\ \A t, u \in Writing : turn[t].at = turn[u].at => t = u

\* The summaries there are, and those being made.
Told == summaries \union {turn[t].draft : t \in Turns}

\* A summary reaches as far as some message, and no further.
EndsAtAMessage == \A d \in Told : d.covers = 0 \/ \E m \in messages : m.at = d.covers

\* What it has put behind it, it tells.
ToldWhole == \A d \in Told : \A m \in messages : m.at <= d.covers /\ ~m.late => m.at \in d.content

\* One summary reaches furthest: the one latest() gives.
OneIsLatest == summaries # {} => \E s \in summaries : \A o \in summaries : o.covers <= s.covers

MemInv ==
    /\ MemoryTypeOK /\ IsFiniteSet(messages)
    /\ TimesDiffer /\ EndsAtAMessage /\ ToldWhole /\ OneIsLatest

\* What EndsAtAMessage and ToldWhole say of one summary.
Fine(d) ==
    /\ d \in Summaries
    /\ d.covers = 0 \/ \E m \in messages : m.at = d.covers
    /\ \A m \in messages : m.at <= d.covers /\ ~m.late => m.at \in d.content

\* The numbers in the state are numbers.
LEMMA Times ==
  ASSUME MemInv
  PROVE  /\ clock \in Nat
         /\ \A m \in messages : m.at \in Nat /\ m.at <= clock /\ m.at # 0
         /\ \A u \in Turns : turn[u].at \in Nat /\ turn[u].at <= clock
         /\ \A d \in Told : d \in Summaries /\ d.covers \in Nat
<1>1. clock \in Nat
  BY DEF MemInv, MemoryTypeOK
<1>2. \A m \in messages : m.at \in 1..clock
  BY DEF MemInv, MemoryTypeOK
<1>3. \A u \in Turns : turn[u].at \in 0..clock
  BY DEF MemInv, MemoryTypeOK
<1>4. \A d \in Told : d \in Summaries
  BY DEF MemInv, MemoryTypeOK, Told
<1>5. \A d \in Summaries : d.covers \in Nat
  BY DEF Summaries
<1> QED
  BY <1>1, <1>2, <1>3, <1>4, <1>5

\* What a turn that is over has in its hands.
LEMMA Over ==
  /\ [NewTurn EXCEPT !.step = "ended"] = [step |-> "ended", at |-> 0, draft |-> NoSummary]
  /\ NoSummary \in Summaries
  BY DEF NewTurn, NoSummary, Summaries

\* It holds before anything is recorded.
LEMMA MemInit == MemoryInit => MemInv
<1> SUFFICES ASSUME MemoryInit PROVE MemInv
  OBVIOUS
<1>1. MemoryTypeOK
  BY DEF MemoryInit, MemoryTypeOK, NewTurn, NoSummary, Summaries, Steps
<1>2. IsFiniteSet(messages)
  BY FS_EmptySet DEF MemoryInit
<1>3. TimesDiffer
  BY DEF MemoryInit, TimesDiffer, Writing, NewTurn
<1>4. EndsAtAMessage /\ ToldWhole /\ OneIsLatest
  BY DEF MemoryInit, EndsAtAMessage, ToldWhole, OneIsLatest, Told, NewTurn, NoSummary
<1> QED
  BY <1>1, <1>2, <1>3, <1>4 DEF MemInv

\* No summary at all is fine: every message is of a later time.
LEMMA NoSummaryFine == MemInv => Fine(NoSummary)
  BY DEF MemInv, MemoryTypeOK, Fine, NoSummary, Summaries

\* A turn that writes nothing goes on with a summary that is fine.
LEMMA DraftOnly ==
  ASSUME MemInv, NEW t \in Turns, UNCHANGED <<clock, messages, summaries>>,
         NEW v \in [step : Steps \ {"user written", "assistant written"},
                    at : 0..clock, draft : Summaries],
         Fine(v.draft), turn' = [turn EXCEPT ![t] = v]
  PROVE  MemInv'
<1>1. /\ turn'[t] = v /\ \A u \in Turns \ {t} : turn'[u] = turn[u]
      /\ DOMAIN turn' = Turns
  BY DEF MemInv, MemoryTypeOK
<1>2. MemoryTypeOK'
  BY DEF MemInv, MemoryTypeOK
<1>3. TimesDiffer'
  <2>1. Writing' \subseteq Writing /\ t \notin Writing'
    BY <1>1 DEF Writing
  <2>2. \A u \in Writing' : turn'[u] = turn[u]
    BY <1>1, <2>1 DEF Writing
  <2> QED
    BY <2>1, <2>2 DEF MemInv, TimesDiffer
<1>4. Told' \subseteq Told \union {v.draft}
  BY <1>1 DEF Told
<1>5. EndsAtAMessage' /\ ToldWhole'
  BY <1>4 DEF MemInv, EndsAtAMessage, ToldWhole, Fine
<1>6. OneIsLatest'
  BY DEF MemInv, OneIsLatest
<1> QED
  BY <1>2, <1>3, <1>5, <1>6 DEF MemInv

\* add_message takes a time nobody had.
LEMMA StampInv ==
  ASSUME MemInv, NEW t \in Turns, NEW from, NEW to \in Steps, Stamp(t, from, to)
  PROVE  MemInv'
<1>0. clock' = clock + 1 /\ UNCHANGED <<messages, summaries>>
  BY DEF Stamp
<1>1. /\ turn'[t] = [turn[t] EXCEPT !.step = to, !.at = clock + 1]
      /\ \A u \in Turns \ {t} : turn'[u] = turn[u]
      /\ DOMAIN turn' = Turns
  BY DEF Stamp, MemInv, MemoryTypeOK
<1>2. \A u \in Turns : turn[u] \in [step : Steps, at : 0..clock, draft : Summaries]
  BY DEF MemInv, MemoryTypeOK
<1>3. turn'[t].at = clock + 1 /\ turn'[t].draft = turn[t].draft /\ turn'[t].step = to
  BY <1>1, <1>2
<1>4. MemoryTypeOK'
  <2>1. 0..clock \subseteq 0..(clock + 1) /\ clock + 1 \in 0..(clock + 1) /\ clock + 1 \in Nat
        /\ 1..clock \subseteq 1..(clock + 1)
    BY Times
  <2>2. messages \in SUBSET [at : 1..(clock + 1), late : BOOLEAN]
    BY <2>1 DEF MemInv, MemoryTypeOK
  <2>3. \A u \in Turns : turn'[u] \in [step : Steps, at : 0..(clock + 1), draft : Summaries]
    <3>1. \A u \in Turns : turn[u] \in [step : Steps, at : 0..(clock + 1), draft : Summaries]
      BY <1>2, <2>1
    <3>2. turn'[t] \in [step : Steps, at : 0..(clock + 1), draft : Summaries]
      BY <1>1, <2>1, <3>1
    <3> QED
      BY <1>1, <3>1, <3>2
  <2>4. turn' \in [Turns -> [step : Steps, at : 0..(clock + 1), draft : Summaries]]
    BY <1>1, <2>3 DEF Stamp, MemInv, MemoryTypeOK
  <2> QED
    BY <1>0, <2>1, <2>2, <2>4 DEF MemInv, MemoryTypeOK
<1>5. TimesDiffer'
  <2>1. Writing' \subseteq Writing \union {t}
    BY <1>1 DEF Writing
  <2>2. \A m \in messages : m.at # clock + 1
    BY Times
  <2>3. \A u \in Turns : turn[u].at # clock + 1
    BY Times
  <2>4. clock + 1 # 0
    BY Times
  <2>5. \A u \in Writing' : u = t \/ (u \in Writing /\ turn'[u] = turn[u])
    BY <1>1, <2>1 DEF Writing
  <2>6. \A u \in Writing : u \in Turns
    BY DEF Writing
  <2>7. ASSUME NEW u \in Writing'
        PROVE  turn'[u].at # 0 /\ \A m \in messages' : m.at # turn'[u].at
    BY <1>0, <1>3, <2>2, <2>4, <2>5 DEF MemInv, TimesDiffer
  <2>8. ASSUME NEW u \in Writing', NEW w \in Writing', turn'[u].at = turn'[w].at
        PROVE  u = w
    BY <1>3, <2>3, <2>5, <2>6, <2>8 DEF MemInv, TimesDiffer
  <2> QED
    BY <2>7, <2>8 DEF TimesDiffer
<1>6. Told' = Told
  BY <1>0, <1>1, <1>3 DEF Told
<1>7. EndsAtAMessage' /\ ToldWhole' /\ OneIsLatest'
  BY <1>0, <1>6 DEF MemInv, EndsAtAMessage, ToldWhole, OneIsLatest
<1> QED
  BY <1>0, <1>4, <1>5, <1>7 DEF MemInv

\* The row is committed: a message a summary has gone past already is late.
LEMMA CommitInv ==
  ASSUME MemInv, NEW t \in Writing, NEW from, NEW to \in Steps, Commit(t, from, to),
         t \notin Writing'
  PROVE  MemInv'
<1> DEFINE new == [at |-> turn[t].at, late |-> \E m \in messages : m.at > turn[t].at]
<1>0. t \in Turns /\ messages' = messages \union {new} /\ UNCHANGED <<clock, summaries>>
  BY DEF Commit, Writing
<1>1. /\ turn' \in [Turns -> [step : Steps, at : 0..clock, draft : Summaries]]
      /\ \A u \in Turns : turn'[u].at = turn[u].at /\ turn'[u].draft = turn[u].draft
      /\ \A u \in Turns \ {t} : turn'[u] = turn[u]
  BY <1>0 DEF Commit, Step, MemInv, MemoryTypeOK
<1>2. turn[t].at \in Nat /\ turn[t].at # 0 /\ turn[t].at <= clock
  <2>1. turn[t].at # 0
    BY DEF MemInv, TimesDiffer
  <2> QED
    BY <1>0, <2>1, Times
<1>3. MemoryTypeOK' /\ IsFiniteSet(messages')
  <2>1. new \in [at : 1..clock, late : BOOLEAN]
    <3>1. turn[t].at \in 1..clock
      BY <1>2, Times
    <3> QED
      BY <3>1
  <2>2. IsFiniteSet(messages')
    BY <1>0, FS_AddElement DEF MemInv
  <2> QED
    BY <1>0, <1>1, <2>1, <2>2 DEF MemInv, MemoryTypeOK
<1>4. TimesDiffer'
  <2>1. Writing' \subseteq Writing
    BY <1>1 DEF Writing
  <2>2. \A u \in Writing' : u \in Turns /\ turn'[u].at = turn[u].at
    BY <1>1, <2>1 DEF Writing
  <2>3. \A u \in Writing' : turn[u].at # new.at
    BY <2>1 DEF MemInv, TimesDiffer
  <2> HIDE DEF new
  <2> QED
    BY <1>0, <2>1, <2>2, <2>3 DEF MemInv, TimesDiffer
<1>5. Told' = Told
  BY <1>0, <1>1 DEF Told
<1>6. EndsAtAMessage'
  BY <1>0, <1>5 DEF MemInv, EndsAtAMessage
<1>7. \A d \in Told : new.at <= d.covers => new.late
  <2> SUFFICES ASSUME NEW d \in Told, turn[t].at <= d.covers
               PROVE  \E m \in messages : m.at > turn[t].at
    OBVIOUS
  <2>1. PICK m \in messages : m.at = d.covers
    <3>1. d.covers # 0
      BY <1>2, Times
    <3> QED
      BY <3>1 DEF MemInv, EndsAtAMessage
  <2>2. m.at # turn[t].at
    BY DEF MemInv, TimesDiffer
  <2>3. m.at \in Nat /\ turn[t].at <= m.at
    BY <2>1, Times
  <2> QED
    BY <1>2, <2>2, <2>3
<1> HIDE DEF new
<1>8. ToldWhole'
  BY <1>0, <1>5, <1>7 DEF MemInv, ToldWhole
<1>9. OneIsLatest'
  BY <1>0 DEF MemInv, OneIsLatest
<1> QED
  BY <1>3, <1>4, <1>6, <1>8, <1>9 DEF MemInv

\* The summary latest() gives is one there is, and reaches furthest.
LEMMA LatestIsThere ==
  ASSUME MemInv
  PROVE  /\ Fine(Latest)
         /\ summaries # {} => Latest \in summaries /\ \A o \in summaries : o.covers <= Latest.covers
<1>1. CASE summaries = {}
  BY <1>1, NoSummaryFine DEF Latest
<1>2. CASE summaries # {}
  <2>1. Latest \in summaries /\ \A o \in summaries : o.covers <= Latest.covers
    BY <1>2 DEF Latest, MemInv, OneIsLatest
  <2>2. Fine(Latest)
    BY <2>1 DEF MemInv, MemoryTypeOK, EndsAtAMessage, ToldWhole, Told, Fine
  <2> QED
    BY <2>1, <2>2
<1> QED
  BY <1>1, <1>2

\* The summary the model is asked for tells everything up to where it reaches:
\* what the one before told, and every later message but the live tail.
LEMMA DraftIsFine ==
  ASSUME MemInv, NEW t \in Turns, NEW pending, pending = MessagesAfter(turn[t].draft.covers),
         Due(pending), NEW content,
         content = turn[t].draft.content \union {m.at : m \in ToSummarize(pending)}
  PROVE  Fine([covers |-> CoversUntil(pending), content |-> content])
<1> DEFINE folded == ToSummarize(pending)
<1> DEFINE times == {m.at : m \in folded}
<1> DEFINE top == CoversUntil(pending)
<1>1. pending \subseteq messages /\ folded \subseteq pending /\ folded # {} /\ IsFiniteSet(pending)
  <2>1. pending \subseteq messages
    BY DEF MessagesAfter
  <2>2. IsFiniteSet(pending)
    BY <2>1, FS_Subset DEF MemInv
  <2> QED
    BY <2>1, <2>2 DEF ToSummarize, Due
<1>2. \A m \in messages : m.at \in Nat
  BY DEF MemInv, MemoryTypeOK
<1>3. top \in times /\ \A n \in times : n <= top
  <2>1. (\A n \in times : n \in Nat) /\ times # {} /\ IsFiniteSet(folded)
    BY <1>1, <1>2, FS_Subset
  <2>2. IsFiniteSet(times)
    <3> DEFINE time == [m \in folded |-> m.at]
    <3>1. times = {time[m] : m \in folded}
      OBVIOUS
    <3>2. time \in Surjection(folded, times)
      BY <3>1 DEF Surjection
    <3> HIDE DEF folded, time, times
    <3> QED
      BY <2>1, <3>2, FS_Surjection
  <2>3. top = Max(times)
    BY DEF CoversUntil
  <2> HIDE DEF times, top
  <2> QED
    BY <2>1, <2>2, <2>3, MaxIsThere
<1>4. PICK last \in folded : last.at = top
  BY <1>3
<1>5. ASSUME NEW m \in pending, m.at <= top
      PROVE  m \in folded
  <2> DEFINE Later(x) == {n \in pending : n.at > x.at}
  <2>1. \A x \in pending : IsFiniteSet(Later(x)) /\ Cardinality(Later(x)) \in Nat
    <3>1. \A x \in pending : Later(x) \subseteq pending
      OBVIOUS
    <3> HIDE DEF Later
    <3> QED
      BY <3>1, <1>1, FS_Subset, FS_CardinalityType
  <2>2. Later(last) \subseteq Later(m)
    BY <1>1, <1>2, <1>4, <1>5
  <2>3. last \in pending /\ Cardinality(Later(last)) >= KeepRecent
    BY <1>1 DEF ToSummarize
  <2>4. Cardinality(Later(last)) <= Cardinality(Later(m))
    <3> HIDE DEF Later
    <3> QED
      BY <2>1, <2>2, FS_Subset
  <2>5. Cardinality(Later(m)) >= KeepRecent
    <3> HIDE DEF Later
    <3> QED
      BY <2>1, <2>3, <2>4, MemoryAssumption
  <2> QED
    BY <2>5 DEF ToSummarize
<1> HIDE DEF folded, times, top
<1>6. top \in Nat /\ content \in SUBSET Nat
  <2>1. turn[t].draft.content \in SUBSET Nat
    BY DEF MemInv, MemoryTypeOK, Summaries
  <2> QED
    BY <2>1, <1>1, <1>2, <1>4 DEF folded
<1>7. ASSUME NEW m \in messages, m.at <= top, ~m.late
      PROVE  m.at \in content
  <2> DEFINE old == turn[t].draft
  <2>1. old \in Told /\ old.covers \in Nat
    BY DEF Told, MemInv, MemoryTypeOK, Summaries
  <2>2. CASE m.at <= old.covers
    BY <1>7, <2>1, <2>2 DEF MemInv, ToldWhole
  <2>3. CASE m.at > old.covers
    <3>1. m \in pending
      BY <2>3 DEF MessagesAfter
    <3>2. m \in folded
      BY <3>1, <1>5, <1>7
    <3> QED
      BY <3>2 DEF folded
  <2> QED
    BY <1>2, <2>1, <2>2, <2>3
<1>8. \E m \in messages : m.at = top
  BY <1>1, <1>4
<1> QED
  BY <1>6, <1>7, <1>8 DEF Fine, Summaries, top

\* The summary made is written: it or the latest one reaches furthest now.
LEMMA AddInv ==
  ASSUME MemInv, NEW t \in Turns, AddSummary(t)
  PROVE  MemInv'
<1> DEFINE new == turn[t].draft
<1> DEFINE ended == [NewTurn EXCEPT !.step = "ended"]
<1>1. /\ summaries' = summaries \union {new} /\ UNCHANGED <<clock, messages>>
      /\ turn' = [turn EXCEPT ![t] = ended]
  BY DEF AddSummary
<1>2. /\ ended \in [step : Steps, at : 0..clock, draft : Summaries]
      /\ ended.step = "ended" /\ ended.draft = NoSummary
  <2>1. 0 \in 0..clock
    BY Times
  <2> QED
    BY <2>1, Over DEF Steps
<1> HIDE DEF ended
<1>3. turn'[t] = ended /\ \A u \in Turns \ {t} : turn'[u] = turn[u]
  BY <1>1 DEF MemInv, MemoryTypeOK
<1>4. new \in Summaries /\ new \in Told /\ summaries \subseteq Told
  BY DEF MemInv, MemoryTypeOK, Told
<1>5. MemoryTypeOK'
  BY <1>1, <1>2, <1>4 DEF MemInv, MemoryTypeOK
<1>6. TimesDiffer'
  <2>1. Writing' \subseteq Writing /\ t \notin Writing'
    BY <1>2, <1>3 DEF Writing
  <2> QED
    BY <1>1, <1>3, <2>1 DEF MemInv, TimesDiffer
<1>7. Told' \subseteq Told \union {NoSummary}
  BY <1>1, <1>2, <1>3, <1>4 DEF Told
<1>8. EndsAtAMessage' /\ ToldWhole'
  BY <1>1, <1>7, NoSummaryFine DEF MemInv, EndsAtAMessage, ToldWhole, Fine
<1>9. OneIsLatest'
  <2>1. \A s \in summaries \union {new} : s.covers \in Nat
    BY <1>4 DEF MemInv, MemoryTypeOK, Summaries
  <2>2. CASE summaries = {}
    BY <1>1, <2>1, <2>2 DEF OneIsLatest
  <2>3. CASE summaries # {}
    <3>1. PICK s \in summaries : \A o \in summaries : o.covers <= s.covers
      BY <2>3 DEF MemInv, OneIsLatest
    <3>2. CASE new.covers <= s.covers
      BY <1>1, <3>1, <3>2 DEF OneIsLatest
    <3>3. CASE s.covers <= new.covers
      BY <1>1, <2>1, <3>1, <3>3 DEF OneIsLatest
    <3> QED
      BY <2>1, <3>2, <3>3
  <2> QED
    BY <2>2, <2>3
<1> QED
  BY <1>1, <1>5, <1>6, <1>8, <1>9 DEF MemInv

\* Every step of every turn keeps the invariant.
LEMMA MemNext ==
  ASSUME MemInv, [MemoryNext]_memoryVars
  PROVE  MemInv'
<1> DEFINE Quiet == [step : Steps \ {"user written", "assistant written"}, at : 0..clock,
                     draft : Summaries]
<1>1. ASSUME NEW t \in Turns, RecordTurn(t)
      PROVE  MemInv'
  <2>0. /\ turn[t] \in [step : Steps, at : 0..clock, draft : Summaries]
        /\ Fine(turn[t].draft)
    BY DEF MemInv, MemoryTypeOK, Fine, EndsAtAMessage, ToldWhole, Told
  <2>1. CASE StampUser(t) \/ StampAssistant(t)
    BY <2>1, StampInv DEF StampUser, StampAssistant, Steps
  <2>2. CASE CommitUser(t) \/ CommitAssistant(t)
    <3>1. t \in Writing
      BY <2>2 DEF CommitUser, CommitAssistant, Commit, Step, Writing
    <3>2. t \notin Writing'
      BY <2>2 DEF CommitUser, CommitAssistant, Commit, Step, Writing, MemInv, MemoryTypeOK
    <3> QED
      BY <2>2, <3>1, <3>2, CommitInv DEF CommitUser, CommitAssistant, Steps
  <2>3. CASE ReadLatest(t)
    <3> DEFINE v == [turn[t] EXCEPT !.step = "asked", !.draft = Latest]
    <3>1. turn' = [turn EXCEPT ![t] = v]
      BY <2>3, <2>0 DEF ReadLatest, MemInv, MemoryTypeOK
    <3>2. v \in Quiet /\ v.draft = Latest
      BY <2>0, LatestIsThere DEF Fine, Steps
    <3> HIDE DEF v
    <3> QED
      BY <2>3, <3>1, <3>2, LatestIsThere, DraftOnly DEF ReadLatest
  <2>4. CASE turn' = [turn EXCEPT ![t] = [NewTurn EXCEPT !.step = "ended"]]
             /\ UNCHANGED <<clock, messages, summaries>>
    <3> DEFINE v == [NewTurn EXCEPT !.step = "ended"]
    <3>1. v \in Quiet /\ v.draft = NoSummary
      <4>1. 0 \in 0..clock
        BY Times
      <4> QED
        BY <4>1, Over DEF Steps
    <3> HIDE DEF v
    <3> QED
      BY <2>4, <3>1, NoSummaryFine, DraftOnly DEF v
  <2>5. CASE ReadPending(t)
    <3>1. PICK pending : pending = MessagesAfter(turn[t].draft.covers)
      OBVIOUS
    <3>2. PICK content :
             content = turn[t].draft.content \union {m.at : m \in ToSummarize(pending)}
      OBVIOUS
    <3>3. CASE Due(pending)
      <4> DEFINE d == [covers |-> CoversUntil(pending), content |-> content]
      <4> DEFINE v == [turn[t] EXCEPT !.step = "summarised", !.draft = d]
      <4>1. Fine(d)
        BY <3>1, <3>2, <3>3, DraftIsFine
      <4> HIDE DEF d
      <4>2. v \in Quiet /\ v.draft = d
        BY <2>0, <4>1 DEF Fine, Steps
      <4>3. turn' = [turn EXCEPT ![t] = v]
        BY <2>5, <2>0, <3>1, <3>2, <3>3 DEF ReadPending, MemInv, MemoryTypeOK, d
      <4> HIDE DEF v
      <4> QED
        BY <2>5, <4>1, <4>2, <4>3, DraftOnly DEF ReadPending
    <3>4. CASE ~Due(pending)
      BY <2>4, <2>5, <3>1, <3>4 DEF ReadPending
    <3> QED
      BY <3>3, <3>4
  <2>6. CASE AddSummary(t)
    BY <2>6, AddInv
  <2>7. CASE EndTurn(t)
    BY <2>4, <2>7 DEF EndTurn
  <2> QED
    BY <1>1, <2>1, <2>2, <2>3, <2>5, <2>6, <2>7 DEF RecordTurn
<1>2. CASE UNCHANGED memoryVars
  BY <1>2 DEF memoryVars, MemInv, MemoryTypeOK, TimesDiffer, Writing, EndsAtAMessage,
     ToldWhole, Told, OneIsLatest
<1> QED
  BY <1>1, <1>2 DEF MemoryNext

\* However many turns of a session end together, the summary that is recalled tells
\* of every message that any summary has put behind it.
THEOREM NothingIsForgotten == MemorySpec => []SummariesKeepThePast
<1>1. MemInv => SummariesKeepThePast
  <2> SUFFICES ASSUME MemInv, NEW s \in summaries, NEW m \in messages,
                      m.at <= s.covers, ~m.late
               PROVE  m.at \in Latest.content
    BY DEF SummariesKeepThePast
  <2>1. Fine(Latest) /\ s.covers <= Latest.covers
    BY LatestIsThere
  <2>2. m.at \in Nat /\ s.covers \in Nat /\ Latest.covers \in Nat
    BY <2>1 DEF MemInv, MemoryTypeOK, Summaries, Fine
  <2> QED
    BY <2>1, <2>2 DEF Fine
<1>2. MemInv /\ [MemoryNext]_memoryVars => MemInv'
  BY MemNext
<1> QED
  BY <1>1, <1>2, MemInit, PTL DEF MemorySpec

-----------------------------------------------------------------------------
(* Gateway: the requests, the limiter, the cache and the records.           *)

UsageRecords == [by : Requests, at : Nat, cached : BOOLEAN]
EntryRecords == [for : Keys \X Questions \X Nat, at : Nat, from : Requests]
AKey == Keys \union {None}
AQuestion == Questions \union {None}
AQuota == Quotas \union {NoQuota}
ARequest == Requests \union {None}
RequestRecords ==
    [stage : Stages, key : AKey, chat : BOOLEAN, question : AQuestion, quota : AQuota,
     store : BOOLEAN, at : Nat, base : Nat, period : Int, recalled : Nat, from : ARequest,
     made : Int]

\* A request that is under way has a key, and a chat has a question; what is cached
\* is still what was answered, and only what has been billed has a record.
Fit(e) ==
    LET s == e.from
    IN /\ e.for = <<req[s].key, req[s].question, req[s].recalled>>
       /\ e.at = req[s].made /\ req[s].chat
       /\ At(s, "answered") \/ At(s, "billed") \/ At(s, "broken")
FitEntries == {e \in EntryRecords : Fit(e)}
EndedRecords == {u \in UsageRecords : At(u.by, "billed")}
GateTyped ==
    /\ now \in Nat
    /\ hits \in [Keys -> Seq(Nat)] /\ memory \in [Keys -> Nat]
    /\ key \in [Keys -> [revoked : BOOLEAN, expires : Nat, quota : AQuota, store : BOOLEAN]]
    /\ req \in [Requests -> RequestRecords]
    /\ usage \in Seq(EndedRecords)
    /\ entries \in Seq(FitEntries)
Waiting(v) == v.stage = "known" \/ v.stage = "accepted" \/ v.stage = "asking"
Good(v) ==
    /\ v.at <= now
    /\ v.store => v.chat
    /\ v.stage = "idle" => v = Idle
    /\ Waiting(v) => v.question \in Questions /\ v.from = None
    /\ Waiting(v) \/ v.stage = "answered" => v.key \in Keys
    /\ v.stage = "refused" \/ v.stage = "failed" => v.from = None
Asked == \A r \in Requests : Good(req[r])

-----------------------------------------------------------------------------
(* Sequences.                                                               *)

LEMMA NewestIn ==
  ASSUME NEW S, NEW s \in Seq(S)
  PROVE  Newest(s) \in Seq(S)
<1>1. Capacity \in Nat /\ Len(s) \in Nat
  BY GatewayAssumption
<1>2. PICK n : n = Min({Len(s), Capacity})
  OBVIOUS
<1>3. n \in Nat /\ n <= Len(s)
  <2>1. CASE Len(s) <= Capacity
    <3>1. \E x \in {Len(s), Capacity} : \A y \in {Len(s), Capacity} : x =< y
      BY <1>1, <2>1
    <3> QED
      BY <1>1, <1>2, <2>1, <3>1 DEF Min
  <2>2. CASE ~(Len(s) <= Capacity)
    <3>1. \E x \in {Len(s), Capacity} : \A y \in {Len(s), Capacity} : x =< y
      BY <1>1, <2>2
    <3> QED
      BY <1>1, <1>2, <2>2, <3>1 DEF Min
  <2> QED
    BY <2>1, <2>2
<1>4. SubSeq(s, Len(s) - n + 1, Len(s)) \in Seq(S)
  <2>1. PICK a \in Nat \ {0} : a = Len(s) - n + 1
    BY <1>1, <1>3
  <2>2. \A i \in a..Len(s) : s[i] \in S
    BY <2>1
  <2> QED
    BY <2>1, <2>2
<1> QED
  BY <1>2, <1>4 DEF Newest

LEMMA WithoutIn ==
  ASSUME NEW S, entries \in Seq(S), NEW c
  PROVE  Without(c) \in Seq(S)
<1>1. CASE Entry(c) = {}
  BY <1>1 DEF Without
<1>2. CASE Entry(c) # {}
  <2>1. PICK i \in DOMAIN entries : i = CHOOSE j \in Entry(c) : TRUE
    BY <1>2 DEF Entry
  <2>2. SubSeq(entries, 1, i - 1) \in Seq(S) /\ SubSeq(entries, i + 1, Len(entries)) \in Seq(S)
    OBVIOUS
  <2> QED
    BY <1>2, <2>1, <2>2 DEF Without, RemoveAt
<1> QED
  BY <1>1, <1>2

LEMMA SeqGrows ==
  ASSUME NEW S, NEW T, S \subseteq T, NEW s \in Seq(S)
  PROVE  s \in Seq(T)
OBVIOUS

\* The hits of a key that are still in the window.
LEMMA LiveHits ==
  ASSUME NEW times \in Seq(Nat), now \in Nat
  PROVE  /\ Gone(times) \in 0..Len(times)
         /\ Gone(times) > 0 => times[Gone(times)] <= now - Window
         /\ Live(times) \in Seq(Nat) /\ Len(Live(times)) = Len(times) - Gone(times)
         /\ \A n \in 1..Len(Live(times)) : Live(times)[n] = times[n + Gone(times)]
<1> DEFINE S == {0} \union {i \in DOMAIN times : times[i] <= now - Window}
<1>1. IsFiniteSet(S)
  <2>1. IsFiniteSet(0..Len(times))
    BY FS_Interval
  <2>2. S \in SUBSET (0..Len(times))
    OBVIOUS
  <2> HIDE DEF S
  <2> QED
    BY <2>1, <2>2, FS_Subset
<1>2. Max(S) \in S
  <2>1. \A n \in S : n \in Nat
    OBVIOUS
  <2>2. S # {}
    OBVIOUS
  <2> HIDE DEF S
  <2> QED
    BY <1>1, <2>1, <2>2, MaxIsThere
<1>3. Gone(times) = Max(S)
  BY DEF Gone
<1>4. Gone(times) \in S
  BY <1>2, <1>3
<1>5. Gone(times) \in 0..Len(times) /\ (Gone(times) > 0 => times[Gone(times)] <= now - Window)
  BY <1>4
<1>6. PICK d \in 0..Len(times) : d = Gone(times)
  BY <1>5
<1>7. /\ SubSeq(times, d + 1, Len(times)) \in Seq(Nat)
      /\ Len(SubSeq(times, d + 1, Len(times))) = Len(times) - d
      /\ \A n \in 1..(Len(times) - d) : SubSeq(times, d + 1, Len(times))[n] = times[n + d]
  OBVIOUS
<1> QED
  BY <1>5, <1>6, <1>7 DEF Live
-----------------------------------------------------------------------------
(* What a handler does to its own request once the limiter has let it pass.  *)

Arrived(v) == v.stage # "idle" /\ v.stage # "refused"
Cached(v) == v.stage = "answered" \/ v.stage = "billed" \/ v.stage = "broken"
\* The request stays the one that arrived; a reply that may be in the cache is kept.
Continues(v, w) ==
    /\ w \in RequestRecords /\ Good(w)
    /\ Arrived(v) /\ Arrived(w) /\ w.key = v.key /\ w.at = v.at
    /\ v.stage # "billed"
    /\ Cached(v) => /\ Cached(w) /\ w.chat = v.chat /\ w.made = v.made
                    /\ w.question = v.question /\ w.recalled = v.recalled
\* It is held to the quota that it was checked against.
Checked(v) == v.stage = "accepted" \/ v.stage = "asking" \/ v.stage = "answered"
SameCheck(v, w) == Checked(w) => /\ Checked(v) /\ w.key = v.key /\ w.quota = v.quota
                                 /\ w.base = v.base /\ w.period = v.period
GoesOn(v, w) == Continues(v, w) /\ w.stage # "billed" /\ SameCheck(v, w)
Goes(r, w) == req' = [req EXCEPT ![r] = w]

LEMMA Requested ==
  ASSUME GateTyped, Asked, NEW r \in Requests
  PROVE  req[r] \in RequestRecords /\ Good(req[r]) /\ now \in Nat
BY DEF GateTyped, Asked

LEMMA Options ==
  /\ None \in AKey /\ None \in AQuestion /\ None \in ARequest /\ NoQuota \in AQuota
  /\ Keys \subseteq AKey /\ Questions \subseteq AQuestion /\ Requests \subseteq ARequest
BY DEF AKey, AQuestion, ARequest, AQuota

LEMMA StageNames ==
  /\ "idle" \in Stages /\ "known" \in Stages /\ "accepted" \in Stages /\ "asking" \in Stages
  /\ "answered" \in Stages /\ "billed" \in Stages /\ "spoken" \in Stages
  /\ "refused" \in Stages /\ "failed" \in Stages /\ "broken" \in Stages
BY DEF Stages

LEMMA Fields ==
  ASSUME NEW v \in RequestRecords
  PROVE  /\ v.stage \in Stages /\ v.key \in AKey /\ v.chat \in BOOLEAN
         /\ v.question \in AQuestion /\ v.quota \in AQuota /\ v.store \in BOOLEAN
         /\ v.at \in Nat /\ v.base \in Nat /\ v.period \in Int /\ v.recalled \in Nat
         /\ v.from \in ARequest /\ v.made \in Int
BY DEF RequestRecords

LEMMA IsRequest ==
  ASSUME NEW v \in RequestRecords, NEW w, w = [x \in DOMAIN v |-> w[x]],
         w.stage \in Stages, w.key \in AKey, w.chat \in BOOLEAN, w.question \in AQuestion,
         w.quota \in AQuota, w.store \in BOOLEAN, w.at \in Nat, w.base \in Nat, w.period \in Int,
         w.recalled \in Nat, w.from \in ARequest, w.made \in Int
  PROVE  w \in RequestRecords
BY DEF RequestRecords

LEMMA IdleFields ==
  /\ Idle \in RequestRecords /\ Idle.stage = "idle" /\ Idle.key = None /\ ~Idle.chat
  /\ Idle.question = None /\ Idle.quota = NoQuota /\ ~Idle.store /\ Idle.at = 0
  /\ Idle.base = 0 /\ Idle.period = -1 /\ Idle.recalled = 0 /\ Idle.from = None /\ Idle.made = -1
<1>1. /\ Idle.stage = "idle" /\ Idle.key = None /\ Idle.chat = FALSE
      /\ Idle.question = None /\ Idle.quota = NoQuota /\ Idle.store = FALSE /\ Idle.at = 0
      /\ Idle.base = 0 /\ Idle.period = -1 /\ Idle.recalled = 0 /\ Idle.from = None
      /\ Idle.made = -1
  BY DEF Idle, Never
<1>2. Idle \in RequestRecords
  BY Options, StageNames DEF Idle, RequestRecords, Never
<1> QED
  BY <1>1, <1>2

LEMMA FailMoves ==
  ASSUME GateTyped, Asked, NEW r \in Requests, Fail(r),
         At(r, "known") \/ At(r, "accepted") \/ At(r, "asking")
  PROVE  \E w : Goes(r, w) /\ GoesOn(req[r], w)
<1>1. PICK v \in RequestRecords : v = req[r] /\ Good(v) /\ Waiting(v)
  BY Requested DEF At, Waiting
<1> DEFINE w == [Idle EXCEPT !.stage = "failed", !.key = v.key, !.at = v.at]
<1>2. Goes(r, w)
  BY <1>1 DEF Fail, Goes
<1>3. /\ w = [x \in DOMAIN Idle |-> w[x]]
      /\ w.stage = "failed" /\ w.key = v.key /\ w.at = v.at /\ w.from = Idle.from
      /\ w.store = Idle.store /\ w.chat = Idle.chat /\ w.question = Idle.question
      /\ w.quota = Idle.quota /\ w.base = Idle.base /\ w.period = Idle.period
      /\ w.recalled = Idle.recalled /\ w.made = Idle.made
  BY IdleFields DEF RequestRecords
<1> HIDE DEF w
<1>4. w \in RequestRecords
  BY <1>1, <1>3, IdleFields, Fields, IsRequest, StageNames
<1>5. Good(w)
  BY <1>1, <1>3, IdleFields DEF Good, Waiting
<1>6. Continues(v, w)
  BY <1>1, <1>3, <1>4, <1>5 DEF Continues, Waiting, Arrived, Cached
<1>7. GoesOn(v, w)
  BY <1>3, <1>6 DEF GoesOn, SameCheck, Checked
<1> QED
  BY <1>1, <1>2, <1>7

LEMMA VoiceMoves ==
  ASSUME GateTyped, Asked, NEW r \in Requests, Voice(r)
  PROVE  \E w : Goes(r, w) /\ GoesOn(req[r], w)
<1>1. PICK v \in RequestRecords : v = req[r] /\ Good(v) /\ v.stage = "known"
  BY Requested DEF At, Voice
<1> DEFINE w == [Idle EXCEPT !.stage = "spoken", !.key = v.key, !.at = v.at]
<1>2. Goes(r, w)
  BY <1>1 DEF Voice, Goes
<1>3. /\ w = [x \in DOMAIN Idle |-> w[x]]
      /\ w.stage = "spoken" /\ w.key = v.key /\ w.at = v.at /\ w.from = Idle.from
      /\ w.store = Idle.store /\ w.chat = Idle.chat /\ w.question = Idle.question
      /\ w.quota = Idle.quota /\ w.base = Idle.base /\ w.period = Idle.period
      /\ w.recalled = Idle.recalled /\ w.made = Idle.made
  BY IdleFields DEF RequestRecords
<1> HIDE DEF w
<1>4. w \in RequestRecords
  BY <1>1, <1>3, IdleFields, Fields, IsRequest, StageNames
<1>5. Good(w)
  BY <1>1, <1>3, IdleFields DEF Good, Waiting
<1>6. Continues(v, w)
  BY <1>1, <1>3, <1>4, <1>5 DEF Continues, Waiting, Arrived, Cached
<1>7. GoesOn(v, w)
  BY <1>3, <1>6 DEF GoesOn, SameCheck, Checked
<1> QED
  BY <1>1, <1>2, <1>7

\* From accepted to asking, or with a reply out of the cache to answered.
LEMMA LookUpMoves ==
  ASSUME GateTyped, Asked, NEW r \in Requests, LookUp(r)
  PROVE  \E w : Goes(r, w) /\ GoesOn(req[r], w)
<1>1. PICK v \in RequestRecords : v = req[r] /\ Good(v) /\ v.stage = "accepted"
  BY Requested DEF At, LookUp
<1>2. PICK m \in Recallable(r), from \in ARequest, stage \in Stages :
        /\ stage = "answered" \/ (stage = "asking" /\ from = None)
        /\ Goes(r, [v EXCEPT !.recalled = m, !.from = from, !.stage = stage])
  <2> DEFINE There(n) == Entry(CacheKey(r, n))
  <2> DEFINE E(n) == entries[CHOOSE i \in There(n) : TRUE]
  <2> DEFINE Hit(n) == There(n) # {} /\ ~TooOld(E(n))
  <2>4. PICK m \in Recallable(r) :
          req' = [req EXCEPT ![r] =
                 [@ EXCEPT !.recalled = m, !.from = IF Hit(m) THEN E(m).from ELSE None,
                          !.stage = IF Hit(m) THEN "answered" ELSE "asking"]]
    BY DEF LookUp
  <2>1. PICK found, e, hit : found = There(m) /\ e = E(m) /\ hit = Hit(m)
    <3> HIDE DEF There, E, Hit
    <3> QED
      OBVIOUS
  <2>2. CASE hit
    <3>0. PICK i \in DOMAIN entries : e = entries[i]
      <4>1. \E i : i \in found
        BY <2>1, <2>2
      <4>2. (CHOOSE i \in found : TRUE) \in found
        BY <4>1
      <4> QED
        BY <2>1, <4>2 DEF Entry
    <3>1. e \in EntryRecords
      BY <3>0 DEF GateTyped, FitEntries
    <3>2. e.from \in ARequest
      BY <3>1, Options DEF EntryRecords
    <3> QED
      BY <1>1, <2>1, <2>2, <2>4, <3>2, StageNames DEF Goes
  <2>3. CASE ~hit
    BY <1>1, <2>1, <2>3, <2>4, Options, StageNames DEF Goes
  <2> QED
    BY <2>2, <2>3
<1> DEFINE w == [v EXCEPT !.recalled = m, !.from = from, !.stage = stage]
<1>3. /\ w = [x \in DOMAIN v |-> w[x]]
      /\ w.recalled = m /\ w.from = from /\ w.stage = stage
      /\ w.key = v.key /\ w.at = v.at /\ w.store = v.store /\ w.chat = v.chat
      /\ w.question = v.question /\ w.quota = v.quota /\ w.base = v.base
      /\ w.period = v.period /\ w.made = v.made
  BY DEF RequestRecords
<1> HIDE DEF w
<1>8. m \in Nat
  <2>1. req[r].key \in Keys
    BY <1>1 DEF Good, Waiting
  <2> QED
    BY <2>1 DEF Recallable, GateTyped
<1>4. w \in RequestRecords
  BY <1>3, <1>8, Fields, IsRequest
<1>5. Good(w)
  BY <1>1, <1>2, <1>3 DEF Good, Waiting
<1>6. Continues(v, w)
  BY <1>1, <1>2, <1>3, <1>4, <1>5 DEF Continues, Arrived, Cached
<1>7. GoesOn(v, w)
  BY <1>1, <1>2, <1>3, <1>6 DEF GoesOn, SameCheck, Checked
<1> QED
  BY <1>1, <1>2, <1>7 DEF w

\* From asking to answered, by the backend.
LEMMA AnswerMoves ==
  ASSUME GateTyped, Asked, NEW r \in Requests, Answer(r) \/ AnswerPlain(r)
  PROVE  \E w : Goes(r, w) /\ GoesOn(req[r], w)
<1>1. PICK v \in RequestRecords : v = req[r] /\ Good(v) /\ v.stage = "asking"
  BY Requested DEF At, Answer, AnswerPlain
<1> DEFINE w == [v EXCEPT !.stage = "answered", !.from = r, !.made = now]
<1>2. Goes(r, w)
  BY <1>1 DEF Answer, AnswerPlain, Goes
<1>3. /\ w = [x \in DOMAIN v |-> w[x]]
      /\ w.recalled = v.recalled /\ w.from = r /\ w.stage = "answered"
      /\ w.key = v.key /\ w.at = v.at /\ w.store = v.store /\ w.chat = v.chat
      /\ w.question = v.question /\ w.quota = v.quota /\ w.base = v.base
      /\ w.period = v.period /\ w.made = now
  BY DEF RequestRecords
<1> HIDE DEF w
<1>4. w \in RequestRecords
  <2>1. now \in Int /\ r \in ARequest
    BY Requested, Options
  <2> QED
    BY <1>3, <2>1, Fields, IsRequest, StageNames
<1>5. Good(w)
  BY <1>1, <1>3 DEF Good, Waiting
<1>6. Continues(v, w)
  BY <1>1, <1>3, <1>4, <1>5 DEF Continues, Arrived, Cached
<1>7. GoesOn(v, w)
  BY <1>1, <1>3, <1>6 DEF GoesOn, SameCheck, Checked
<1> QED
  BY <1>1, <1>2, <1>7

\* Only the stage changes.
LEMMA StageMoves ==
  ASSUME GateTyped, Asked, NEW r \in Requests, Complete(r) \/ RecordFails(r)
  PROVE  \E w : Goes(r, w) /\ GoesOn(req[r], w)
<1>1. PICK v \in RequestRecords, stage \in Stages :
        /\ v = req[r] /\ Good(v) /\ Goes(r, [v EXCEPT !.stage = stage])
        /\ \/ v.stage = "accepted" /\ stage = "asking"
           \/ v.stage = "answered" /\ stage = "broken"
  BY Requested, StageNames DEF At, Complete, RecordFails, Goes
<1> DEFINE w == [v EXCEPT !.stage = stage]
<1>2. /\ w = [x \in DOMAIN v |-> w[x]]
      /\ w.recalled = v.recalled /\ w.from = v.from /\ w.stage = stage
      /\ w.key = v.key /\ w.at = v.at /\ w.store = v.store /\ w.chat = v.chat
      /\ w.question = v.question /\ w.quota = v.quota /\ w.base = v.base
      /\ w.period = v.period /\ w.made = v.made
  BY DEF RequestRecords
<1>3. Goes(r, w)
  BY <1>1
<1> HIDE DEF w
<1>4. w \in RequestRecords
  BY <1>2, Fields, IsRequest
<1>5. Good(w)
  BY <1>1, <1>2 DEF Good, Waiting
<1>6. Continues(v, w)
  BY <1>1, <1>2, <1>4, <1>5 DEF Continues, Arrived, Cached
<1>7. GoesOn(v, w)
  BY <1>1, <1>2, <1>6 DEF GoesOn, SameCheck, Checked
<1> QED
  BY <1>1, <1>3, <1>7

LEMMA AcceptMoves ==
  ASSUME GateTyped, Asked, NEW r \in Requests, Accept(r), ~Exhausted(req[r].key, req[r].quota)
  PROVE  \E w : /\ Goes(r, w) /\ Continues(req[r], w) /\ w.stage = "accepted"
                /\ w.base = Len(usage) /\ w.period = now \div Period /\ w.quota = req[r].quota
<1>1. PICK v \in RequestRecords : v = req[r] /\ Good(v) /\ v.stage = "known"
  BY Requested DEF At, Accept
<1> DEFINE w == [v EXCEPT !.base = Len(usage), !.period = now \div Period, !.stage = "accepted"]
<1>2. Goes(r, w)
  BY <1>1 DEF Accept, Goes
<1>3. /\ w = [x \in DOMAIN v |-> w[x]]
      /\ w.recalled = v.recalled /\ w.from = v.from /\ w.stage = "accepted"
      /\ w.key = v.key /\ w.at = v.at /\ w.store = v.store /\ w.chat = v.chat
      /\ w.question = v.question /\ w.quota = v.quota /\ w.base = Len(usage)
      /\ w.period = now \div Period /\ w.made = v.made
  BY DEF RequestRecords
<1> HIDE DEF w
<1>4. w \in RequestRecords
  <2>1. Len(usage) \in Nat
    BY DEF GateTyped
  <2>2. now \div Period \in Int
    BY Requested, GatewayAssumption
  <2> QED
    BY <1>3, <2>1, <2>2, Fields, IsRequest, StageNames
<1>5. Good(w)
  BY <1>1, <1>3 DEF Good, Waiting
<1>6. Continues(v, w)
  BY <1>1, <1>3, <1>4, <1>5 DEF Continues, Arrived, Cached
<1> QED
  BY <1>1, <1>2, <1>3, <1>6

LEMMA RecordMoves ==
  ASSUME GateTyped, Asked, NEW r \in Requests, Record(r)
  PROVE  \E w : Goes(r, w) /\ Continues(req[r], w) /\ w.stage = "billed"
<1>1. PICK v \in RequestRecords : v = req[r] /\ Good(v) /\ v.stage = "answered"
  BY Requested DEF At, Record
<1> DEFINE w == [v EXCEPT !.stage = "billed", !.quota = NoQuota, !.base = 0, !.period = Never,
                         !.store = FALSE]
<1>2. Goes(r, w)
  BY <1>1 DEF Record, Goes
<1>3. /\ w = [x \in DOMAIN v |-> w[x]]
      /\ w.recalled = v.recalled /\ w.from = v.from /\ w.stage = "billed"
      /\ w.key = v.key /\ w.at = v.at /\ w.store = FALSE /\ w.chat = v.chat
      /\ w.question = v.question /\ w.quota = NoQuota /\ w.base = 0
      /\ w.period = Never /\ w.made = v.made
  BY DEF RequestRecords
<1> HIDE DEF w
<1>4. w \in RequestRecords
  <2>1. Never \in Int /\ 0 \in Nat
    BY DEF Never
  <2> QED
    BY <1>3, <2>1, Fields, IsRequest, StageNames, Options
<1>5. Good(w)
  BY <1>1, <1>3 DEF Good, Waiting
<1>6. Continues(v, w)
  BY <1>1, <1>3, <1>4, <1>5 DEF Continues, Arrived, Cached
<1> QED
  BY <1>1, <1>2, <1>3, <1>6

\* The requests of a key that the limiter has let pass.
Came(k) == {r \in Requests : req[r].key = k /\ Arrived(req[r])}

LEMMA Replaced ==
  ASSUME GateTyped, NEW r \in Requests, NEW w \in RequestRecords, Goes(r, w)
  PROVE  /\ req' \in [Requests -> RequestRecords] /\ req'[r] = w
         /\ \A s \in Requests : s # r => req'[s] = req[s]
BY DEF GateTyped, Goes

LEMMA GoodLater ==
  ASSUME NEW v, Good(v), v.at \in Nat, now \in Nat, now' \in Nat, now <= now'
  PROVE  Good(v)'
BY DEF Good, Waiting

LEMMA ContinueKeeps ==
  ASSUME GateTyped, Asked, NEW r \in Requests, NEW w, Goes(r, w), Continues(req[r], w), now' = now
  PROVE  /\ req' \in [Requests -> RequestRecords] /\ Asked'
         /\ FitEntries \subseteq FitEntries' /\ EndedRecords \subseteq EndedRecords'
         /\ \A k : Came(k)' = Came(k)
         /\ \A s \in Requests : Arrived(req[s]) => req'[s].at = req[s].at
<1>1. /\ w \in RequestRecords
      /\ req' \in [Requests -> RequestRecords] /\ req'[r] = w
      /\ \A s \in Requests : s # r => req'[s] = req[s]
  BY Replaced DEF Continues
<1>2. Asked'
  <2> SUFFICES ASSUME NEW s \in Requests
               PROVE  Good(req[s])'
    BY DEF Asked
  <2>1. PICK v : v = req'[s] /\ Good(v)
    BY <1>1 DEF Asked, Continues
  <2>2. Good(v)'
    BY <2>1, GoodLater, Requested DEF Good
  <2> QED
    BY <2>1, <2>2 DEF Good, Waiting
<1>3. FitEntries \subseteq FitEntries'
  <2> SUFFICES ASSUME NEW e \in EntryRecords, Fit(e)
               PROVE  Fit(e)'
    BY DEF FitEntries
  <2>1. PICK s \in Requests : s = e.from
    BY DEF EntryRecords
  <2>2. CASE s # r
    BY <1>1, <2>1, <2>2 DEF Fit, At
  <2>3. CASE s = r
    <3>1. Cached(req[r])
      BY <2>1, <2>3 DEF Fit, At, Cached
    <3> QED
      BY <1>1, <2>1, <2>3, <3>1 DEF Fit, At, Cached, Continues
  <2> QED
    BY <2>2, <2>3
<1>4. EndedRecords \subseteq EndedRecords'
  <2> SUFFICES ASSUME NEW u \in UsageRecords, At(u.by, "billed")
               PROVE  At(u.by, "billed")'
    BY DEF EndedRecords
  <2>1. PICK s \in Requests : s = u.by
    BY DEF UsageRecords
  <2>2. s # r
    BY <2>1 DEF At, Continues
  <2> QED
    BY <1>1, <2>1, <2>2 DEF At
<1>5. ASSUME NEW k
      PROVE  Came(k)' = Came(k)
  <2>1. \A s \in Requests : req'[s].key = k /\ Arrived(req'[s]) <=> req[s].key = k /\ Arrived(req[s])
    BY <1>1 DEF Continues
  <2> QED
    BY <2>1 DEF Came, Arrived
<1>6. ASSUME NEW s \in Requests, Arrived(req[s])
      PROVE  req'[s].at = req[s].at
  BY <1>1 DEF Continues
<1> QED
  BY <1>1, <1>2, <1>3, <1>4, <1>5, <1>6

\* Whatever is done for a request after it was let pass, it goes on.
HandledOn(r) ==
    \/ Accept(r) \/ LookUp(r) \/ Complete(r)
    \/ Answer(r) \/ AnswerPlain(r) \/ Voice(r) \/ VoiceFails(r) \/ BackendFails(r) \/ Record(r)
    \/ RecordFails(r)
LEMMA HandledMoves ==
  ASSUME GateTyped, Asked, NEW r \in Requests, HandledOn(r)
  PROVE  \E w : /\ Goes(r, w) /\ Continues(req[r], w)
                /\ ~Record(r) => w.stage # "billed"
                /\ ~(Accept(r) /\ ~Exhausted(req[r].key, req[r].quota)) /\ ~Record(r)
                       => GoesOn(req[r], w)
<1>1. CASE Fail(r) /\ (At(r, "known") \/ At(r, "accepted") \/ At(r, "asking"))
  BY <1>1, FailMoves DEF GoesOn
<1>2. CASE Accept(r)
  <2>1. CASE Exhausted(req[r].key, req[r].quota)
    BY <1>1, <1>2, <2>1 DEF Accept
  <2>2. CASE ~Exhausted(req[r].key, req[r].quota)
    BY <1>2, <2>2, AcceptMoves
  <2> QED
    BY <2>1, <2>2
<1>3. CASE Record(r)
  BY <1>3, RecordMoves
<1>4. CASE VoiceFails(r) \/ BackendFails(r)
  BY <1>1, <1>4 DEF VoiceFails, BackendFails
<1>5. CASE LookUp(r) \/ Complete(r) \/ Answer(r) \/ AnswerPlain(r) \/ Voice(r) \/ RecordFails(r)
  BY <1>5, LookUpMoves, StageMoves, AnswerMoves, VoiceMoves DEF GoesOn
<1> QED
  BY <1>2, <1>3, <1>4, <1>5 DEF HandledOn

LEMMA LookUpEntries ==
  ASSUME GateTyped, NEW r \in Requests, LookUp(r)
  PROVE  entries' \in Seq(FitEntries)
<1>1. PICK c :
        \/ entries' = entries
        \/ entries' = Without(c)
        \/ \E i \in DOMAIN entries : entries' = Append(Without(c), entries[i])
  <2> DEFINE There(n) == Entry(CacheKey(r, n))
  <2> DEFINE E(n) == entries[CHOOSE i \in There(n) : TRUE]
  <2> DEFINE Hit(n) == There(n) # {} /\ ~TooOld(E(n))
  <2>1. PICK m \in Recallable(r) :
          entries' = IF There(m) = {} THEN entries
                     ELSE IF Hit(m) THEN Append(Without(E(m).for), E(m)) ELSE Without(E(m).for)
    BY DEF LookUp
  <2>2. There(m) # {} => \E i \in DOMAIN entries : E(m) = entries[i]
    <3> SUFFICES ASSUME There(m) # {}
                 PROVE  (CHOOSE i \in There(m) : TRUE) \in DOMAIN entries
      OBVIOUS
    <3>1. \E i : i \in There(m)
      OBVIOUS
    <3>2. (CHOOSE i \in There(m) : TRUE) \in There(m)
      BY <3>1
    <3> QED
      BY <3>2 DEF Entry
  <2> HIDE DEF There, E, Hit
  <2> QED
    BY <2>1, <2>2
<1>2. entries \in Seq(FitEntries) /\ Without(c) \in Seq(FitEntries)
  BY WithoutIn DEF GateTyped
<1>3. ASSUME NEW i \in DOMAIN entries, entries' = Append(Without(c), entries[i])
      PROVE  entries' \in Seq(FitEntries)
  <2>1. PICK T : T = FitEntries
    OBVIOUS
  <2>2. entries[i] \in T /\ Without(c) \in Seq(T)
    BY <1>2, <2>1
  <2> QED
    BY <1>3, <2>1, <2>2
<1> QED
  BY <1>1, <1>2, <1>3

LEMMA AnswerEntries ==
  ASSUME GateTyped, Asked, NEW r \in Requests, Answer(r)
  PROVE  entries' \in Seq(FitEntries')
<1>1. PICK w : Goes(r, w) /\ Continues(req[r], w)
  BY HandledMoves DEF HandledOn
<1>2. FitEntries \subseteq FitEntries' /\ req'[r] = w
  <2>1. now' = now
    BY DEF Answer, Rest
  <2> QED
    BY <1>1, <2>1, ContinueKeeps, Replaced DEF Continues
<1>3. PICK v \in RequestRecords : v = req[r] /\ Good(v) /\ v.stage = "asking" /\ v.chat
  BY Requested DEF At, Answer
<1>4. /\ w.stage = "answered" /\ w.made = now /\ w.key = v.key /\ w.question = v.question
      /\ w.recalled = v.recalled /\ w.chat
  <2>1. w = [v EXCEPT !.stage = "answered", !.from = r, !.made = now]
    BY <1>1, <1>2, <1>3 DEF Goes, Answer, GateTyped
  <2> QED
    BY <1>3, <2>1 DEF RequestRecords
<1> DEFINE for == CacheKey(r, v.recalled)
<1> DEFINE e == [for |-> for, at |-> now, from |-> r]
<1>5. e \in FitEntries'
  <2>1. for = <<v.key, v.question, v.recalled>>
    BY <1>3 DEF CacheKey
  <2>2. v.key \in Keys /\ v.question \in Questions /\ v.recalled \in Nat /\ now \in Nat
    BY <1>3, Fields, Requested DEF Good, Waiting
  <2>3. for \in Keys \X Questions \X Nat
    BY <2>1, <2>2
  <2>4. e \in EntryRecords
    <3> HIDE DEF for
    <3> QED
      BY <2>2, <2>3 DEF EntryRecords
  <2>5. PICK d : d = e /\ d.for = <<w.key, w.question, w.recalled>> /\ d.at = now /\ d.from = r
    <3>1. PICK f : f = for
      OBVIOUS
    <3>2. f = <<w.key, w.question, w.recalled>>
      BY <1>4, <2>1, <3>1
    <3> HIDE DEF for
    <3>3. e.for = f /\ e.at = now /\ e.from = r
      BY <3>1
    <3> HIDE DEF e
    <3> QED
      BY <3>2, <3>3
  <2>6. Fit(d)'
    BY <1>2, <1>4, <2>5 DEF Fit, At
  <2> HIDE DEF e
  <2> QED
    BY <2>4, <2>5, <2>6 DEF FitEntries
<1>6. entries' = Newest(Append(Without(for), e))
  BY <1>3 DEF Answer, CacheSet
<1>7. Without(for) \in Seq(FitEntries)
  BY WithoutIn DEF GateTyped
<1> HIDE DEF for, e
<1>8. Append(Without(for), e) \in Seq(FitEntries')
  <2>1. Without(for) \in Seq(FitEntries')
    BY <1>2, <1>7, SeqGrows
  <2> QED
    BY <1>5, <2>1
<1> QED
  BY <1>6, <1>8, NewestIn

LEMMA HandledTyped ==
  ASSUME GateTyped, Asked, NEW r \in Requests, HandledOn(r)
  PROVE  GateTyped' /\ Asked'
<1>1. PICK w : Goes(r, w) /\ Continues(req[r], w) /\ (Record(r) => w.stage = "billed")
  <2>1. CASE Record(r)
    BY <2>1, RecordMoves
  <2> QED
    BY <2>1, HandledMoves
<1>2. now' = now /\ key' = key /\ hits' = hits
  BY DEF HandledOn, Rest, Accept, LookUp, Complete, Answer, AnswerPlain, Voice, VoiceFails,
         BackendFails, Record, RecordFails
<1>3. /\ req' \in [Requests -> RequestRecords] /\ Asked'
      /\ FitEntries \subseteq FitEntries' /\ EndedRecords \subseteq EndedRecords'
  BY <1>1, <1>2, ContinueKeeps
<1>4. entries' \in Seq(FitEntries')
  <2>1. CASE entries' \in Seq(FitEntries)
    BY <1>3, <2>1, SeqGrows
  <2>2. entries' = entries \/ LookUp(r) \/ Answer(r)
    BY DEF HandledOn, Accept, Complete, AnswerPlain, Voice, VoiceFails, BackendFails, Record,
           RecordFails
  <2> QED
    BY <2>1, <2>2, LookUpEntries, AnswerEntries DEF GateTyped
<1>5. usage' \in Seq(EndedRecords')
  <2>1. CASE Record(r)
    <3>1. PICK u : u = [by |-> r, at |-> now, cached |-> req[r].from # r]
      OBVIOUS
    <3>2. u \in UsageRecords /\ u.by = r
      BY <3>1 DEF UsageRecords, GateTyped
    <3>3. u \in EndedRecords'
      BY <1>1, <2>1, <3>2, Replaced DEF EndedRecords, At, Continues
    <3>4. usage \in Seq(EndedRecords')
      BY <1>3, SeqGrows DEF GateTyped
    <3>5. usage' = Append(usage, u)
      BY <2>1, <3>1 DEF Record, Billed
    <3> QED
      BY <3>3, <3>4, <3>5
  <2>2. usage' = usage \/ Record(r)
    BY DEF HandledOn, Accept, LookUp, Complete, Answer, AnswerPlain, Voice, VoiceFails,
           BackendFails, RecordFails
  <2> QED
    BY <1>3, <2>1, <2>2, SeqGrows DEF GateTyped
<1>6. memory' \in [Keys -> Nat]
  <2>1. memory' = memory \/ \E n \in {0, 1} : Remember(r, n)
    BY DEF HandledOn, Accept, LookUp, Complete, Answer, AnswerPlain, Voice, VoiceFails,
           BackendFails, Record, RecordFails, Stored
  <2> QED
    BY <2>1 DEF Remember, GateTyped
<1> QED
  BY <1>2, <1>3, <1>4, <1>5, <1>6 DEF GateTyped

\* A request starts: it is let pass now, or it is not.
Starts(w) ==
    /\ w \in RequestRecords /\ Good(w)
    /\ w.stage = "known" \/ w.stage = "refused"
    /\ Arrived(w) => w.at = now

LEMMA RefusedMoves ==
  ASSUME GateTyped, Asked, NEW r \in Requests, NEW k \in Keys, At(r, "idle"),
         req' = [req EXCEPT ![r] = [@ EXCEPT !.key = k, !.stage = "refused"]]
  PROVE  \E w : Goes(r, w) /\ Starts(w) /\ ~Arrived(w)
<1>1. req[r] = Idle
  BY DEF Asked, Good, At
<1> DEFINE w == [Idle EXCEPT !.key = k, !.stage = "refused"]
<1>2. Goes(r, w)
  BY <1>1 DEF Goes
<1>3. /\ w = [x \in DOMAIN Idle |-> w[x]]
      /\ w.stage = "refused" /\ w.key = k /\ w.at = Idle.at /\ w.from = Idle.from
      /\ w.store = Idle.store /\ w.chat = Idle.chat /\ w.question = Idle.question
      /\ w.quota = Idle.quota /\ w.base = Idle.base /\ w.period = Idle.period
      /\ w.recalled = Idle.recalled /\ w.made = Idle.made
  BY IdleFields DEF RequestRecords
<1> HIDE DEF w
<1>4. w \in RequestRecords
  BY <1>3, IdleFields, Fields, IsRequest, StageNames, Options
<1>5. Good(w)
  <2>1. 0 <= now
    BY DEF GateTyped
  <2> QED
    BY <1>3, <2>1, IdleFields DEF Good, Waiting
<1> QED
  BY <1>2, <1>3, <1>4, <1>5 DEF Starts, Arrived

LEMMA ArriveMoves ==
  ASSUME GateTyped, Asked, NEW r \in Requests, NEW k \in Keys, NEW chat \in BOOLEAN,
         NEW q \in Questions, Arrive(r, k, chat, q)
  PROVE  \E w : Goes(r, w) /\ Starts(w) /\ w.key = k /\ (Arrived(w) <=> Allows(k))
<1>1. req[r] = Idle
  BY DEF Asked, Good, At, Arrive
<1>2. CASE ~Allows(k)
  <2>1. req' = [req EXCEPT ![r] = [@ EXCEPT !.key = k, !.stage = "refused"]]
    BY <1>2 DEF Arrive
  <2>2. PICK w : Goes(r, w) /\ Starts(w) /\ ~Arrived(w)
    BY <2>1, RefusedMoves DEF Arrive
  <2>3. w = [req[r] EXCEPT !.key = k, !.stage = "refused"]
    BY <2>1, <2>2 DEF Goes, GateTyped
  <2>4. w.key = k
    BY <1>1, <2>3, IdleFields DEF RequestRecords
  <2> QED
    BY <1>2, <2>2, <2>4
<1>3. CASE Allows(k)
  <2> DEFINE w == [Idle EXCEPT !.key = k, !.chat = chat, !.question = q, !.at = now,
                     !.quota = key[k].quota, !.store = chat /\ key[k].store, !.stage = "known"]
  <2>2. Goes(r, w)
    BY <1>1, <1>3 DEF Goes, Arrive
  <2>3. /\ w = [x \in DOMAIN Idle |-> w[x]]
        /\ w.stage = "known" /\ w.key = k /\ w.at = now /\ w.from = Idle.from
        /\ w.store = (chat /\ key[k].store) /\ w.chat = chat /\ w.question = q
        /\ w.quota = key[k].quota /\ w.base = Idle.base /\ w.period = Idle.period
        /\ w.recalled = Idle.recalled /\ w.made = Idle.made
    BY IdleFields DEF RequestRecords
  <2> HIDE DEF w
  <2>6. key[k].quota \in AQuota /\ key[k].store \in BOOLEAN /\ now \in Nat
    BY DEF GateTyped
  <2>4. w \in RequestRecords
    <3>1. w.store \in BOOLEAN
      BY <2>3
    <3> QED
      BY <2>3, <2>6, <3>1, IdleFields, Fields, IsRequest, StageNames, Options
  <2>5. Good(w)
    BY <2>3, <2>6, IdleFields DEF Good, Waiting
  <2> QED
    BY <1>3, <2>2, <2>3, <2>4, <2>5 DEF Starts, Arrived
<1> QED
  BY <1>2, <1>3

LEMMA StartKeeps ==
  ASSUME GateTyped, Asked, NEW r \in Requests, NEW w, At(r, "idle"), Goes(r, w), Starts(w),
         now' = now
  PROVE  /\ req' \in [Requests -> RequestRecords] /\ Asked'
         /\ FitEntries \subseteq FitEntries' /\ EndedRecords \subseteq EndedRecords'
<1>1. /\ w \in RequestRecords
      /\ req' \in [Requests -> RequestRecords] /\ req'[r] = w
      /\ \A s \in Requests : s # r => req'[s] = req[s]
  BY Replaced DEF Starts
<1>2. Asked'
  <2> SUFFICES ASSUME NEW s \in Requests
               PROVE  Good(req[s])'
    BY DEF Asked
  <2>1. PICK v : v = req'[s] /\ Good(v)
    BY <1>1 DEF Asked, Starts
  <2>2. Good(v)'
    BY <2>1, GoodLater, Requested DEF Good
  <2> QED
    BY <2>1, <2>2 DEF Good, Waiting
<1>3. FitEntries \subseteq FitEntries'
  <2> SUFFICES ASSUME NEW e \in EntryRecords, Fit(e)
               PROVE  Fit(e)'
    BY DEF FitEntries
  <2>1. PICK s \in Requests : s = e.from
    BY DEF EntryRecords
  <2>2. s # r
    BY <2>1 DEF Fit, At
  <2> QED
    BY <1>1, <2>1, <2>2 DEF Fit, At
<1>4. EndedRecords \subseteq EndedRecords'
  <2> SUFFICES ASSUME NEW u \in UsageRecords, At(u.by, "billed")
               PROVE  At(u.by, "billed")'
    BY DEF EndedRecords
  <2>1. PICK s \in Requests : s = u.by
    BY DEF UsageRecords
  <2>2. s # r
    BY <2>1 DEF At
  <2> QED
    BY <1>1, <2>1, <2>2 DEF At
<1> QED
  BY <1>1, <1>2, <1>3, <1>4

LEMMA AllowTyped ==
  ASSUME GateTyped, NEW k \in Keys, Allow(k)
  PROVE  hits' \in [Keys -> Seq(Nat)]
<1>1. PICK due : hits' = [j \in Keys |->
          IF j = k THEN IF Allows(k) THEN Append(Live(hits[k]), now) ELSE Live(hits[k])
          ELSE IF due /\ Stale(hits[j]) THEN <<>> ELSE hits[j]]
  BY DEF Allow
<1>2. Live(hits[k]) \in Seq(Nat) /\ now \in Nat
  BY LiveHits DEF GateTyped
<1>3. Append(Live(hits[k]), now) \in Seq(Nat)
  BY <1>2
<1>4. \A j \in Keys : hits[j] \in Seq(Nat)
  BY DEF GateTyped
<1> QED
  BY <1>1, <1>2, <1>3, <1>4

LEMMA GateInit == Init => GateTyped /\ Asked
<1> SUFFICES ASSUME Init
             PROVE  GateTyped /\ Asked
  OBVIOUS
<1>1. /\ now = 0 /\ hits = [k \in Keys |-> <<>>] /\ memory = [k \in Keys |-> 0]
      /\ req = [r \in Requests |-> Idle] /\ usage = <<>> /\ entries = <<>>
  BY DEF Init
<1>2. PICK q \in Quotas : key = [k \in Keys |-> [revoked |-> FALSE, expires |-> Forever, quota |-> q,
                                             store |-> TRUE]]
  BY DEF Init
<1>3. Forever \in Nat /\ q \in AQuota
  BY GatewayAssumption DEF Forever, AQuota
<1>4. key \in [Keys -> [revoked : BOOLEAN, expires : Nat, quota : AQuota, store : BOOLEAN]]
  BY <1>2, <1>3
<1>5. <<>> \in Seq(Nat) /\ <<>> \in Seq(EndedRecords) /\ <<>> \in Seq(FitEntries)
  OBVIOUS
<1>6. Asked
  BY <1>1, IdleFields DEF Asked, Good, Waiting
<1> QED
  BY <1>1, <1>4, <1>5, <1>6, IdleFields DEF GateTyped

LEMMA GateNext ==
  ASSUME GateTyped, Asked, [Next]_vars
  PROVE  GateTyped' /\ Asked'
<1>1. CASE Tick
  <2>1. now' \in Nat /\ now <= now'
    BY <1>1 DEF Tick, GateTyped
  <2>2. Asked'
    <3> SUFFICES ASSUME NEW s \in Requests
                 PROVE  Good(req[s])'
      BY DEF Asked
    <3>1. PICK v : v = req[s] /\ Good(v) /\ v.at \in Nat
      BY Requested, Fields
    <3>2. Good(v)'
      BY <2>1, <3>1, GoodLater DEF GateTyped
    <3> QED
      BY <1>1, <3>1, <3>2 DEF Good, Waiting, Tick
  <2> QED
    BY <1>1, <2>1, <2>2 DEF Tick, GateTyped, FitEntries, Fit, EndedRecords, At
<1>2. ASSUME NEW k \in Keys, Revoke(k) \/ UpdateKey(k)
      PROVE  GateTyped' /\ Asked'
  <2>1. UNCHANGED <<now, hits, calls, entries, usage, memory, req>>
    BY <1>2 DEF Revoke, UpdateKey, Edit
  <2>2. \/ \E q \in AQuota : key' = [key EXCEPT ![k].quota = q]
        \/ \E b \in BOOLEAN : key' = [key EXCEPT ![k].store = b]
        \/ \E b \in BOOLEAN : key' = [key EXCEPT ![k].revoked = b]
        \/ \E n \in Nat : key' = [key EXCEPT ![k].expires = n]
    <3>1. now + 1 \in Nat
      BY DEF GateTyped
    <3>2. \A q \in (Quotas \union {NoQuota}) \ {key[k].quota} : q \in AQuota
      BY DEF AQuota
    <3>3. CASE Revoke(k)
      BY <3>3 DEF Revoke
    <3>4. CASE UpdateKey(k)
      BY <3>1, <3>2, <3>4 DEF UpdateKey
    <3> QED
      BY <1>2, <3>3, <3>4
  <2>3. key' \in [Keys -> [revoked : BOOLEAN, expires : Nat, quota : AQuota, store : BOOLEAN]]
    BY <2>2 DEF GateTyped
  <2> QED
    BY <2>1, <2>3 DEF GateTyped, FitEntries, Fit, EndedRecords, At, Asked, Good, Waiting
<1>3. ASSUME NEW r \in Requests, NEW k \in Keys, NEW chat \in BOOLEAN, NEW q \in Questions,
             Arrive(r, k, chat, q)
      PROVE  GateTyped' /\ Asked'
  <2>1. PICK w : Goes(r, w) /\ Starts(w)
    BY <1>3, ArriveMoves
  <2>2. UNCHANGED <<now, key, entries, usage, memory>> /\ At(r, "idle") /\ Allow(k)
    BY <1>3 DEF Arrive, Rest
  <2>3. entries \in Seq(FitEntries') /\ usage \in Seq(EndedRecords')
    BY <2>1, <2>2, StartKeeps, SeqGrows DEF GateTyped
  <2> QED
    BY <2>1, <2>2, <2>3, StartKeeps, AllowTyped DEF GateTyped
<1>4. ASSUME NEW r \in Requests, NEW k \in Keys, Reject(r, k)
      PROVE  GateTyped' /\ Asked'
  <2>1. PICK w : Goes(r, w) /\ Starts(w)
    BY <1>4, RefusedMoves DEF Reject
  <2>2. UNCHANGED <<now, key, entries, usage, memory, hits>> /\ At(r, "idle")
    BY <1>4 DEF Reject, Rest
  <2>3. entries \in Seq(FitEntries') /\ usage \in Seq(EndedRecords')
    BY <2>1, <2>2, StartKeeps, SeqGrows DEF GateTyped
  <2> QED
    BY <2>1, <2>2, <2>3, StartKeeps DEF GateTyped
<1>5. ASSUME NEW r \in Requests, HandledOn(r)
      PROVE  GateTyped' /\ Asked'
  BY <1>5, HandledTyped
<1>6. CASE UNCHANGED vars
  BY <1>6 DEF vars, GateTyped, FitEntries, Fit, EndedRecords, At, Asked, Good, Waiting
<1> QED
  BY <1>1, <1>2, <1>3, <1>4, <1>5, <1>6 DEF Next, Handle, HandledOn

-----------------------------------------------------------------------------
(* The limiter: after the n-th hit it knows of a key, no more of the key's    *)
(* requests came in the window than the hits that follow.                   *)

After(k, n) ==
    {r \in Came(k) : req[r].at > now - Window /\ (n > 0 => req[r].at > hits[k][n])}
Counted ==
    \A k \in Keys : \A n \in 0..Len(hits[k]) :
        Cardinality(After(k, n)) <= Len(hits[k]) - n
Between(k, t) == {r \in Came(k) : t - Window < req[r].at /\ req[r].at <= t}
FewBetween == \A k \in Keys : \A t \in 0..now : Cardinality(Between(k, t)) <= Limit
RateInv == Counted /\ FewBetween

LEMMA Finite ==
  ASSUME NEW S \in SUBSET Requests
  PROVE  IsFiniteSet(S) /\ Cardinality(S) \in Nat
BY FS_Subset, FS_CardinalityType, GatewayAssumption

LEMMA Fewer ==
  ASSUME NEW T \in SUBSET Requests, NEW S \in SUBSET T
  PROVE  Cardinality(S) <= Cardinality(T)
BY FS_Subset, Finite

LEMMA OneMore ==
  ASSUME NEW S \in SUBSET Requests, NEW r \in Requests
  PROVE  /\ Cardinality(S \union {r}) <= Cardinality(S) + 1
         /\ r \notin S => Cardinality(S \union {r}) = Cardinality(S) + 1
BY FS_AddElement, Finite

\* Nobody came: what was so is so.
LEMMA NobodyCame ==
  ASSUME GateTyped, Asked, RateInv, hits' = hits, now \in Nat, now' = now,
         \A k : Came(k)' = Came(k),
         \A s \in Requests : Arrived(req[s]) => req'[s].at = req[s].at
  PROVE  RateInv'
<1>1. \A k : \A s \in Came(k) : req'[s].at = req[s].at
  BY DEF Came
<1>2. \A k, n : After(k, n)' = After(k, n)
  BY <1>1 DEF After
<1>3. Counted'
  BY <1>2 DEF Counted, RateInv
<1>4. \A k, t : Between(k, t)' = Between(k, t)
  BY <1>1 DEF Between
<1>5. FewBetween'
  BY <1>4 DEF RateInv, FewBetween
<1> QED
  BY <1>3, <1>5 DEF RateInv

LEMMA TickRate ==
  ASSUME GateTyped, Asked, RateInv, Tick
  PROVE  RateInv'
<1>0. /\ now \in Nat /\ now' = now + 1 /\ req' = req /\ hits' = hits
      /\ Window \in Nat /\ Limit \in Nat /\ Window > 0
  BY GatewayAssumption DEF Tick, GateTyped
<1>1. \A s \in Requests : req[s].at \in Nat /\ req[s].at <= now
  BY Requested, Fields DEF Good
<1>2. \A k : Came(k)' = Came(k)
  BY <1>0 DEF Came, Arrived
<1>3. ASSUME NEW k \in Keys, NEW n \in 0..Len(hits[k])
      PROVE  Cardinality(After(k, n)') <= Len(hits[k]) - n
  <2>1. After(k, n)' \subseteq After(k, n)
    BY <1>0, <1>1, <1>2 DEF After, Came
  <2>2. After(k, n) \in SUBSET Requests
    BY DEF After, Came
  <2>3. /\ Cardinality(After(k, n)') \in Nat /\ Cardinality(After(k, n)) \in Nat
        /\ Cardinality(After(k, n)') <= Cardinality(After(k, n))
    BY <2>1, <2>2, Finite, Fewer
  <2>4. Cardinality(After(k, n)) <= Len(hits[k]) - n
    BY DEF RateInv, Counted
  <2>5. Len(hits[k]) \in Nat
    BY DEF GateTyped
  <2> QED
    BY <2>3, <2>4, <2>5
<1>4. Counted'
  BY <1>0, <1>3 DEF Counted
<1>5. ASSUME NEW k \in Keys, NEW t \in 0..now'
      PROVE  Cardinality(Between(k, t)') <= Limit
  <2>1. PICK u \in 0..now : Between(k, t)' \subseteq Between(k, u)
    <3>1. CASE t <= now
      BY <1>0, <1>2, <3>1 DEF Between
    <3>2. CASE t = now + 1
      <4>1. Between(k, t)' \subseteq Between(k, now)
        BY <1>0, <1>1, <1>2, <3>2 DEF Between, Came
      <4> QED
        BY <1>0, <4>1
    <3> QED
      BY <1>0, <3>1, <3>2
  <2>2. Between(k, u) \in SUBSET Requests
    BY DEF Between, Came
  <2>3. /\ Cardinality(Between(k, t)') \in Nat /\ Cardinality(Between(k, u)) \in Nat
        /\ Cardinality(Between(k, t)') <= Cardinality(Between(k, u))
    BY <2>1, <2>2, Finite, Fewer
  <2>4. Cardinality(Between(k, u)) <= Limit
    BY DEF RateInv, FewBetween
  <2> QED
    BY <1>0, <2>3, <2>4
<1>6. FewBetween'
  BY <1>5 DEF FewBetween
<1> QED
  BY <1>4, <1>6 DEF RateInv

LEMMA ArriveRate ==
  ASSUME GateTyped, Asked, RateInv, NEW r \in Requests, NEW k \in Keys, NEW chat \in BOOLEAN,
         NEW q \in Questions, Arrive(r, k, chat, q)
  PROVE  RateInv'
<1>1. PICK w : Goes(r, w) /\ Starts(w) /\ w.key = k /\ (Arrived(w) <=> Allows(k))
  BY ArriveMoves
<1>2. /\ req'[r] = w /\ now' = now /\ ~Arrived(req[r])
      /\ \A s \in Requests : s # r => req'[s] = req[s]
  <2>1. w \in RequestRecords
    BY <1>1 DEF Starts
  <2> QED
    BY <1>1, <2>1, Replaced DEF Arrive, Rest, At, Arrived
<1>3. /\ now \in Nat /\ Window \in Nat /\ Limit \in Nat
      /\ \A j \in Keys : hits[j] \in Seq(Nat) /\ Len(hits[j]) \in Nat
      /\ \A s \in Requests : req[s].at \in Nat /\ req[s].at <= now
  BY Requested, Fields, GatewayAssumption DEF Good, GateTyped
<1>4. \A j : j # k => Came(j)' = Came(j)
  BY <1>1, <1>2 DEF Came, Arrived
<1>5. /\ ~Allows(k) => Came(k)' = Came(k)
      /\ Allows(k) => Came(k)' = Came(k) \union {r} /\ req'[r].at = now
  BY <1>1, <1>2 DEF Came, Arrived, Starts
<1>6. \A j : \A s \in Came(j) : req'[s].at = req[s].at
  BY <1>2 DEF Came
<1>7. PICK due : hits' = [j \in Keys |->
          IF j = k THEN IF Allows(k) THEN Append(Live(hits[k]), now) ELSE Live(hits[k])
          ELSE IF due /\ Stale(hits[j]) THEN <<>> ELSE hits[j]]
  BY DEF Arrive, Allow
\* The keys that were not called.
<1>8. ASSUME NEW j \in Keys, j # k, NEW n \in 0..Len(hits'[j])
      PROVE  Cardinality(After(j, n)') <= Len(hits'[j]) - n
  <2>1. CASE hits'[j] = hits[j]
    <3>1. After(j, n)' = After(j, n)
      BY <1>2, <1>4, <1>6, <1>8, <2>1 DEF After
    <3> QED
      BY <1>8, <2>1, <3>1 DEF RateInv, Counted
  <2>2. CASE hits'[j] = <<>> /\ Stale(hits[j]) /\ hits[j] # <<>>
    <3>1. n = 0 /\ Len(hits[j]) > 0 /\ hits[j][Len(hits[j])] <= now - Window
      BY <1>3, <1>8, <2>2 DEF Stale, Last
    <3>2. After(j, n)' \subseteq After(j, Len(hits[j]))
      <4>1. hits[j][Len(hits[j])] \in Nat /\ Len(hits[j]) > 0
        BY <1>3, <3>1
      <4>2. ASSUME NEW s \in After(j, n)'
            PROVE  s \in After(j, Len(hits[j]))
        <5>1. /\ s \in Came(j) /\ req[s].at \in Nat
              /\ req[s].at > now - Window
          BY <1>2, <1>3, <1>4, <1>6, <1>8, <4>2 DEF After, Came
        <5>2. req[s].at > hits[j][Len(hits[j])]
          BY <1>3, <3>1, <4>1, <5>1
        <5> QED
          BY <5>1, <5>2 DEF After
      <4> QED
        BY <4>2
    <3>3. After(j, Len(hits[j])) \in SUBSET Requests
      BY DEF After, Came
    <3>4. /\ Cardinality(After(j, n)') \in Nat
          /\ Cardinality(After(j, n)') <= Cardinality(After(j, Len(hits[j])))
          /\ Cardinality(After(j, Len(hits[j]))) \in Nat
      BY <3>2, <3>3, Finite, Fewer
    <3>5. Len(hits[j]) \in 0..Len(hits[j])
      BY <1>3
    <3>6. Cardinality(After(j, Len(hits[j]))) <= Len(hits[j]) - Len(hits[j])
      BY <3>5 DEF RateInv, Counted
    <3>7. Len(hits'[j]) = 0
      BY <2>2
    <3> QED
      BY <1>3, <3>1, <3>4, <3>6, <3>7
  <2> QED
    BY <1>7, <1>8, <2>1, <2>2
\* The hits of the key that remain, and the new one.
<1>9. PICK live \in Seq(Nat), d \in 0..Len(hits[k]) :
        /\ live = Live(hits[k]) /\ Len(live) = Len(hits[k]) - d
        /\ d > 0 => hits[k][d] <= now - Window
        /\ \A n \in 1..Len(live) : live[n] = hits[k][n + d]
  BY <1>3, LiveHits
<1>10. ASSUME NEW n \in 0..Len(live)
       PROVE  \E m \in 0..Len(hits[k]) :
                 /\ m = n + d
                 /\ {s \in Came(k) : req[s].at > now - Window /\ (n > 0 => req[s].at > live[n])}
                      \subseteq After(k, m)
  <2>1. n + d \in 0..Len(hits[k]) /\ Len(hits[k]) \in Nat /\ d \in Nat
    BY <1>3, <1>9
  <2>2. n > 0 => live[n] = hits[k][n + d] /\ n + d > 0
    BY <1>9, <2>1
  <2>3. n = 0 /\ n + d > 0 => hits[k][n + d] <= now - Window
    BY <1>9, <2>1
  <2>4. n + d > 0 => hits[k][n + d] \in Nat
    BY <1>3, <2>1
  <2>5. ASSUME NEW s \in Came(k), req[s].at > now - Window, n > 0 => req[s].at > live[n]
        PROVE  s \in After(k, n + d)
    BY <1>3, <2>2, <2>3, <2>4, <2>5 DEF After, Came
  <2> QED
    BY <2>1, <2>5
<1>11. ASSUME NEW n \in 0..Len(live)
       PROVE  Cardinality({s \in Came(k) : req[s].at > now - Window /\ (n > 0 => req[s].at > live[n])})
                <= Len(live) - n
  <2> DEFINE S == {s \in Came(k) : req[s].at > now - Window /\ (n > 0 => req[s].at > live[n])}
  <2>1. PICK m \in 0..Len(hits[k]) : m = n + d /\ S \subseteq After(k, m)
    BY <1>10
  <2> HIDE DEF S
  <2>2. After(k, m) \in SUBSET Requests
    BY DEF After, Came
  <2>3. /\ Cardinality(S) \in Nat /\ Cardinality(After(k, m)) \in Nat
        /\ Cardinality(S) <= Cardinality(After(k, m))
    BY <2>1, <2>2, Finite, Fewer
  <2>4. Cardinality(After(k, m)) <= Len(hits[k]) - m
    BY <2>1 DEF RateInv, Counted
  <2>5. Len(hits[k]) \in Nat /\ Len(live) \in Nat
    BY <1>3
  <2>6. Cardinality(S) <= Len(live) - n
    BY <1>9, <2>1, <2>3, <2>4, <2>5
  <2> QED
    BY <2>6 DEF S
<1>12. /\ {s \in Came(k) : req[s].at > now - Window} \in SUBSET Requests
       /\ \A n : {s \in Came(k) : req[s].at > now - Window /\ (n > 0 => req[s].at > live[n])}
                    \in SUBSET Requests
  BY DEF Came
<1>13. CASE ~Allows(k)
  <2>1. \A j : Came(j)' = Came(j)
    BY <1>4, <1>5, <1>13
  <2>2. hits'[k] = live
    BY <1>7, <1>9, <1>13
  <2>3. \A n : After(k, n)' = {s \in Came(k) : req[s].at > now - Window
                                                /\ (n > 0 => req[s].at > live[n])}
    BY <1>2, <1>6, <2>1, <2>2 DEF After
  <2>4. Counted'
    BY <1>8, <1>11, <2>2, <2>3 DEF Counted
  <2>5. \A j, t : Between(j, t)' = Between(j, t)
    BY <1>6, <2>1 DEF Between
  <2> QED
    BY <1>2, <2>4, <2>5 DEF RateInv, FewBetween
<1>14. CASE Allows(k)
  <2>1. /\ hits'[k] = Append(live, now) /\ Len(live) < Limit
        /\ Came(k)' = Came(k) \union {r} /\ req'[r].at = now
    BY <1>5, <1>7, <1>9, <1>14 DEF Allows
  <2>2. /\ Len(live) \in Nat /\ Len(hits'[k]) = Len(live) + 1
        /\ hits'[k][Len(live) + 1] = now
        /\ \A n \in 1..Len(live) : hits'[k][n] = live[n]
    BY <1>3, <2>1
  <2>3. ASSUME NEW n \in 0..Len(hits'[k])
        PROVE  Cardinality(After(k, n)') <= Len(hits'[k]) - n
    <3> DEFINE S == {s \in Came(k) : req[s].at > now - Window /\ (n > 0 => req[s].at > live[n])}
    <3>1. CASE n = Len(live) + 1
      <4>1. \A s \in Came(k) \union {r} : req'[s].at <= now /\ req'[s].at \in Nat
        <5>1. \A s \in Came(k) : req'[s].at = req[s].at /\ req[s].at <= now /\ req[s].at \in Nat
          BY <1>3, <1>6 DEF Came
        <5>2. req'[r].at = now /\ now \in Nat /\ now <= now
          BY <1>3, <2>1
        <5> QED
          BY <5>1, <5>2
      <4>2. \A s \in After(k, n)' : req'[s].at > now
        BY <2>2, <3>1 DEF After
      <4>3. After(k, n)' = {}
        BY <1>3, <2>1, <4>1, <4>2 DEF After
      <4> QED
        BY <2>2, <3>1, <4>3, FS_EmptySet
    <3>2. CASE n \in 0..Len(live)
      <4>0. n > 0 => hits'[k][n] = live[n]
        BY <2>2, <3>2
      <4>1. \A s \in Came(k) : s \in After(k, n)' => s \in S
        BY <1>2, <1>6, <4>0 DEF After
      <4>2. After(k, n)' \subseteq S \union {r}
        BY <2>1, <4>1 DEF After
      <4>3. S \in SUBSET Requests /\ Cardinality(S) <= Len(live) - n
        BY <1>11, <1>12, <3>2
      <4> HIDE DEF S
      <4>4. /\ Cardinality(After(k, n)') \in Nat /\ Cardinality(S) \in Nat
            /\ Cardinality(S \union {r}) \in Nat
            /\ Cardinality(After(k, n)') <= Cardinality(S \union {r})
            /\ Cardinality(S \union {r}) <= Cardinality(S) + 1
        BY <4>2, <4>3, OneMore, Finite, Fewer
      <4> QED
        BY <2>2, <3>2, <4>3, <4>4
    <3> QED
      BY <2>2, <3>1, <3>2
  <2>4. Counted'
    BY <1>8, <2>3 DEF Counted
  <2>5. ASSUME NEW j \in Keys, NEW t \in 0..now
        PROVE  Cardinality(Between(j, t)') <= Limit
    <3>0. t \in Nat /\ t <= now
      BY <1>3
    <3>1. CASE j # k
      <4>1. Between(j, t)' = Between(j, t)
        BY <1>4, <1>6, <3>1 DEF Between
      <4> QED
        BY <4>1 DEF RateInv, FewBetween
    <3>2. CASE j = k /\ t < now
      <4>1. Between(j, t)' = Between(j, t)
        BY <1>3, <1>6, <2>1, <3>0, <3>2 DEF Between
      <4> QED
        BY <4>1 DEF RateInv, FewBetween
    <3>3. CASE j = k /\ t = now
      <4> DEFINE S == {s \in Came(k) : req[s].at > now - Window}
      <4>1. Between(j, t)' \subseteq S \union {r}
        BY <1>6, <2>1, <3>3 DEF Between
      <4>2. Cardinality(S) <= Len(live)
        <5>1. 0 \in 0..Len(live) /\ Len(live) - 0 = Len(live)
          BY <2>2
        <5>2. S = {s \in Came(k) : req[s].at > now - Window /\ (0 > 0 => req[s].at > live[0])}
          OBVIOUS
        <5> HIDE DEF S
        <5> QED
          BY <1>11, <5>1, <5>2
      <4>3. S \in SUBSET Requests
        BY <1>12
      <4> HIDE DEF S
      <4>4. /\ Cardinality(Between(j, t)') \in Nat /\ Cardinality(S) \in Nat
            /\ Cardinality(S \union {r}) \in Nat
            /\ Cardinality(Between(j, t)') <= Cardinality(S \union {r})
            /\ Cardinality(S \union {r}) <= Cardinality(S) + 1
        BY <4>1, <4>3, OneMore, Finite, Fewer
      <4> QED
        BY <1>3, <2>1, <2>2, <4>2, <4>4
    <3> QED
      BY <1>3, <3>0, <3>1, <3>2, <3>3
  <2> QED
    BY <1>2, <2>4, <2>5 DEF RateInv, FewBetween
<1> QED
  BY <1>13, <1>14

LEMMA RateInit == Init => RateInv
<1> SUFFICES ASSUME Init
             PROVE  RateInv
  OBVIOUS
<1>1. \A k \in Keys : Came(k) = {}
  BY DEF Init, Came, Idle, Arrived
<1>2. now = 0 /\ \A k \in Keys : hits[k] = <<>>
  BY DEF Init
<1>3. \A k \in Keys : \A n : After(k, n) = {} /\ Between(k, n) = {}
  BY <1>1 DEF After, Between
<1>4. \A k \in Keys : \A n : Cardinality(After(k, n)) = 0 /\ Cardinality(Between(k, n)) = 0
  BY <1>3, FS_EmptySet
<1>5. \A k \in Keys : \A n \in 0..Len(hits[k]) : 0 <= Len(hits[k]) - n
  BY <1>2
<1>6. Limit \in Nat
  BY GatewayAssumption
<1> QED
  BY <1>4, <1>5, <1>6 DEF RateInv, Counted, FewBetween

LEMMA RateNext ==
  ASSUME GateTyped, Asked, RateInv, [Next]_vars
  PROVE  RateInv'
<1>1. CASE Tick
  BY <1>1, TickRate
<1>2. CASE UNCHANGED <<now, hits, req>>
  BY <1>2 DEF RateInv, Counted, FewBetween, After, Between, Came, Arrived
<1>3. ASSUME NEW k \in Keys, Revoke(k) \/ UpdateKey(k)
      PROVE  RateInv'
  BY <1>2, <1>3 DEF Revoke, UpdateKey, Edit
<1>4. ASSUME NEW r \in Requests, NEW k \in Keys, NEW chat \in BOOLEAN, NEW q \in Questions,
             Arrive(r, k, chat, q)
      PROVE  RateInv'
  BY <1>4, ArriveRate
<1>5. ASSUME NEW r \in Requests, NEW k \in Keys, Reject(r, k)
      PROVE  RateInv'
  <2>1. PICK w : Goes(r, w) /\ Starts(w) /\ ~Arrived(w)
    BY <1>5, RefusedMoves DEF Reject
  <2>2. /\ req'[r] = w /\ now' = now /\ hits' = hits /\ ~Arrived(req[r])
        /\ \A s \in Requests : s # r => req'[s] = req[s]
    <3>1. w \in RequestRecords
      BY <2>1 DEF Starts
    <3> QED
      BY <1>5, <2>1, <3>1, Replaced DEF Reject, Rest, At, Arrived
  <2>3. \A j : Came(j)' = Came(j)
    BY <2>1, <2>2 DEF Came, Arrived
  <2>4. \A s \in Requests : Arrived(req[s]) => req'[s].at = req[s].at
    BY <2>2
  <2> QED
    BY <2>2, <2>3, <2>4, NobodyCame DEF GateTyped
<1>6. ASSUME NEW r \in Requests, HandledOn(r)
      PROVE  RateInv'
  <2>1. PICK w : Goes(r, w) /\ Continues(req[r], w)
    BY <1>6, HandledMoves
  <2>2. now' = now /\ hits' = hits
    BY <1>6 DEF HandledOn, Rest, Accept, LookUp, Complete, Answer, AnswerPlain, Voice, VoiceFails,
         BackendFails, Record, RecordFails
  <2> QED
    BY <2>1, <2>2, NobodyCame, ContinueKeeps DEF GateTyped
<1>7. CASE UNCHANGED vars
  BY <1>2, <1>7 DEF vars
<1> QED
  BY <1>1, <1>3, <1>4, <1>5, <1>6, <1>7 DEF Next, Handle, HandledOn

\* However requests crowd together and whatever the limiter sweeps, in no window of
\* its length does a key get more requests past it than its limit.
THEOREM TheRateIsKept == Spec => []RateKept
<1>1. RateInv => RateKept
  <2> SUFFICES ASSUME RateInv, NEW k \in Keys, NEW t \in 0..now
               PROVE  Cardinality({r \in Requests : /\ req[r].key = k /\ Passed(r)
                                       /\ t - Window < req[r].at /\ req[r].at <= t}) <= Limit
    BY DEF RateKept
  <2>1. Between(k, t) = {r \in Requests : /\ req[r].key = k /\ Passed(r)
                                       /\ t - Window < req[r].at /\ req[r].at <= t}
    BY DEF Between, Came, Passed, Arrived
  <2> QED
    BY <2>1 DEF RateInv, FewBetween
<1>2. Init => GateTyped /\ Asked /\ RateInv
  BY GateInit, RateInit
<1>3. GateTyped /\ Asked /\ RateInv /\ [Next]_vars => (GateTyped /\ Asked /\ RateInv)'
  BY GateNext, RateNext
<1> QED
  BY <1>1, <1>2, <1>3, PTL DEF Spec

-----------------------------------------------------------------------------
(* The records: one for each request that was billed.                       *)

Records(r) == {i \in DOMAIN usage : usage[i].by = r}
OneRecord == \A r \in Requests : At(r, "billed") => Cardinality(Records(r)) = 1

\* The requests for which something may be remembered.
Remembering(k) == {r \in Requests : req[r].key = k /\ req[r].chat /\ (At(r, "billed") \/ At(r, "broken"))}
MemoryPaid == \A k \in Keys : memory[k] <= Cardinality(Remembering(k))
BillInv == OneRecord /\ MemoryPaid

\* The record of a request is the first and the last one of it.
LEMMA RecordOnce ==
  ASSUME GateTyped, NEW r \in Requests, Record(r), req'[r].stage = "billed",
         \A s \in Requests : s # r => req'[s] = req[s], OneRecord
  PROVE  OneRecord'
<1>1. PICK u : usage' = Append(usage, u) /\ u.by = r
  BY DEF Record, Billed
<1>2. usage \in Seq(EndedRecords) /\ Len(usage) \in Nat
  BY DEF GateTyped
<1>3. \A i \in DOMAIN usage : usage[i].by # r
  BY <1>2 DEF EndedRecords, Record, At
<1>4. /\ DOMAIN usage' = 1..(Len(usage) + 1) /\ DOMAIN usage = 1..Len(usage)
      /\ usage'[Len(usage) + 1] = u
      /\ \A i \in 1..Len(usage) : usage'[i] = usage[i]
  BY <1>1, <1>2
<1>5. Records(r)' = {Len(usage) + 1}
  BY <1>1, <1>2, <1>3, <1>4 DEF Records
<1>6. \A s \in Requests : s # r => Records(s)' = Records(s)
  BY <1>1, <1>2, <1>4 DEF Records
<1>7. Cardinality(Records(r)') = 1
  BY <1>5, FS_Singleton
<1> QED
  BY <1>6, <1>7 DEF OneRecord, At

LEMMA BillNext ==
  ASSUME GateTyped, Asked, BillInv, [Next]_vars
  PROVE  BillInv'
<1>1. CASE UNCHANGED <<usage, memory, req>>
  BY <1>1 DEF BillInv, OneRecord, MemoryPaid, Records, Remembering, At
<1>2. CASE Tick \/ UNCHANGED vars
  BY <1>1, <1>2 DEF Tick, vars
<1>8. ASSUME NEW k \in Keys, Revoke(k) \/ UpdateKey(k)
      PROVE  BillInv'
  BY <1>1, <1>8 DEF Revoke, UpdateKey, Edit
<1>3. ASSUME NEW r \in Requests, NEW w \in RequestRecords, Goes(r, w), UNCHANGED <<usage, memory>>,
             w.stage # "billed", ~At(r, "billed"),
             At(r, "broken") => w.stage = "broken" /\ w.key = req[r].key /\ w.chat = req[r].chat
      PROVE  BillInv'
  <2>1. /\ req'[r] = w
        /\ \A s \in Requests : s # r => req'[s] = req[s]
    BY <1>3, Replaced
  <2>2. OneRecord'
    BY <1>3, <2>1 DEF BillInv, OneRecord, Records, At
  <2>3. ASSUME NEW k \in Keys
        PROVE  memory'[k] <= Cardinality(Remembering(k)')
    <3>1. Remembering(k) \subseteq Remembering(k)'
      BY <1>3, <2>1 DEF Remembering, At
    <3>2. Remembering(k)' \in SUBSET Requests
      BY DEF Remembering
    <3>3. /\ Cardinality(Remembering(k)) \in Nat /\ Cardinality(Remembering(k)') \in Nat
          /\ Cardinality(Remembering(k)) <= Cardinality(Remembering(k)')
      BY <3>1, <3>2, Finite, Fewer
    <3>4. memory[k] \in Nat /\ memory[k] <= Cardinality(Remembering(k))
      BY DEF BillInv, MemoryPaid, GateTyped
    <3> QED
      BY <1>3, <3>3, <3>4
  <2> QED
    BY <2>2, <2>3 DEF BillInv, MemoryPaid
<1>9. ASSUME NEW r \in Requests, NEW w, Goes(r, w), Starts(w), UNCHANGED <<usage, memory>>,
             At(r, "idle")
      PROVE  BillInv'
  BY <1>3, <1>9 DEF Starts, At
<1>4. ASSUME NEW r \in Requests, NEW k \in Keys, NEW chat \in BOOLEAN, NEW q \in Questions,
             Arrive(r, k, chat, q)
      PROVE  BillInv'
  BY <1>4, <1>9, ArriveMoves DEF Arrive
<1>10. ASSUME NEW r \in Requests, NEW k \in Keys, Reject(r, k)
       PROVE  BillInv'
  BY <1>9, <1>10, RefusedMoves DEF Reject
<1>5. ASSUME NEW r \in Requests, HandledOn(r), ~Record(r), ~RecordFails(r)
      PROVE  BillInv'
  <2>1. PICK w : Goes(r, w) /\ Continues(req[r], w) /\ w.stage # "billed"
    BY <1>5, HandledMoves
  <2>2. UNCHANGED <<usage, memory>> /\ ~At(r, "billed") /\ ~At(r, "broken")
    <3>1. At(r, "known") \/ At(r, "accepted") \/ At(r, "asking")
      BY <1>5 DEF HandledOn, Accept, LookUp, Complete, Answer, AnswerPlain, Voice, VoiceFails,
         BackendFails
    <3>2. UNCHANGED <<usage, memory>>
      BY <1>5 DEF HandledOn, Accept, LookUp, Complete, Answer, AnswerPlain, Voice, VoiceFails,
         BackendFails
    <3> QED
      BY <3>1, <3>2 DEF At
  <2> QED
    BY <1>3, <2>1, <2>2 DEF Continues
<1>6. ASSUME NEW r \in Requests, Record(r) \/ RecordFails(r)
      PROVE  BillInv'
  <2>1. PICK w : Goes(r, w) /\ Continues(req[r], w)
    BY <1>6, HandledMoves DEF HandledOn
  <2>2. /\ req'[r] = w /\ w \in RequestRecords
        /\ \A s \in Requests : s # r => req'[s] = req[s]
    BY <2>1, Replaced DEF Continues
  <2>3. PICK v \in RequestRecords : v = req[r] /\ Good(v) /\ v.stage = "answered"
    BY <1>6, Requested DEF Record, RecordFails, At
  <2>4. w.stage = "billed" \/ w.stage = "broken"
    <3>1. CASE Record(r)
      <4>1. w = [v EXCEPT !.stage = "billed", !.quota = NoQuota, !.base = 0, !.period = Never,
                         !.store = FALSE]
        BY <2>2, <2>3, <3>1 DEF Record, GateTyped
      <4> QED
        BY <4>1 DEF RequestRecords
    <3>2. CASE RecordFails(r)
      <4>1. w = [v EXCEPT !.stage = "broken"]
        BY <2>2, <2>3, <3>2 DEF RecordFails, GateTyped
      <4> QED
        BY <4>1 DEF RequestRecords
    <3> QED
      BY <1>6, <3>1, <3>2
  <2>5. w.key = v.key /\ w.chat = v.chat /\ (v.store => w.chat)
    BY <2>1, <2>3 DEF Continues, Cached, Good
  <2>6. PICK n \in {0, 1} : Remember(r, n) /\ (n = 1 => v.store)
    BY <1>6, <2>3 DEF Record, RecordFails, Stored
  <2>7. OneRecord'
    <3>1. CASE Record(r)
      <4>1. req'[r].stage = "billed"
        BY <2>1, <2>2, <3>1, RecordMoves, Replaced DEF Continues
      <4> QED
        BY <2>2, <3>1, <4>1, RecordOnce DEF BillInv
    <3>2. CASE RecordFails(r)
      <4>1. w = [v EXCEPT !.stage = "broken"] /\ usage' = usage
        BY <2>2, <2>3, <3>2 DEF RecordFails, GateTyped
      <4>2. w.stage = "broken"
        BY <4>1 DEF RequestRecords
      <4>3. \A s \in Requests : At(s, "billed")' => s # r /\ At(s, "billed")
        BY <2>2, <4>2 DEF At
      <4> QED
        BY <4>1, <4>3 DEF BillInv, OneRecord, Records
    <3> QED
      BY <1>6, <3>1, <3>2
  <2>8. ASSUME NEW k \in Keys
        PROVE  memory'[k] <= Cardinality(Remembering(k)')
    <3>0. /\ Remembering(k)' \in SUBSET Requests /\ Remembering(k) \in SUBSET Requests
      BY DEF Remembering
    <3>1. memory[k] \in Nat /\ memory[k] <= Cardinality(Remembering(k))
      BY DEF BillInv, MemoryPaid, GateTyped
    <3>2. Remembering(k) \subseteq Remembering(k)'
      BY <2>2, <2>3, <2>4, <2>5 DEF Remembering, At
    <3>3. /\ Cardinality(Remembering(k)) \in Nat /\ Cardinality(Remembering(k)') \in Nat
          /\ Cardinality(Remembering(k)) <= Cardinality(Remembering(k)')
      BY <3>0, <3>2, Finite, Fewer
    <3>4. CASE memory'[k] = memory[k]
      BY <3>1, <3>3, <3>4
    <3>5. CASE memory'[k] # memory[k]
      <4>1. k = v.key /\ n = 1 /\ memory'[k] = memory[k] + 1
        BY <2>3, <2>6, <3>1, <3>5 DEF Remember, GateTyped
      <4>2. Remembering(k) \union {r} \subseteq Remembering(k)' /\ r \notin Remembering(k)
        BY <2>2, <2>3, <2>4, <2>5, <2>6, <3>2, <4>1 DEF Remembering, At
      <4>3. /\ Cardinality(Remembering(k) \union {r}) <= Cardinality(Remembering(k)')
            /\ Cardinality(Remembering(k) \union {r}) = Cardinality(Remembering(k)) + 1
        BY <3>0, <4>2, OneMore, Fewer
      <4> QED
        BY <3>1, <3>3, <4>1, <4>3
    <3> QED
      BY <3>4, <3>5
  <2> QED
    BY <2>7, <2>8 DEF BillInv, MemoryPaid
<1>7. ASSUME NEW r \in Requests, HandledOn(r)
      PROVE  BillInv'
  BY <1>5, <1>6, <1>7
<1> QED
  BY <1>2, <1>4, <1>7, <1>8, <1>10 DEF Next, Handle, HandledOn

\* Every request that got a reply, out of the cache or not, has its one record once
\* it has ended, and nothing is remembered that was not asked for and answered.
THEOREM RepliesHaveTheirRecord == Spec => []RepliesAreBilled
<1>1. GateTyped /\ Asked /\ BillInv => RepliesAreBilled
  <2> SUFFICES ASSUME GateTyped, Asked, BillInv
               PROVE  RepliesAreBilled
    OBVIOUS
  <2>1. ASSUME NEW r \in Requests, Served(r), req[r].stage \in Ended \ {"broken"}
        PROVE  Cardinality({i \in DOMAIN usage : usage[i].by = r}) = 1
    <3>1. req[r].from # None /\ Good(req[r])
      BY <2>1, Requested DEF Served
    <3>2. At(r, "billed")
      BY <2>1, <3>1 DEF Ended, Good, At
    <3> QED
      BY <3>2 DEF BillInv, OneRecord, Records
  <2>2. ASSUME NEW k \in Keys
        PROVE  memory[k] <=
          Cardinality({r \in Requests : req[r].key = k /\ req[r].chat /\ req[r].stage \in {"billed", "broken"}})
    <3>1. Remembering(k) =
            {r \in Requests : req[r].key = k /\ req[r].chat /\ req[r].stage \in {"billed", "broken"}}
      BY DEF Remembering, At
    <3> QED
      BY <3>1 DEF BillInv, MemoryPaid
  <2> QED
    BY <2>1, <2>2 DEF RepliesAreBilled
<1>2. Init => GateTyped /\ Asked /\ BillInv
  <2> SUFFICES ASSUME Init
               PROVE  BillInv
    BY GateInit
  <2>1. /\ usage = <<>> /\ memory = [k \in Keys |-> 0] /\ req = [r \in Requests |-> Idle]
    BY DEF Init
  <2>2. OneRecord
    BY <2>1, IdleFields DEF OneRecord, At
  <2>3. \A k \in Keys : Cardinality(Remembering(k)) \in Nat
    BY Finite DEF Remembering
  <2>4. MemoryPaid
    BY <2>1, <2>3 DEF MemoryPaid
  <2> QED
    BY <2>2, <2>4 DEF BillInv
<1>3. GateTyped /\ Asked /\ BillInv /\ [Next]_vars => (GateTyped /\ Asked /\ BillInv)'
  BY GateNext, BillNext
<1> QED
  BY <1>1, <1>2, <1>3, PTL DEF Spec

-----------------------------------------------------------------------------
(* The cache.                                                               *)

LEMMA LookUpFits ==
  ASSUME GateTyped, Asked, NEW r \in Requests, LookUp(r), Found(r)
  PROVE  Fits(r, req'[r].from)
<1>1. PICK v \in RequestRecords : v = req[r] /\ v.stage = "accepted" /\ v.chat
  BY Requested DEF At, LookUp
<1>2. PICK m \in Recallable(r), i \in DOMAIN entries :
        /\ req'[r].recalled = m /\ req'[r].from = entries[i].from
        /\ entries[i].for = CacheKey(r, m) /\ ~TooOld(entries[i])
  <2> DEFINE There(n) == Entry(CacheKey(r, n))
  <2> DEFINE E(n) == entries[CHOOSE i \in There(n) : TRUE]
  <2> DEFINE Hit(n) == There(n) # {} /\ ~TooOld(E(n))
  <2>1. PICK m \in Recallable(r) :
          req' = [req EXCEPT ![r] =
                 [@ EXCEPT !.recalled = m, !.from = IF Hit(m) THEN E(m).from ELSE None,
                          !.stage = IF Hit(m) THEN "answered" ELSE "asking"]]
    BY DEF LookUp
  <2>2. There(m) # {} =>
          \E i \in DOMAIN entries : E(m) = entries[i] /\ entries[i].for = CacheKey(r, m)
    <3> SUFFICES ASSUME There(m) # {}
                 PROVE  /\ (CHOOSE i \in There(m) : TRUE) \in DOMAIN entries
                        /\ entries[CHOOSE i \in There(m) : TRUE].for = CacheKey(r, m)
      OBVIOUS
    <3>1. \E i : i \in There(m)
      OBVIOUS
    <3>2. (CHOOSE i \in There(m) : TRUE) \in There(m)
      BY <3>1
    <3> QED
      BY <3>2 DEF Entry
  <2>3. Hit(m) => There(m) # {} /\ ~TooOld(E(m))
    OBVIOUS
  <2> HIDE DEF There, E, Hit
  <2>4. req'[r].recalled = m /\ req'[r].from = IF Hit(m) THEN E(m).from ELSE None
    BY <1>1, <2>1 DEF GateTyped, RequestRecords
  <2>5. Hit(m)
    BY <2>4 DEF Found
  <2> QED
    BY <2>2, <2>3, <2>4, <2>5
<1>3. PICK e \in EntryRecords : e = entries[i] /\ Fit(e)
  BY DEF GateTyped, FitEntries
<1>4. PICK s \in Requests : s = e.from
  BY DEF EntryRecords
<1>5. /\ req[s].key = v.key /\ req[s].question = v.question /\ req[s].recalled = m
      /\ req[s].chat
  BY <1>1, <1>2, <1>3, <1>4 DEF Fit, CacheKey
<1>6. TTL # 0 => now - req[s].made <= TTL
  <2>1. now \in Int /\ TTL \in Int /\ req[s].made \in Int
    BY Requested, Fields, GatewayAssumption
  <2> QED
    BY <1>2, <1>3, <1>4, <2>1 DEF TooOld, Fit
<1> QED
  BY <1>1, <1>2, <1>3, <1>4, <1>5, <1>6 DEF Fits

\* Only what is done for a request changes it.
LEMMA StaysOrHandled ==
  ASSUME GateTyped, Asked, [Next]_vars, NEW r \in Requests
  PROVE  req'[r] = req[r] \/ Handle(r)
<1>1. CASE Tick \/ UNCHANGED vars
  BY <1>1 DEF Tick, vars
<1>2. ASSUME NEW k \in Keys, Revoke(k) \/ UpdateKey(k)
      PROVE  req'[r] = req[r]
  BY <1>2 DEF Revoke, UpdateKey, Edit
<1>3. ASSUME NEW s \in Requests, s # r, Handle(s)
      PROVE  req'[r] = req[r]
  <2>1. ASSUME NEW w, Goes(s, w)
        PROVE  req'[r] = req[r]
    BY <1>3, <2>1 DEF Goes, GateTyped
  <2>2. ASSUME NEW k \in Keys, NEW chat \in BOOLEAN, NEW q \in Questions, Arrive(s, k, chat, q)
        PROVE  req'[r] = req[r]
    BY <2>1, <2>2, ArriveMoves
  <2>3. ASSUME NEW k \in Keys, Reject(s, k)
        PROVE  req'[r] = req[r]
    BY <2>1, <2>3, RefusedMoves DEF Reject
  <2>4. CASE HandledOn(s)
    BY <2>1, <2>4, HandledMoves
  <2> QED
    BY <1>3, <2>2, <2>3, <2>4 DEF Handle, HandledOn
<1> QED
  BY <1>1, <1>2, <1>3 DEF Next

LEMMA OthersStay ==
  ASSUME GateTyped, Asked, [Next]_vars, NEW r \in Requests
  PROVE  req'[r] = req[r] \/ At(r, "idle") \/ HandledOn(r)
<1>1. Handle(r) => At(r, "idle") \/ HandledOn(r)
  BY DEF Handle, HandledOn, Arrive, Reject
<1> QED
  BY <1>1, StaysOrHandled

LEMMA FoundInTheCache ==
  ASSUME GateTyped, Asked, [Next]_vars, NEW r \in Requests, Found(r)
  PROVE  LookUp(r)
<1>1. PICK v \in RequestRecords : v = req[r] /\ Good(v) /\ v.stage = "accepted" /\ v.from = None
  BY Requested DEF Found, At, Good, Waiting
<1>2. HandledOn(r)
  BY <1>1, OthersStay DEF Found, At
<1>3. CASE Complete(r)
  <2>1. req'[r] = [v EXCEPT !.stage = "asking"]
    BY <1>1, <1>3 DEF Complete, GateTyped
  <2>2. req'[r].from = v.from
    BY <2>1 DEF RequestRecords
  <2> QED
    BY <1>1, <2>2 DEF Found
<1> QED
  BY <1>1, <1>2, <1>3 DEF HandledOn, At, Accept, Answer, AnswerPlain, Voice, VoiceFails,
     BackendFails, Record, RecordFails

\* A reply out of the cache is never another key's, another question's, or one that
\* was made with other memories, and never one older than the cache keeps them.
THEOREM TheCacheFits == Spec => CachedRepliesFit
<1>1. GateTyped /\ Asked /\ [Next]_vars
        => [\A r \in Requests : Found(r) => Fits(r, req'[r].from)]_vars
  BY FoundInTheCache, LookUpFits
<1>2. Init => GateTyped /\ Asked
  BY GateInit
<1>3. GateTyped /\ Asked /\ [Next]_vars => (GateTyped /\ Asked)'
  BY GateNext
<1> QED
  BY <1>1, <1>2, <1>3, PTL DEF Spec, CachedRepliesFit

-----------------------------------------------------------------------------
(* The quota: when a request was checked, no count of the records of that    *)
(* period had reached its quota; the records only grow.                     *)

UnderQuota(k, p, upTo, quota) ==
    \A j \in 0..upTo : Cost * Cardinality(Charged(k, p, j)) < quota
Within ==
    \A r \in Requests :
        Checked(req[r]) /\ req[r].quota # NoQuota =>
            /\ req[r].base <= Len(usage)
            /\ UnderQuota(req[r].key, req[r].period, req[r].base, req[r].quota)

LEMMA PeriodStarts ==
  ASSUME NEW a \in Nat, NEW p \in Int, a \div Period = p
  PROVE  a >= p * Period
<1>1. Period \in Nat \ {0}
  BY GatewayAssumption
<1> QED
  BY <1>1

LEMMA CostGrows ==
  ASSUME NEW m \in Nat, NEW n \in Nat, m <= n
  PROVE  Cost * m <= Cost * n /\ Cost * m \in Nat /\ Cost * n \in Nat
<1>1. Cost \in Nat
  BY GatewayAssumption
<1> QED
  BY <1>1

LEMMA RecordsGrow ==
  ASSUME GateTyped, Asked, [Next]_vars
  PROVE  /\ Len(usage) \in Nat /\ Len(usage') \in Nat /\ Len(usage) <= Len(usage')
         /\ \A i \in 1..Len(usage) : usage'[i] = usage[i]
<1>1. usage' = usage \/ \E u : usage' = Append(usage, u)
  BY DEF Next, Handle, Tick, Revoke, UpdateKey, Edit, Arrive, Reject, Accept, LookUp, Complete,
     Answer, AnswerPlain, Voice, VoiceFails, BackendFails, Record, RecordFails, Billed, vars
<1>2. usage \in Seq(EndedRecords)
  BY DEF GateTyped
<1>3. usage' = usage => Len(usage) \in Nat
  BY <1>2
<1> QED
  BY <1>1, <1>2

LEMMA ChargedStays ==
  ASSUME GateTyped, Asked, [Next]_vars, NEW j \in 0..Len(usage), NEW k, NEW p
  PROVE  Charged(k, p, j)' = Charged(k, p, j)
<1>1. ASSUME NEW i \in 1..j
      PROVE  usage'[i] = usage[i] /\ req'[usage[i].by].key = req[usage[i].by].key
  <2>1. i \in 1..Len(usage) /\ i \in DOMAIN usage
    BY RecordsGrow DEF GateTyped
  <2>2. PICK s \in Requests : s = usage[i].by /\ At(s, "billed")
    BY <2>1 DEF GateTyped, EndedRecords, UsageRecords
  <2>3. ~At(s, "idle") /\ ~HandledOn(s)
    BY <2>2 DEF HandledOn, At, Accept, LookUp, Complete, Answer, AnswerPlain, Voice, VoiceFails,
     BackendFails, Record, RecordFails
  <2>4. req'[s] = req[s]
    BY <2>3, OthersStay
  <2> QED
    BY <2>1, <2>2, <2>4, RecordsGrow
<1> QED
  BY <1>1 DEF Charged, PeriodOf

LEMMA WithinNext ==
  ASSUME GateTyped, Asked, Within, [Next]_vars
  PROVE  Within'
<1> SUFFICES ASSUME NEW r \in Requests, Checked(req'[r]), req'[r].quota # NoQuota
             PROVE  /\ req'[r].base <= Len(usage')
                    /\ UnderQuota(req[r].key, req[r].period, req[r].base, req[r].quota)'
  BY DEF Within, Checked
<1>1. ASSUME SameCheck(req[r], req'[r])
      PROVE  /\ req'[r].base <= Len(usage')
             /\ UnderQuota(req[r].key, req[r].period, req[r].base, req[r].quota)'
  <2>1. PICK v, w : v \in RequestRecords /\ v = req[r] /\ w = req'[r]
    BY Requested
  <2>2. /\ v.base <= Len(usage) /\ v.base \in Nat
        /\ UnderQuota(v.key, v.period, v.base, v.quota)
        /\ w.key = v.key /\ w.quota = v.quota /\ w.base = v.base /\ w.period = v.period
    BY <1>1, <2>1, Fields DEF SameCheck, Within
  <2>3. ASSUME NEW j \in 0..v.base
        PROVE  Cost * Cardinality(Charged(v.key, v.period, j)') < v.quota
    <3>1. j \in 0..Len(usage)
      BY <2>2, RecordsGrow
    <3> QED
      BY <2>2, <3>1, ChargedStays DEF UnderQuota
  <2>4. UnderQuota(v.key, v.period, v.base, v.quota)'
    BY <2>3 DEF UnderQuota
  <2>5. w.base <= Len(usage')
    BY <2>2, RecordsGrow
  <2> QED
    BY <2>1, <2>2, <2>4, <2>5 DEF UnderQuota
<1>2. CASE req'[r] = req[r]
  BY <1>1, <1>2 DEF SameCheck
<1>3. CASE At(r, "idle")
  <2>1. ASSUME NEW w, Goes(r, w), Starts(w)
        PROVE  FALSE
    <3>1. req'[r] = w
      BY <2>1, Replaced DEF Starts
    <3> QED
      BY <2>1, <3>1 DEF Starts, Checked
  <2>2. ASSUME NEW k \in Keys, NEW chat \in BOOLEAN, NEW q \in Questions, Arrive(r, k, chat, q)
        PROVE  FALSE
    BY <2>1, <2>2, ArriveMoves
  <2>3. ASSUME NEW k \in Keys, Reject(r, k)
        PROVE  FALSE
    BY <2>1, <2>3, RefusedMoves DEF Reject
  <2>4. ~HandledOn(r)
    BY <1>3 DEF HandledOn, At, Accept, LookUp, Complete, Answer, AnswerPlain, Voice, VoiceFails,
     BackendFails, Record, RecordFails
  <2>5. \/ Handle(r) \/ req'[r] = req[r]
    BY StaysOrHandled
  <2> QED
    BY <1>2, <2>2, <2>3, <2>4, <2>5 DEF Handle, HandledOn
<1>4. CASE HandledOn(r) /\ ~Record(r) /\ ~(Accept(r) /\ ~Exhausted(req[r].key, req[r].quota))
  <2>1. PICK w : Goes(r, w) /\ GoesOn(req[r], w)
    BY <1>4, HandledMoves
  <2>2. req'[r] = w
    BY <2>1, Replaced DEF GoesOn, Continues
  <2> QED
    BY <1>1, <2>1, <2>2 DEF GoesOn
<1>5. CASE Record(r)
  <2>1. PICK w : Goes(r, w) /\ Continues(req[r], w) /\ w.stage = "billed"
    BY <1>5, RecordMoves
  <2>2. req'[r] = w
    BY <2>1, Replaced DEF Continues
  <2> QED
    BY <2>1, <2>2 DEF Checked
<1>6. CASE Accept(r) /\ ~Exhausted(req[r].key, req[r].quota)
  <2>1. PICK w : /\ Goes(r, w) /\ Continues(req[r], w)
                 /\ w.base = Len(usage) /\ w.period = now \div Period /\ w.quota = req[r].quota
    BY <1>6, AcceptMoves
  <2>2. req'[r] = w /\ w \in RequestRecords /\ usage' = usage /\ now \in Nat
    BY <1>6, <2>1, Replaced DEF Continues, Accept, GateTyped
  <2>3. w.key = req[r].key
    BY <2>1 DEF Continues
  <2>4. PICK k, p, q : k = w.key /\ p = w.period /\ q = w.quota
    OBVIOUS
  <2>5. p \in Int /\ q \in Nat
    <3>1. q \in AQuota /\ q # NoQuota
      BY <2>2, <2>4, Fields
    <3> QED
      BY <2>2, <2>4, <3>1, Fields, GatewayAssumption DEF AQuota
  <2> DEFINE S == {i \in DOMAIN usage : /\ req[usage[i].by].key = k /\ ~usage[i].cached
                                       /\ usage[i].at >= PeriodStart}
  <2>6. ~(Cost * Cardinality(S) >= q)
    BY <1>6, <2>1, <2>2, <2>3, <2>4 DEF Exhausted, TokensSince
  <2>7. PeriodStart = p * Period /\ Len(usage) \in Nat
    BY <2>1, <2>4, RecordsGrow DEF PeriodStart
  <2>8. ASSUME NEW j \in 0..Len(usage)
        PROVE  Cost * Cardinality(Charged(k, p, j)) < q
    <3>1. ASSUME NEW i \in Charged(k, p, j)
          PROVE  i \in S
      <4>1. i \in DOMAIN usage /\ usage[i].at \in Nat
        <5>1. i \in 1..Len(usage)
          BY <2>7 DEF Charged
        <5> QED
          BY <5>1 DEF GateTyped, EndedRecords, UsageRecords
      <4>2. usage[i].at >= PeriodStart
        BY <2>5, <2>7, <4>1, PeriodStarts DEF Charged, PeriodOf
      <4> QED
        BY <4>1, <4>2 DEF Charged
    <3>2. IsFiniteSet(S)
      <4>1. IsFiniteSet(1..Len(usage))
        BY <2>7, FS_Interval
      <4>2. S \in SUBSET (1..Len(usage))
        BY DEF GateTyped
      <4> HIDE DEF S
      <4> QED
        BY <4>1, <4>2, FS_Subset
    <3> HIDE DEF S
    <3>3. Charged(k, p, j) \in SUBSET S
      BY <3>1
    <3>4. /\ Cardinality(S) \in Nat /\ Cardinality(Charged(k, p, j)) \in Nat
          /\ Cardinality(Charged(k, p, j)) <= Cardinality(S)
      BY <3>2, <3>3, FS_Subset, FS_CardinalityType
    <3> QED
      BY <2>5, <2>6, <3>4, CostGrows
  <2>9. \A j \in 0..w.base : Charged(k, p, j)' = Charged(k, p, j)
    BY <2>1, ChargedStays
  <2>10. UnderQuota(k, p, w.base, q)'
    BY <2>1, <2>8, <2>9 DEF UnderQuota
  <2> QED
    BY <2>1, <2>2, <2>4, <2>7, <2>10 DEF UnderQuota
<1> QED
  BY <1>2, <1>3, <1>4, <1>5, <1>6, OthersStay

\* A key is charged beyond its quota only for requests that were past their check
\* when its records made the quota up.
THEOREM OverrunNeedsARace == Spec => OverrunOnlyTogether
<1>1. GateTyped /\ Asked /\ Within /\ [Next]_vars
        => [\A r \in Requests : At(r, "answered") /\ req'[r].stage = "billed" /\ req[r].from = r
                            /\ req[r].quota # NoQuota => ~Overrun(r)]_vars
  <2> SUFFICES ASSUME GateTyped, Asked, Within, NEW r \in Requests, At(r, "answered"),
                      req[r].quota # NoQuota, Overrun(r)
               PROVE  FALSE
    OBVIOUS
  <2>1. PICK v \in RequestRecords : v = req[r]
    BY Requested
  <2>2. PICK j \in Charged(v.key, PeriodOf(now), Len(usage)) :
          /\ Cost * Cardinality(Charged(v.key, PeriodOf(now), j)) >= v.quota
          /\ v.base >= j /\ v.period = PeriodOf(now)
    BY <2>1 DEF Overrun
  <2>3. UnderQuota(v.key, v.period, v.base, v.quota) /\ v.base \in Nat
    BY <2>1, Fields DEF Within, Checked, At
  <2>4. j \in 0..v.base
    <3>1. Len(usage) \in Nat
      BY DEF GateTyped
    <3> QED
      BY <2>2, <2>3, <3>1 DEF Charged
  <2>5. Cost * Cardinality(Charged(v.key, PeriodOf(now), j)) < v.quota
    BY <2>2, <2>3, <2>4 DEF UnderQuota
  <2>6. v.quota \in Nat
    BY <2>1, Fields, GatewayAssumption DEF AQuota
  <2>7. Cardinality(Charged(v.key, PeriodOf(now), j)) \in Nat
    <3>1. IsFiniteSet(1..j)
      BY <2>3, <2>4, FS_Interval
    <3>2. Charged(v.key, PeriodOf(now), j) \in SUBSET (1..j)
      BY DEF Charged
    <3> QED
      BY <3>1, <3>2, FS_Subset, FS_CardinalityType
  <2> QED
    BY <2>2, <2>5, <2>6, <2>7, CostGrows
<1>2. Init => GateTyped /\ Asked /\ Within
  <2>1. Init => Within
    BY IdleFields DEF Init, Within, Checked
  <2> QED
    BY <2>1, GateInit
<1>3. GateTyped /\ Asked /\ Within /\ [Next]_vars => (GateTyped /\ Asked /\ Within)'
  BY GateNext, WithinNext
<1> QED
  BY <1>1, <1>2, <1>3, PTL DEF Spec, OverrunOnlyTogether

==============================================================================
