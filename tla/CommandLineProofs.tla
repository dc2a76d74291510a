-------------------------- MODULE CommandLineProofs --------------------------
(***************************************************************************)
(* What the command line promises its user: that the model always has the     *)
(* request it works on before it, no result is parted from its call, what is  *)
(* fresh is not elided and no line typed ahead is lost; and that the           *)
(* installation a server is started on keeps the network out while its admin  *)
(* key is the placeholder, is migrated before its workers start, and drops     *)
(* what an old admin key has signed or sealed. The proofs, for any length of   *)
(* a conversation and any workers, databases and numbers of keys.            *)
(***************************************************************************)
EXTENDS Conversation, Installation, FiniteSetTheorems, WellFoundedInduction, TLAPS

-----------------------------------------------------------------------------
(* The conversation. *)

(* The ledger names the request of the turn from its first line on, and what   *)
(* is asked of the model meanwhile adds to it without changing that.         *)
InTurn == {"deciding", "folding", "asking", "running"}
RequestInv ==
    /\ "request" \in DOMAIN turn /\ "task" \in DOMAIN ledger /\ "task" \in DOMAIN storedLedger
    /\ phase \in InTurn => ledger.task = turn.request

(* What is written into a turn under way leaves its request alone. *)
LEMMA TurnGoesOn ==
    ASSUME "request" \in DOMAIN turn
    PROVE  /\ \A b : /\ [turn EXCEPT !.compacted = b].request = turn.request
                     /\ "request" \in DOMAIN [turn EXCEPT !.compacted = b]
           /\ \A b, c : /\ [turn EXCEPT !.called = b, !.work = c].request = turn.request
                        /\ "request" \in DOMAIN [turn EXCEPT !.called = b, !.work = c]
           /\ Spend(turn).request = turn.request /\ "request" \in DOMAIN Spend(turn)
           /\ \A b : /\ [Spend(turn) EXCEPT !.nudged = b].request = turn.request
                     /\ "request" \in DOMAIN [Spend(turn) EXCEPT !.nudged = b]
BY DEF Spend

LEMMA LedgerGoesOn ==
    ASSUME "task" \in DOMAIN ledger, NEW l \in LedgerUpdates(ledger)
    PROVE  l.task = ledger.task /\ "task" \in DOMAIN l
BY DEF LedgerUpdates, MergeModelUpdate

LEMMA TurnStarts ==
    ASSUME RequestInv, NEW r, NEW edit, NEW project, StartTurn(r, edit, project)
    PROVE  RequestInv' /\ turn'.request = r
<1>1. "request" \in DOMAIN turn' /\ turn'.request = r
  BY DEF StartTurn, NoTurn
<1>2. "task" \in DOMAIN ledger' /\ ledger'.task = r
  BY DEF StartTurn, ObserveUser, RequestInv
<1>3. storedLedger' = storedLedger BY DEF StartTurn, Kept
<1> QED BY <1>1, <1>2, <1>3 DEF RequestInv

LEMMA NoTurnIsOn == "request" \in DOMAIN NoTurn /\ "task" \in DOMAIN Empty
BY DEF NoTurn, Empty

LEMMA RequestInit == Init => RequestInv
BY NoTurnIsOn DEF Init, RequestInv, InTurn

(* A step of a turn that goes on, and one that is not in a turn afterwards. *)
LEMMA RequestKept ==
    ASSUME RequestInv, phase \in InTurn, turn'.request = turn.request, "request" \in DOMAIN turn',
           ledger' \in LedgerUpdates(ledger), storedLedger' = storedLedger
    PROVE  RequestInv'
BY LedgerGoesOn DEF RequestInv

LEMMA RequestOver ==
    ASSUME RequestInv, phase' \in {"prompt", "closed"}, turn' \in {turn, NoTurn},
           ledger' \in LedgerUpdates(ledger) \union {Empty, storedLedger},
           storedLedger' \in {ledger, storedLedger}
    PROVE  RequestInv'
BY LedgerGoesOn, NoTurnIsOn DEF RequestInv, InTurn

LEMMA RequestNext == RequestInv /\ [Next]_vars => RequestInv'
<1> SUFFICES ASSUME RequestInv, [Next]_vars PROVE RequestInv'
  OBVIOUS
<1> USE TurnGoesOn
<1> DEFINE Same == ledger \in LedgerUpdates(ledger)
<1>0. Same BY DEF LedgerUpdates
<1>d. "request" \in DOMAIN turn BY DEF RequestInv
<1>1. CASE Ask BY <1>1, TurnStarts DEF Ask
<1>2. CASE RunQueued BY <1>2, TurnStarts DEF RunQueued
<1>3. CASE Submit BY <1>3, <1>0, <1>d, RequestKept DEF Submit, Waiting, InTurn, Kept
<1>4. CASE OutOfTurns BY <1>4, <1>0, RequestOver DEF OutOfTurns, ToPrompt, Stays, Kept
<1>5. CASE Decide
  <2>1. turn'.request = turn.request /\ "request" \in DOMAIN turn' BY <1>5, <1>d DEF Decide
  <2> QED BY <1>5, <1>0, <2>1, RequestKept DEF Decide, InTurn, Stays, Kept
<1>6. CASE EndFold
  <2>1. turn'.request = turn.request /\ "request" \in DOMAIN turn' BY <1>6, <1>d DEF EndFold
  <2> QED BY <1>6, <2>1, RequestKept DEF EndFold, InTurn, Stays, Kept
<1>7. CASE ReplyCalls
  <2>1. turn'.request = turn.request /\ "request" \in DOMAIN turn' BY <1>7, <1>d DEF ReplyCalls
  <2> QED BY <1>7, <1>0, <2>1, RequestKept DEF ReplyCalls, InTurn, Kept
<1>8. ASSUME NEW form \in Forms, ReplyText(form) PROVE RequestInv'
  <2>1. CASE Nudge(form)
    <3>1. turn'.request = turn.request /\ "request" \in DOMAIN turn' BY <2>1, <1>d DEF Nudge
    <3> QED BY <2>1, <1>0, <3>1, RequestKept DEF Nudge, InTurn, Kept
  <2>2. CASE GiveUp(form) BY <2>2, <1>0, RequestOver DEF GiveUp, Kept
  <2>3. CASE Salvage(form)
    <3>1. turn'.request = turn.request /\ "request" \in DOMAIN turn' BY <2>3, <1>d DEF Salvage
    <3> QED BY <2>3, <1>0, <3>1, RequestKept DEF Salvage, InTurn, Kept
  <2>4. CASE ActNow(form)
    <3>1. turn'.request = turn.request /\ "request" \in DOMAIN turn' BY <2>4, <1>d DEF ActNow
    <3> QED BY <2>4, <1>0, <3>1, RequestKept DEF ActNow, InTurn, Kept
  <2>5. CASE Accept(form) BY <2>5, <1>0, RequestOver DEF Accept, ToPrompt
  <2> QED BY <1>8, <2>1, <2>2, <2>3, <2>4, <2>5 DEF ReplyText
<1>9. CASE EndCalls
  <2>1. turn'.request = turn.request /\ "request" \in DOMAIN turn' BY <1>9, <1>d DEF EndCalls
  <2> QED BY <1>9, <1>0, <2>1, RequestKept DEF EndCalls, InTurn, Stays, Kept
<1>10. CASE BackendFails BY <1>10, <1>0, RequestOver DEF BackendFails, ToPrompt, Stays, Kept
<1>11. CASE SubAgentFails BY <1>11, <1>0, RequestOver DEF SubAgentFails, ToPrompt
<1>12. CASE Interrupt BY <1>12, <1>0, RequestOver DEF Interrupt, ToPrompt
<1>13. CASE Clear BY <1>13, RequestOver DEF Clear, AtPrompt
<1>14. CASE CompactNow BY <1>14, <1>0, RequestOver DEF CompactNow, AtPrompt, Kept
<1>15. CASE Resume BY <1>15, RequestOver DEF Resume, AtPrompt
<1>16. CASE Exit BY <1>16, <1>0, RequestOver DEF Exit, AtPrompt, Kept
<1>17. CASE Open BY <1>17, RequestOver DEF Open
<1>18. CASE UNCHANGED vars BY <1>18 DEF vars, RequestInv
<1> QED BY <1>1, <1>2, <1>3, <1>4, <1>5, <1>6, <1>7, <1>8, <1>9, <1>10, <1>11, <1>12, <1>13, <1>14,
           <1>15, <1>16, <1>17, <1>18 DEF Next, Reply

(* Every prompt shows the model the request it is working on: the ledger that  *)
(* is sent along names it, however often the history was folded               *)
(* (SessionLedger.observe_user, merge_model_update).                        *)
THEOREM RequestsStayInSight == Spec => []RequestInSight
<1>1. RequestInv => RequestInSight BY DEF RequestInv, RequestInSight, InTurn
<1> QED BY <1>1, RequestInit, RequestNext, PTL DEF Spec

(* The queue holds what was typed ahead, in the order it was typed. *)
QueueInv == queue \in Seq(Nat) /\ asked \in Nat

LEMMA QueueInit == Init => QueueInv
BY DEF Init, QueueInv

LEMMA QueueMoves ==
    ASSUME Next
    PROVE  \/ UNCHANGED <<queue, asked>>
           \/ queue = <<>> /\ UNCHANGED queue /\ asked' = asked + 1
           \/ queue # <<>> /\ queue' = Tail(queue) /\ turn'.request = Head(queue) /\ UNCHANGED asked
           \/ queue' = Append(queue, asked') /\ asked' = asked + 1
           \/ queue' = <<>> /\ phase' = "closed" /\ UNCHANGED asked
<1>1. CASE Ask BY <1>1 DEF Ask
<1>2. CASE RunQueued
  <2>1. turn'.request = Head(queue) BY <1>2 DEF RunQueued, StartTurn, NoTurn
  <2> QED BY <1>2, <2>1 DEF RunQueued
<1>3. CASE Submit BY <1>3 DEF Submit
<1>4. CASE OutOfTurns \/ Decide \/ EndFold \/ EndCalls \/ BackendFails
  BY <1>4 DEF OutOfTurns, Decide, EndFold, EndCalls, BackendFails, Stays
<1>5. CASE ReplyCalls \/ SubAgentFails \/ Interrupt \/ Open
  BY <1>5 DEF ReplyCalls, Replies, SubAgentFails, Interrupt, Open
<1>6. CASE Clear \/ CompactNow \/ Resume \/ Exit
  BY <1>6 DEF Clear, CompactNow, Resume, Exit, AtPrompt
<1>7. ASSUME NEW form \in Forms, ReplyText(form)
      PROVE  UNCHANGED <<queue, asked>> \/ (queue' = <<>> /\ phase' = "closed" /\ UNCHANGED asked)
  BY <1>7 DEF ReplyText, Nudge, GiveUp, Salvage, ActNow, Accept, Replies
<1> QED BY <1>1, <1>2, <1>3, <1>4, <1>5, <1>6, <1>7 DEF Next, Reply

LEMMA QueueNext == QueueInv /\ [Next]_vars => QueueInv'
<1> SUFFICES ASSUME QueueInv, [Next]_vars PROVE QueueInv'
  OBVIOUS
<1> USE DEF QueueInv
<1>1. CASE Next
  <2>1. asked' \in Nat BY <1>1, QueueMoves
  <2>2. CASE queue # <<>> /\ queue' = Tail(queue) BY <2>1, <2>2
  <2>3. CASE queue' = Append(queue, asked') BY <2>1, <2>3
  <2>4. CASE queue' = queue BY <2>1, <2>4
  <2>5. CASE queue' = <<>> BY <2>1, <2>5
  <2> QED BY <1>1, <2>2, <2>3, <2>4, <2>5, QueueMoves
<1>2. CASE UNCHANGED vars BY <1>2 DEF vars
<1> QED BY <1>1, <1>2

LEMMA RunsTheFirst ==
    ASSUME QueueInv, Next, NEW r \in Range(queue)
    PROVE  r \in Range(queue') \/ phase' = "closed" \/ (turn'.request = r /\ r = Head(queue))
<1>1. PICK i \in 1..Len(queue) : queue[i] = r BY DEF QueueInv, Range
<1>2. CASE queue' = queue BY <1>2
<1>3. CASE queue # <<>> /\ queue' = Tail(queue) /\ turn'.request = Head(queue)
  <2>1. CASE i = 1 BY <1>1, <1>3, <2>1 DEF QueueInv
  <2>2. CASE i > 1
    <3>1. i - 1 \in 1..Len(queue') /\ queue'[i - 1] = r BY <1>1, <1>3, <2>2 DEF QueueInv
    <3>2. i - 1 \in DOMAIN queue' BY <1>3, <3>1 DEF QueueInv
    <3> QED BY <3>1, <3>2 DEF Range
  <2> QED BY <1>1, <2>1, <2>2 DEF QueueInv
<1>4. CASE queue' = Append(queue, asked') /\ asked' = asked + 1
  <2>1. i \in DOMAIN queue' /\ queue'[i] = r BY <1>1, <1>4 DEF QueueInv
  <2> QED BY <2>1 DEF Range
<1> QED BY <1>2, <1>3, <1>4, QueueMoves

(* A line typed ahead leaves the queue only to be run, the first one first,    *)
(* whatever cut the turns before it short; only the end of the shell drops it  *)
(* (run_repl's queue, InterruptWatcher.submitted).                          *)
THEOREM LinesTypedAheadAreRun == Spec => TypedAheadIsRun
<1>1. QueueInv /\ [Next]_vars =>
        [\A r \in Range(queue) :
             \/ r \in Range(queue') \/ phase' = "closed"
             \/ turn'.request = r /\ r = Head(queue)]_vars
  BY RunsTheFirst
<1> QED BY <1>1, QueueInit, QueueNext, PTL DEF Spec, TypedAheadIsRun

-----------------------------------------------------------------------------
(* Least numbers, and what is joined of sequences. *)

(* Any set of natural numbers that is not empty has a least one: what is left  *)
(* to prove by it is that there is no first counterexample.                   *)
LEMMA LeastIsThere ==
    ASSUME NEW T, T \subseteq Nat, T # {}
    PROVE  \E n \in T : \A m \in T : n <= m
<1> DEFINE N == Nat
<1> DEFINE R == OpToRel(<, Nat)
<1>1. IsWellFoundedOn(R, N) BY NatLessThanWellFounded
<1>2. T \subseteq N OBVIOUS
<1>3. PICK x \in T : \A y \in T : ~(<<y, x>> \in R)
  <2> HIDE DEF R, N
  <2> QED BY <1>1, <1>2, WFMin
<1>4. ASSUME NEW y \in T PROVE x <= y
  <2>1. x \in Nat /\ y \in Nat OBVIOUS
  <2>2. ~(<<y, x>> \in R) BY <1>3
  <2>3. ~(y < x) BY <2>1, <2>2 DEF OpToRel
  <2> QED BY <2>1, <2>3
<1> QED BY <1>4

LEMMA MinIsThere ==
    ASSUME NEW T, T \subseteq Nat, T # {}
    PROVE  Min(T) \in T /\ \A m \in T : Min(T) <= m
BY LeastIsThere DEF Min

LEMMA MaxIsThere ==
    ASSUME NEW n \in Nat, NEW T, T \subseteq 0..n, T # {}
    PROVE  Max(T) \in T /\ \A m \in T : m <= Max(T)
<1> DEFINE Below == {k \in Nat : n - k \in T}
<1>1. Below \subseteq Nat /\ Below # {}
  <2>1. PICK m \in T : TRUE OBVIOUS
  <2>2. m \in 0..n /\ n - m \in Nat /\ n - (n - m) = m OBVIOUS
  <2> QED BY <2>1, <2>2
<1>2. PICK k \in Below : \A l \in Below : k <= l
  <2> HIDE DEF Below
  <2> QED BY <1>1, LeastIsThere
<1>3. ASSUME NEW m \in T PROVE m <= n - k
  <2>1. n - m \in Below
    <3>1. m \in 0..n OBVIOUS
    <3>2. n - m \in Nat /\ n - (n - m) = m BY <3>1
    <3> QED BY <3>2
  <2> QED BY <1>2, <2>1
<1>4. \E top \in T : \A m \in T : top >= m BY <1>2, <1>3
<1>5. \A m \in T : m \in Int OBVIOUS
<1>6. Max(T) \in T /\ \A m \in T : Max(T) >= m BY <1>4 DEF Max
<1> QED BY <1>5, <1>6

(* What FlattenSeq joins, it makes of nothing else. *)
LEMMA FlattenTyped ==
    ASSUME NEW S, NEW seqs \in Seq(Seq(S))
    PROVE  FlattenSeq(seqs) \in Seq(S)
<1>1. CASE Len(seqs) = 0 BY <1>1 DEF FlattenSeq
<1>2. CASE Len(seqs) # 0
  <2> DEFINE Joins(f, n) == f = [i \in 1..n |-> IF i = 1 THEN seqs[i] ELSE f[i - 1] \o seqs[i]]
  <2>0. FlattenSeq(seqs) = (CHOOSE f : Joins(f, Len(seqs)))[Len(seqs)]
    BY <1>2 DEF FlattenSeq
  <2>n. Len(seqs) \in Nat /\ Len(seqs) >= 1 BY <1>2
  <2> DEFINE Not == {n \in Nat : n >= 1 /\ ~\E f : Joins(f, n)}
  <2>1. Not = {}
    <3> SUFFICES ASSUME Not # {} PROVE FALSE
      OBVIOUS
    <3>1. Not \subseteq Nat OBVIOUS
    <3>2. PICK n \in Not : \A m \in Not : n <= m
      <4> HIDE DEF Not
      <4> QED BY <3>1, LeastIsThere
    <3>3. CASE n = 1
      <4>1. Joins([i \in 1..1 |-> seqs[1]], 1) OBVIOUS
      <4> QED BY <3>2, <3>3, <4>1
    <3>4. CASE n > 1
      <4>0. n \in Nat OBVIOUS
      <4>1. n - 1 \in Nat /\ n - 1 >= 1 /\ n - 1 \notin Not
        <5>1. n - 1 \in Nat /\ n - 1 >= 1 /\ ~(n <= n - 1) BY <4>0, <3>4
        <5> HIDE DEF Not
        <5> QED BY <3>2, <5>1
      <4>2. PICK g : Joins(g, n - 1) BY <4>1
      <4> DEFINE f == [i \in 1..n |-> IF i < n THEN g[i] ELSE g[n - 1] \o seqs[n]]
      <4>3. \A i \in 1..(n - 1) : g[i] = IF i = 1 THEN seqs[i] ELSE g[i - 1] \o seqs[i]
        BY <4>2
      <4>4. \A i \in 1..n : f[i] = IF i = 1 THEN seqs[i] ELSE f[i - 1] \o seqs[i]
        <5> TAKE i \in 1..n
        <5>1. CASE i < n
          <6>1. i \in 1..(n - 1) /\ f[i] = g[i] /\ (i # 1 => i - 1 \in 1..n /\ i - 1 < n) BY <3>2, <5>1
          <6>2. i # 1 => f[i - 1] = g[i - 1] BY <6>1
          <6> HIDE DEF f
          <6> QED BY <4>3, <6>1, <6>2
        <5>2. CASE i = n
          <6>0. i # 1 /\ n - 1 \in 1..n /\ n - 1 < n /\ ~(n < n) /\ n \in 1..n BY <4>0, <3>4, <5>2
          <6>1. f[n] = g[n - 1] \o seqs[n] BY <6>0
          <6>2. f[n - 1] = g[n - 1] BY <6>0
          <6> HIDE DEF f
          <6> QED BY <5>2, <6>0, <6>1, <6>2
        <5> QED BY <3>2, <5>1, <5>2
      <4>5. Joins(f, n)
        <5>1. f = [i \in 1..n |-> f[i]] OBVIOUS
        <5> HIDE DEF f
        <5> QED BY <4>4, <5>1
      <4> QED BY <3>2, <4>5
    <3> QED BY <3>2, <3>3, <3>4
  <2>2. \E f : Joins(f, Len(seqs)) BY <2>1, <2>n
  <2> DEFINE f == CHOOSE g : Joins(g, Len(seqs))
  <2>3. Joins(f, Len(seqs)) BY <2>2
  <2> HIDE DEF f
  <2>4. \A i \in 1..Len(seqs) : f[i] = IF i = 1 THEN seqs[i] ELSE f[i - 1] \o seqs[i]
    BY <2>3
  <2> DEFINE Ill == {i \in 1..Len(seqs) : f[i] \notin Seq(S)}
  <2>5. Ill = {}
    <3> SUFFICES ASSUME Ill # {} PROVE FALSE
      OBVIOUS
    <3>1. Ill \subseteq Nat OBVIOUS
    <3>2. PICK n \in Ill : \A m \in Ill : n <= m
      <4> HIDE DEF Ill
      <4> QED BY <3>1, LeastIsThere
    <3>3. n \in 1..Len(seqs) /\ f[n] \notin Seq(S) /\ seqs[n] \in Seq(S) OBVIOUS
    <3>4. n # 1 BY <2>4, <3>3
    <3>5. n - 1 \in 1..Len(seqs) /\ n - 1 \notin Ill BY <3>2, <3>3, <3>4
    <3>6. f[n - 1] \in Seq(S) BY <3>5
    <3>7. f[n] = f[n - 1] \o seqs[n] BY <2>4, <3>3, <3>4
    <3> QED BY <3>3, <3>6, <3>7
  <2>6. Len(seqs) \in 1..Len(seqs) BY <2>n
  <2>7. f[Len(seqs)] \in Seq(S) BY <2>5, <2>6
  <2> QED BY <2>0, <2>7 DEF f
<1> QED BY <1>1, <1>2

-----------------------------------------------------------------------------
(* Histories. *)

NoOrphans(h)   == \A j \in DOMAIN h : ~Orphan(h, j)
AllAnswered(h) == \A i \in DOMAIN h : ~Unanswered(h, i)
\* Nobody but an assistant calls, and there are neither calls nor results.
Callers(h) == \A i \in DOMAIN h : h[i].calls > 0 => Is(h[i], "assistant")
Quiet(h)   == \A i \in DOMAIN h : h[i].calls = 0 /\ ~Is(h[i], "tool")

(* From a to b, one history goes like another one d further on. *)
Alike(g, h, d, a, b) ==
    \A k \in a..b : /\ k \in DOMAIN g /\ k + d \in DOMAIN h
                    /\ g[k].role = h[k + d].role /\ g[k].calls = h[k + d].calls

LEMMA MessageFields ==
    ASSUME NEW h \in Seq(Message), NEW i \in DOMAIN h
    PROVE  /\ i \in 1..Len(h) /\ h[i] \in Message /\ h[i].calls \in Nat /\ h[i].calls \in 0..2
           /\ h[i].size \in {"short", "long", "cut"}
<1>1. i \in 1..Len(h) /\ h[i] \in Message OBVIOUS
<1>2. \A m \in Message : m.calls \in 0..2 /\ m.size \in {"short", "long", "cut"} BY DEF Message
<1>3. \A n \in 0..2 : n \in Nat OBVIOUS
<1> HIDE DEF Message
<1> QED BY <1>1, <1>2, <1>3

LEMMA AnswersAlike ==
    ASSUME NEW g \in Seq(Message), NEW h \in Seq(Message), NEW d \in Int, NEW a \in Int, NEW b \in Int,
           Alike(g, h, d, a, b), NEW i \in a..b, NEW j \in a..b
    PROVE  Answers(g, i, j) <=> Answers(h, i + d, j + d)
<1>1. \A k \in (i + 1)..j : k \in a..b /\ k + d \in (i + d + 1)..(j + d) OBVIOUS
<1>2. \A k \in (i + d + 1)..(j + d) : k - d \in (i + 1)..j /\ k - d \in a..b /\ (k - d) + d = k OBVIOUS
<1>3. (\A k \in (i + 1)..j : Is(g[k], "tool")) <=> (\A k \in (i + d + 1)..(j + d) : Is(h[k], "tool"))
  <2>1. ASSUME \A k \in (i + 1)..j : Is(g[k], "tool"), NEW k \in (i + d + 1)..(j + d)
        PROVE  Is(h[k], "tool")
    <3>1. g[k - d].role = h[(k - d) + d].role BY <1>2 DEF Alike
    <3> QED BY <1>2, <2>1, <3>1 DEF Is
  <2>2. ASSUME \A k \in (i + d + 1)..(j + d) : Is(h[k], "tool"), NEW k \in (i + 1)..j
        PROVE  Is(g[k], "tool")
    BY <1>1, <2>2 DEF Alike, Is
  <2> QED BY <2>1, <2>2
<1>4. i \in DOMAIN g /\ j \in DOMAIN g /\ i + d \in DOMAIN h /\ j + d \in DOMAIN h
      /\ g[i].calls = h[i + d].calls /\ i \in Int /\ j \in Int
  BY DEF Alike
<1>5. g[i].calls \in Nat /\ (j > i <=> j + d > i + d)
      /\ (g[i].calls >= j - i <=> h[i + d].calls >= (j + d) - (i + d))
  <2>1. g[i].calls \in Nat BY <1>4, MessageFields
  <2>2. (j + d) - (i + d) = j - i /\ (j > i <=> j + d > i + d) BY <1>4
  <2> QED BY <1>4, <2>1, <2>2
<1> QED BY <1>3, <1>4, <1>5 DEF Answers

LEMMA JoinFields ==
    ASSUME NEW a \in Seq(Message), NEW b \in Seq(Message)
    PROVE  /\ a \o b \in Seq(Message) /\ Len(a \o b) = Len(a) + Len(b) /\ DOMAIN (a \o b) = 1..(Len(a) + Len(b))
           /\ \A i \in 1..Len(a) : (a \o b)[i] = a[i]
           /\ \A i \in 1..Len(b) : (a \o b)[i + Len(a)] = b[i]
           /\ Alike(a, a \o b, 0, 1, Len(a)) /\ Alike(b, a \o b, Len(a), 1, Len(b))
<1>1. /\ a \o b \in Seq(Message) /\ Len(a \o b) = Len(a) + Len(b) /\ DOMAIN (a \o b) = 1..(Len(a) + Len(b))
      /\ \A i \in 1..Len(a) : (a \o b)[i] = a[i]
      /\ \A i \in 1..Len(b) : (a \o b)[i + Len(a)] = b[i]
  OBVIOUS
<1>2. DOMAIN a = 1..Len(a) /\ DOMAIN b = 1..Len(b) /\ Len(a) \in Nat /\ Len(b) \in Nat OBVIOUS
<1>3. \A i \in 1..Len(a) : i \in DOMAIN a /\ i + 0 \in DOMAIN (a \o b) /\ i + 0 = i BY <1>1, <1>2
<1>4. \A i \in 1..Len(b) : i \in DOMAIN b /\ i + Len(a) \in DOMAIN (a \o b) BY <1>1, <1>2
<1> QED BY <1>1, <1>3, <1>4 DEF Alike

LEMMA JoinKeeps ==
    ASSUME NEW a \in Seq(Message), NEW b \in Seq(Message)
    PROVE  /\ NoOrphans(a) /\ NoOrphans(b) => NoOrphans(a \o b)
           /\ AllAnswered(a) /\ AllAnswered(b) => AllAnswered(a \o b)
           /\ Callers(a) /\ Callers(b) => Callers(a \o b)
<1> DEFINE c == a \o b
<1>0. /\ c \in Seq(Message) /\ DOMAIN c = 1..(Len(a) + Len(b)) /\ Len(a) \in Nat /\ Len(b) \in Nat
      /\ DOMAIN a = 1..Len(a) /\ DOMAIN b = 1..Len(b)
      /\ \A i \in 1..Len(a) : c[i] = a[i]
      /\ \A i \in 1..Len(b) : c[i + Len(a)] = b[i]
      /\ Alike(a, c, 0, 1, Len(a)) /\ Alike(b, c, Len(a), 1, Len(b))
  BY JoinFields
<1> HIDE DEF c
<1>a. \A i, j \in 1..Len(a) : Answers(a, i, j) <=> Answers(c, i, j)
  <2>1. \A i, j \in 1..Len(a) : Answers(a, i, j) <=> Answers(c, i + 0, j + 0)
    BY <1>0, AnswersAlike
  <2> QED BY <1>0, <2>1
<1>b. \A i, j \in 1..Len(b) : Answers(b, i, j) <=> Answers(c, i + Len(a), j + Len(a))
  BY <1>0, AnswersAlike
<1>c. \A k \in DOMAIN c : k \in 1..Len(a) \/ (k - Len(a) \in 1..Len(b) /\ (k - Len(a)) + Len(a) = k /\ c[k] = b[k - Len(a)])
  <2> TAKE k \in DOMAIN c
  <2>1. CASE k <= Len(a) BY <1>0, <2>1
  <2>2. CASE k > Len(a)
    <3>1. k - Len(a) \in 1..Len(b) /\ (k - Len(a)) + Len(a) = k BY <1>0, <2>2
    <3>2. c[(k - Len(a)) + Len(a)] = b[k - Len(a)] BY <1>0, <3>1
    <3> QED BY <3>1, <3>2
  <2> QED BY <1>0, <2>1, <2>2
<1>1. ASSUME NoOrphans(a), NoOrphans(b) PROVE NoOrphans(c)
  <2> SUFFICES ASSUME NEW j \in DOMAIN c, Is(c[j], "tool")
               PROVE  \E i \in 1..(j - 1) : Answers(c, i, j)
    BY DEF NoOrphans, Orphan
  <2>1. CASE j \in 1..Len(a)
    <3>1. Is(a[j], "tool") BY <1>0, <2>1
    <3>2. PICK i \in 1..(j - 1) : Answers(a, i, j) BY <1>0, <1>1, <2>1, <3>1 DEF NoOrphans, Orphan
    <3>3. i \in 1..Len(a) BY <1>0, <2>1
    <3> QED BY <1>a, <2>1, <3>2, <3>3
  <2>2. CASE j - Len(a) \in 1..Len(b) /\ (j - Len(a)) + Len(a) = j /\ c[j] = b[j - Len(a)]
    <3>1. PICK i \in 1..((j - Len(a)) - 1) : Answers(b, i, j - Len(a))
      BY <1>0, <1>1, <2>2 DEF NoOrphans, Orphan
    <3>2. i \in 1..Len(b) /\ i + Len(a) \in 1..(j - 1) BY <1>0, <2>2
    <3>3. Answers(c, i + Len(a), (j - Len(a)) + Len(a)) BY <1>b, <2>2, <3>1, <3>2
    <3> QED BY <2>2, <3>2, <3>3
  <2> QED BY <1>c, <2>1, <2>2
<1>2. ASSUME AllAnswered(a), AllAnswered(b) PROVE AllAnswered(c)
  <2> SUFFICES ASSUME NEW i \in DOMAIN c, c[i].calls > 0
               PROVE  Answers(c, i, i + c[i].calls)
    BY DEF AllAnswered, Unanswered
  <2>1. CASE i \in 1..Len(a)
    <3>1. c[i].calls = a[i].calls BY <1>0, <2>1
    <3>2. Answers(a, i, i + a[i].calls) BY <1>0, <1>2, <2>1, <3>1 DEF AllAnswered, Unanswered
    <3>3. i + a[i].calls \in 1..Len(a) BY <1>0, <3>2 DEF Answers
    <3> QED BY <1>a, <2>1, <3>1, <3>2, <3>3
  <2>2. CASE i - Len(a) \in 1..Len(b) /\ (i - Len(a)) + Len(a) = i /\ c[i] = b[i - Len(a)]
    <3> DEFINE k == i - Len(a)
    <3>1. b[k].calls \in Nat /\ b[k].calls > 0 BY <1>0, <2>2, MessageFields
    <3>2. Answers(b, k, k + b[k].calls) BY <1>0, <1>2, <2>2, <3>1 DEF AllAnswered, Unanswered
    <3>3. k + b[k].calls \in 1..Len(b) BY <1>0, <3>2 DEF Answers
    <3>4. Answers(c, k + Len(a), (k + b[k].calls) + Len(a)) BY <1>b, <2>2, <3>2, <3>3
    <3>5. k + Len(a) = i /\ (k + b[k].calls) + Len(a) = i + c[i].calls BY <1>0, <2>2, <3>1
    <3> QED BY <3>4, <3>5
  <2> QED BY <1>c, <2>1, <2>2
<1>3. ASSUME Callers(a), Callers(b) PROVE Callers(c)
  BY <1>0, <1>c, <1>3 DEF Callers
<1> QED BY <1>1, <1>2, <1>3 DEF c

LEMMA QuietKeeps ==
    ASSUME NEW h \in Seq(Message), Quiet(h)
    PROVE  NoOrphans(h) /\ AllAnswered(h) /\ Callers(h)
BY MessageFields DEF Quiet, NoOrphans, Orphan, AllAnswered, Unanswered, Callers

LEMMA PrefixKeeps ==
    ASSUME NEW h \in Seq(Message), NEW n \in 0..Len(h)
    PROVE  /\ SubSeq(h, 1, n) \in Seq(Message) /\ Len(SubSeq(h, 1, n)) = n
           /\ \A i \in 1..n : SubSeq(h, 1, n)[i] = h[i]
           /\ NoOrphans(h) => NoOrphans(SubSeq(h, 1, n))
           /\ Callers(h) => Callers(SubSeq(h, 1, n))
           /\ (\A i \in 1..n : ~Unanswered(h, i) /\ i + h[i].calls <= n) => AllAnswered(SubSeq(h, 1, n))
<1> DEFINE p == SubSeq(h, 1, n)
<1>1. p \in Seq(Message) /\ Len(p) = n /\ DOMAIN p = 1..n /\ (\A i \in 1..n : p[i] = h[i] /\ i \in DOMAIN h)
      /\ n \in Nat /\ DOMAIN h = 1..Len(h)
  OBVIOUS
<1> HIDE DEF p
<1>2. Alike(p, h, 0, 1, n)
  <2>1. \A i \in 1..n : i + 0 = i OBVIOUS
  <2> QED BY <1>1, <2>1 DEF Alike
<1>3. \A i, j \in 1..n : Answers(p, i, j) <=> Answers(h, i, j)
  <2>1. \A i, j \in 1..n : Answers(p, i, j) <=> Answers(h, i + 0, j + 0) BY <1>1, <1>2, AnswersAlike
  <2>2. \A i \in 1..n : i + 0 = i OBVIOUS
  <2> QED BY <2>1, <2>2
<1>4. ASSUME NoOrphans(h) PROVE NoOrphans(p)
  <2> SUFFICES ASSUME NEW j \in 1..n, Is(p[j], "tool")
               PROVE  \E i \in 1..(j - 1) : Answers(p, i, j)
    BY <1>1 DEF NoOrphans, Orphan
  <2>1. Is(h[j], "tool") /\ j \in DOMAIN h BY <1>1
  <2>2. PICK i \in 1..(j - 1) : Answers(h, i, j) BY <1>4, <2>1 DEF NoOrphans, Orphan
  <2>3. i \in 1..n BY <1>1
  <2> QED BY <1>3, <2>2, <2>3
<1>5. Callers(h) => Callers(p) BY <1>1 DEF Callers
<1>6. ASSUME \A i \in 1..n : ~Unanswered(h, i) /\ i + h[i].calls <= n PROVE AllAnswered(p)
  <2> SUFFICES ASSUME NEW i \in 1..n, p[i].calls > 0
               PROVE  Answers(p, i, i + p[i].calls)
    BY <1>1 DEF AllAnswered, Unanswered
  <2>1. p[i].calls = h[i].calls /\ h[i].calls \in Nat BY <1>1, MessageFields
  <2>2. Answers(h, i, i + h[i].calls) BY <1>6, <2>1 DEF Unanswered
  <2>3. i + h[i].calls \in 1..n BY <1>1, <1>6, <2>1
  <2> QED BY <1>3, <2>1, <2>2, <2>3
<1> QED BY <1>1, <1>4, <1>5, <1>6 DEF p

LEMMA SuffixKeeps ==
    ASSUME NEW h \in Seq(Message), NEW e \in 1..(Len(h) + 1), e <= Len(h) => ~Is(h[e], "tool")
    PROVE  /\ SubSeq(h, e, Len(h)) \in Seq(Message) /\ Len(SubSeq(h, e, Len(h))) = Len(h) + 1 - e
           /\ \A i \in 1..(Len(h) + 1 - e) : SubSeq(h, e, Len(h))[i] = h[i + (e - 1)]
           /\ NoOrphans(h) => NoOrphans(SubSeq(h, e, Len(h)))
           /\ AllAnswered(h) => AllAnswered(SubSeq(h, e, Len(h)))
           /\ Callers(h) => Callers(SubSeq(h, e, Len(h)))
<1> DEFINE s == SubSeq(h, e, Len(h))
<1> DEFINE d == e - 1
<1> DEFINE n == Len(h) + 1 - e
<1>1. s \in Seq(Message) /\ Len(s) = n /\ DOMAIN s = 1..n /\ n \in Nat /\ d \in Nat
      /\ DOMAIN h = 1..Len(h) /\ Len(h) \in Nat /\ n + d = Len(h) /\ d + 1 = e
  OBVIOUS
<1>2. \A i \in 1..n : s[i] = h[i + d] /\ i + d \in DOMAIN h OBVIOUS
<1> HIDE DEF s, d, n
<1>3. Alike(s, h, d, 1, n) BY <1>1, <1>2 DEF Alike
<1>4. \A i, j \in 1..n : Answers(s, i, j) <=> Answers(h, i + d, j + d) BY <1>1, <1>3, AnswersAlike
<1>5. ASSUME NoOrphans(h) PROVE NoOrphans(s)
  <2> SUFFICES ASSUME NEW j \in 1..n, Is(s[j], "tool")
               PROVE  \E i \in 1..(j - 1) : Answers(s, i, j)
    BY <1>1 DEF NoOrphans, Orphan
  <2>1. PICK x \in DOMAIN h : x = j + d /\ Is(h[x], "tool") BY <1>2
  <2>2. PICK i \in 1..(x - 1) : Answers(h, i, x) BY <1>5, <2>1 DEF NoOrphans, Orphan
  <2>3. i >= e
    <3> SUFFICES ASSUME i < e PROVE FALSE
      BY <1>1
    <3>1. e \in (i + 1)..x BY <1>1, <2>1
    <3>2. Is(h[e], "tool") BY <2>2, <3>1 DEF Answers
    <3>3. e <= Len(h) BY <1>1, <2>1, <3>1
    <3> QED BY <3>2, <3>3
  <2>4. i - d \in 1..n /\ i - d \in 1..(j - 1) /\ (i - d) + d = i BY <1>1, <2>1, <2>3
  <2> QED BY <1>4, <2>1, <2>2, <2>4
<1>6. ASSUME AllAnswered(h) PROVE AllAnswered(s)
  <2> SUFFICES ASSUME NEW i \in 1..n, s[i].calls > 0
               PROVE  Answers(s, i, i + s[i].calls)
    BY <1>1 DEF AllAnswered, Unanswered
  <2>1. s[i].calls = h[i + d].calls /\ i + d \in DOMAIN h /\ s[i].calls \in Nat
    BY <1>1, <1>2, MessageFields
  <2>2. Answers(h, i + d, (i + d) + s[i].calls) BY <1>6, <2>1 DEF AllAnswered, Unanswered
  <2>3. i + s[i].calls \in 1..n BY <1>1, <2>1, <2>2 DEF Answers
  <2>4. (i + s[i].calls) + d = (i + d) + s[i].calls BY <1>1, <2>1
  <2> QED BY <1>4, <2>2, <2>3, <2>4
<1>7. Callers(h) => Callers(s) BY <1>1, <1>2 DEF Callers
<1> QED BY <1>1, <1>2, <1>5, <1>6, <1>7 DEF s, d, n

LEMMA AlikeKeeps ==
    ASSUME NEW g \in Seq(Message), NEW h \in Seq(Message), Len(g) = Len(h), Alike(g, h, 0, 1, Len(h))
    PROVE  /\ NoOrphans(h) => NoOrphans(g)
           /\ AllAnswered(h) => AllAnswered(g)
           /\ Callers(h) => Callers(g)
<1> DEFINE n == Len(h)
<1>1. DOMAIN g = 1..n /\ DOMAIN h = 1..n /\ n \in Nat OBVIOUS
<1> HIDE DEF n
<1>2. \A i \in 1..n : g[i].role = h[i].role /\ g[i].calls = h[i].calls
  <2>1. \A i \in 1..n : i + 0 = i OBVIOUS
  <2> QED BY <2>1 DEF n, Alike
<1>3. \A i, j \in 1..n : Answers(g, i, j) <=> Answers(h, i, j)
  <2>1. \A i, j \in 1..n : Answers(g, i, j) <=> Answers(h, i + 0, j + 0) BY <1>1, AnswersAlike DEF n
  <2>2. \A i \in 1..n : i + 0 = i OBVIOUS
  <2> QED BY <2>1, <2>2
<1>4. ASSUME NoOrphans(h) PROVE NoOrphans(g)
  <2> SUFFICES ASSUME NEW j \in 1..n, Is(g[j], "tool")
               PROVE  \E i \in 1..(j - 1) : Answers(g, i, j)
    BY <1>1 DEF NoOrphans, Orphan
  <2>1. PICK i \in 1..(j - 1) : Answers(h, i, j) BY <1>1, <1>2, <1>4 DEF NoOrphans, Orphan, Is
  <2>2. i \in 1..n BY <1>1
  <2> QED BY <1>3, <2>1, <2>2
<1>5. ASSUME AllAnswered(h) PROVE AllAnswered(g)
  <2> SUFFICES ASSUME NEW i \in 1..n, g[i].calls > 0
               PROVE  Answers(g, i, i + g[i].calls)
    BY <1>1 DEF AllAnswered, Unanswered
  <2>1. Answers(h, i, i + g[i].calls) BY <1>1, <1>2, <1>5 DEF AllAnswered, Unanswered
  <2>2. i + g[i].calls \in 1..n BY <1>1, <2>1 DEF Answers
  <2> QED BY <1>3, <2>1, <2>2
<1>6. Callers(h) => Callers(g) BY <1>1, <1>2 DEF Callers, Is
<1> QED BY <1>4, <1>5, <1>6

(* What the cheap steps make of a history: the same messages, some of those     *)
(* before the tail or the latest exchange with less text, none of a user.     *)
Trimmed(g, h) ==
    /\ g \in Seq(Message) /\ Len(g) = Len(h)
    /\ \A i \in 1..Len(h) :
         /\ g[i].role = h[i].role /\ g[i].calls = h[i].calls
         /\ \/ g[i].size = h[i].size
            \/ /\ g[i].size = "cut" /\ i >= 2 /\ (i < TailStart(h) \/ i < LastExchange(h))
               /\ h[i].role \in {"tool", "assistant"}

LEMMA CutDownTrims ==
    ASSUME NEW h \in Seq(Message), NEW g, Trimmed(g, h), NEW role \in {"tool", "assistant"},
           NEW end \in {TailStart(h), LastExchange(h)}, end \in Int
    PROVE  /\ Trimmed(CutDown(g, role, end), h)
           /\ \A i \in 1..Len(h) : CutDown(g, role, end)[i].size =
                 IF i \in 2..(end - 1) /\ h[i].role = role /\ g[i].size = "long" THEN "cut" ELSE g[i].size
<1> DEFINE c == CutDown(g, role, end)
<1>1. DOMAIN g = 1..Len(h) /\ \A i \in 1..Len(h) : g[i] \in Message /\ i \in Int BY DEF Trimmed
<1>2. c = [i \in 1..Len(h) |-> IF i \in 2..(end - 1) /\ Is(g[i], role) /\ g[i].size = "long"
                               THEN [g[i] EXCEPT !.size = "cut"] ELSE g[i]]
  BY <1>1 DEF CutDown
<1> HIDE DEF c
<1>3. \A m \in Message : /\ [m EXCEPT !.size = "cut"] \in Message /\ [m EXCEPT !.size = "cut"].size = "cut"
                         /\ [m EXCEPT !.size = "cut"].role = m.role /\ [m EXCEPT !.size = "cut"].calls = m.calls
  BY DEF Message
<1>4. \A i \in 1..Len(h) : c[i] \in Message BY <1>1, <1>2, <1>3
<1>5. c \in Seq(Message) /\ Len(c) = Len(h)
  <2>1. Len(h) \in Nat OBVIOUS
  <2>2. c \in [1..Len(h) -> Message] BY <1>2, <1>4
  <2> QED BY <2>1, <2>2
<1>6. ASSUME NEW i \in 1..Len(h)
      PROVE  /\ c[i].role = h[i].role /\ c[i].calls = h[i].calls
             /\ c[i].size = IF i \in 2..(end - 1) /\ h[i].role = role /\ g[i].size = "long" THEN "cut" ELSE g[i].size
             /\ \/ c[i].size = h[i].size
                \/ /\ c[i].size = "cut" /\ i >= 2 /\ (i < TailStart(h) \/ i < LastExchange(h))
                   /\ h[i].role \in {"tool", "assistant"}
  <2>1. g[i].role = h[i].role /\ g[i].calls = h[i].calls /\ g[i] \in Message BY <1>1 DEF Trimmed
  <2>2. CASE i \in 2..(end - 1) /\ h[i].role = role /\ g[i].size = "long"
    <3>1. c[i] = [g[i] EXCEPT !.size = "cut"] BY <1>2, <2>1, <2>2 DEF Is
    <3>2. i >= 2 /\ i < end BY <2>2
    <3> QED BY <1>3, <2>1, <2>2, <3>1, <3>2
  <2>3. CASE ~(i \in 2..(end - 1) /\ h[i].role = role /\ g[i].size = "long")
    <3>1. c[i] = g[i] BY <1>2, <2>1, <2>3 DEF Is
    <3> QED BY <2>1, <2>3, <3>1 DEF Trimmed
  <2> QED BY <2>2, <2>3
<1> QED BY <1>5, <1>6 DEF Trimmed, c

LEMMA TrimmedSelf == ASSUME NEW h \in Seq(Message) PROVE Trimmed(h, h)
BY DEF Trimmed

(* Where the tail and the latest exchange of a history begin. *)
LEMMA LastExchangeIs ==
    ASSUME NEW h \in Seq(Message)
    PROVE  /\ LastExchange(h) \in 2..(Len(h) + 1) \/ (Len(h) = 0 /\ LastExchange(h) = 1)
           /\ LastExchange(h) <= Len(h) => Is(h[LastExchange(h)], "assistant")
           /\ \A i \in 2..Len(h) : Is(h[i], "assistant") => i <= LastExchange(h) /\ LastExchange(h) <= Len(h)
<1> DEFINE at == {i \in 2..Len(h) : Is(h[i], "assistant")}
<1>1. Len(h) \in Nat /\ at \subseteq 0..Len(h) OBVIOUS
<1>2. LastExchange(h) = IF at = {} THEN Len(h) + 1 ELSE Max(at) BY DEF LastExchange
<1>3. CASE at = {} BY <1>1, <1>2, <1>3
<1>4. CASE at # {}
  <2>1. Max(at) \in at /\ \A m \in at : m <= Max(at)
    <3> HIDE DEF at
    <3> QED BY <1>1, <1>4, MaxIsThere
  <2>2. LastExchange(h) = Max(at) BY <1>2, <1>4
  <2>3. LastExchange(h) \in 2..Len(h) /\ Is(h[LastExchange(h)], "assistant") BY <2>1, <2>2
  <2>4. \A i \in 2..Len(h) : Is(h[i], "assistant") => i <= LastExchange(h)
    <3> TAKE i \in 2..Len(h)
    <3>1. Is(h[i], "assistant") => i \in at OBVIOUS
    <3> HIDE DEF at
    <3> QED BY <2>1, <2>2, <3>1
  <2> QED BY <1>1, <2>3, <2>4
<1> QED BY <1>3, <1>4

LEMMA MaxOfTwo ==
    ASSUME NEW a \in Nat, NEW b \in Nat
    PROVE  Max({a, b}) = IF a >= b THEN a ELSE b
<1>1. Max({a, b}) \in {a, b} /\ \A m \in {a, b} : m <= Max({a, b})
  <2>1. {a, b} \subseteq 0..(a + b) /\ a + b \in Nat OBVIOUS
  <2> QED BY <2>1, MaxIsThere
<1> QED BY <1>1

LEMMA TailStartIs ==
    ASSUME NEW h \in Seq(Message), Len(h) > 2
    PROVE  /\ TailStart(h) \in 2..Len(h)
           /\ TailStart(h) = 2 \/ ~Is(h[TailStart(h)], "tool")
           /\ KeepRecent > 1 => TailStart(h) < Len(h)
<1>0. KeepRecent \in Nat /\ KeepRecent >= 1 /\ Len(h) \in Nat BY ConversationAssumption
<1> DEFINE first == Max({2, Len(h) - KeepRecent + 1})
<1>1. first \in 2..Len(h) /\ (KeepRecent > 1 => first < Len(h))
  <2>1. CASE Len(h) - KeepRecent + 1 \in Nat
    <3>1. first = IF 2 >= Len(h) - KeepRecent + 1 THEN 2 ELSE Len(h) - KeepRecent + 1 BY <2>1, MaxOfTwo
    <3> QED BY <1>0, <3>1
  <2>2. CASE Len(h) - KeepRecent + 1 < 0
    <3>1. first = 2 BY <1>0, <2>2 DEF Max
    <3> QED BY <1>0, <3>1
  <2> QED BY <1>0, <2>1, <2>2
<1> HIDE DEF first
<1> DEFINE starts == {i \in 2..first : i = 2 \/ ~Is(h[i], "tool")}
<1>2. starts \subseteq 0..first /\ 2 \in starts /\ first \in Nat BY <1>0, <1>1
<1>3. TailStart(h) = Max(starts) BY DEF TailStart, first
<1>4. Max(starts) \in starts
  <2> HIDE DEF starts
  <2> QED BY <1>2, MaxIsThere
<1> QED BY <1>0, <1>1, <1>3, <1>4

LEMMA TailBeforeLast ==
    ASSUME NEW h \in Seq(Message), Len(h) > 2, KeepRecent > 1,
           \A i \in (LastExchange(h) + 1)..Len(h) : Is(h[i], "tool") \/ i = Len(h)
    PROVE  TailStart(h) <= LastExchange(h)
<1>1. TailStart(h) \in 2..Len(h) /\ (TailStart(h) = 2 \/ ~Is(h[TailStart(h)], "tool")) /\ TailStart(h) < Len(h)
  BY TailStartIs
<1>2. LastExchange(h) \in 2..(Len(h) + 1) BY LastExchangeIs
<1> QED BY <1>1, <1>2

LEMMA FoldEndIs ==
    ASSUME NEW h \in Seq(Message), NEW tail \in Nat, tail >= 2, NEW force \in BOOLEAN
    PROVE  FoldEnd(h, tail, force) \in 2..tail
           /\ (FoldEnd(h, tail, force) = tail \/ ~Is(h[FoldEnd(h, tail, force)], "tool"))
<1> DEFINE half == IF force THEN tail ELSE Max({2, (tail \div 2) + 1})
<1>1. half \in 2..tail
  <2>1. tail \div 2 \in Nat /\ (tail \div 2) + 1 \in Nat /\ (tail \div 2) + 1 <= tail OBVIOUS
  <2>2. Max({2, (tail \div 2) + 1}) = IF 2 >= (tail \div 2) + 1 THEN 2 ELSE (tail \div 2) + 1
    BY <2>1, MaxOfTwo
  <2> QED BY <2>1, <2>2
<1> HIDE DEF half
<1> DEFINE ends == {i \in half..tail : i = tail \/ ~Is(h[i], "tool")}
<1>2. ends \subseteq Nat /\ tail \in ends BY <1>1
<1>3. FoldEnd(h, tail, force) = Min(ends) BY DEF FoldEnd, half
<1>4. Min(ends) \in ends
  <2> HIDE DEF ends
  <2> QED BY <1>2, MinIsThere
<1> QED BY <1>1, <1>3, <1>4

LEMMA StepsTrim ==
    ASSUME NEW h \in Seq(Message), Len(h) > 2
    PROVE  /\ \A k \in 1..4 : Trimmed(Steps(h)[k], h)
           /\ \A i \in 2..(LastExchange(h) - 1) :
                i <= Len(h) /\ h[i].role \in {"tool", "assistant"} => Steps(h)[4][i].size # "long"
<1> DEFINE tail == TailStart(h)
<1> DEFINE last == LastExchange(h)
<1> DEFINE s1 == CutDown(h, "tool", tail)
<1> DEFINE s2 == CutDown(s1, "assistant", tail)
<1> DEFINE s3 == CutDown(s2, "tool", last)
<1> DEFINE s4 == CutDown(s3, "assistant", last)
<1>1. Steps(h) = <<s1, s2, s3, s4>> BY DEF Steps, ElideToolResults, ShrinkAssistantMessages
<1>2. tail \in {TailStart(h), LastExchange(h)} /\ last \in {TailStart(h), LastExchange(h)}
      /\ tail \in Int /\ last \in Int /\ last \in 2..(Len(h) + 1)
  BY TailStartIs, LastExchangeIs
<1>3. Trimmed(s1, h) BY <1>2, TrimmedSelf, CutDownTrims
<1> HIDE DEF s1
<1>4. Trimmed(s2, h) BY <1>2, <1>3, CutDownTrims
<1> HIDE DEF s2
<1>5. Trimmed(s3, h) /\ \A i \in 1..Len(h) : s3[i].size =
        IF i \in 2..(last - 1) /\ h[i].role = "tool" /\ s2[i].size = "long" THEN "cut" ELSE s2[i].size
  BY <1>2, <1>4, CutDownTrims
<1> HIDE DEF s3
<1>6. Trimmed(s4, h) /\ \A i \in 1..Len(h) : s4[i].size =
        IF i \in 2..(last - 1) /\ h[i].role = "assistant" /\ s3[i].size = "long" THEN "cut" ELSE s3[i].size
  BY <1>2, <1>5, CutDownTrims
<1> HIDE DEF s4, tail, last
<1>7. \A k \in 1..4 : Trimmed(Steps(h)[k], h)
  <2> TAKE k \in 1..4
  <2>1. k = 1 \/ k = 2 \/ k = 3 \/ k = 4 OBVIOUS
  <2> QED BY <1>1, <1>3, <1>4, <1>5, <1>6, <2>1
<1>8. ASSUME NEW i \in 2..(last - 1), i <= Len(h), h[i].role \in {"tool", "assistant"}
      PROVE  s4[i].size # "long"
  <2>1. i \in 1..Len(h) BY <1>2, <1>8
  <2> QED BY <1>5, <1>6, <1>8, <2>1
<1> QED BY <1>1, <1>7, <1>8 DEF last

LEMMA PlainTyped ==
    ASSUME NEW role \in {"system", "user", "assistant", "tool"}
    PROVE  /\ Plain(role) \in Message /\ Plain(role).role = role /\ Plain(role).calls = 0
           /\ Plain(role).size = "short"
BY DEF Plain, Message

LEMMA SaysTyped ==
    ASSUME NEW words \in Seq(Request)
    PROVE  /\ Says(words) \in Message /\ [Says(words) EXCEPT !.handled = TRUE] \in Message
           /\ LET m == [Says(words) EXCEPT !.handled = TRUE]
              IN m.role = "user" /\ m.calls = 0 /\ m.size = "short"
           /\ Says(words).role = "user" /\ Says(words).calls = 0 /\ Says(words).size = "short"
<1>1. ASSUME NEW m \in Message, NEW w \in Seq(Request)
      PROVE  /\ [m EXCEPT !.asks = w] \in Message /\ [m EXCEPT !.asks = w].role = m.role
             /\ [m EXCEPT !.asks = w].calls = m.calls /\ [m EXCEPT !.asks = w].size = m.size
  BY DEF Message
<1>2. ASSUME NEW m \in Message
      PROVE  /\ [m EXCEPT !.handled = TRUE] \in Message /\ [m EXCEPT !.handled = TRUE].role = m.role
             /\ [m EXCEPT !.handled = TRUE].calls = m.calls /\ [m EXCEPT !.handled = TRUE].size = m.size
  BY DEF Message
<1>3. Says(words) = [Plain("user") EXCEPT !.asks = words] BY DEF Says
<1>4. /\ Plain("user") \in Message /\ Plain("user").role = "user" /\ Plain("user").calls = 0
      /\ Plain("user").size = "short"
  BY PlainTyped
<1>5. /\ Says(words) \in Message /\ Says(words).role = "user" /\ Says(words).calls = 0
      /\ Says(words).size = "short"
  BY <1>1, <1>3, <1>4
<1> QED BY <1>2, <1>5

LEMMA WordsTyped ==
    ASSUME NEW h \in Seq(Message), NEW users
    PROVE  FlattenSeq([i \in DOMAIN h |-> IF i \in users THEN Clipped(h[i]) ELSE <<>>]) \in Seq(Request)
<1> DEFINE s == [i \in DOMAIN h |-> IF i \in users THEN Clipped(h[i]) ELSE <<>>]
<1>1. ASSUME NEW m \in Message PROVE Clipped(m) \in Seq(Request)
  <2>1. m.asks \in Seq(Request) BY DEF Message
  <2>2. {Room, Len(m.asks)} \subseteq Nat BY <2>1, ConversationAssumption
  <2>3. Min({Room, Len(m.asks)}) \in Nat /\ Min({Room, Len(m.asks)}) <= Len(m.asks) BY <2>2, MinIsThere
  <2> DEFINE k == Min({Room, Len(m.asks)})
  <2>4. ASSUME NEW q \in Seq(Request), NEW n \in Nat, n <= Len(q) PROVE SubSeq(q, 1, n) \in Seq(Request)
    BY <2>4
  <2>5. SubSeq(m.asks, 1, k) \in Seq(Request) BY <2>1, <2>3, <2>4
  <2>6. Clipped(m) = IF m.size = "long" THEN <<>> ELSE SubSeq(m.asks, 1, k) BY DEF Clipped
  <2> HIDE DEF k
  <2> QED BY <2>5, <2>6
<1>2. s \in [1..Len(h) -> Seq(Request)]
  <2>1. \A i \in 1..Len(h) : h[i] \in Message /\ DOMAIN h = 1..Len(h) OBVIOUS
  <2>2. DOMAIN h = 1..Len(h) OBVIOUS
  <2> QED BY <1>1, <2>1, <2>2
<1>3. s \in Seq(Seq(Request))
  <2>1. Len(h) \in Nat OBVIOUS
  <2> HIDE DEF s
  <2> QED BY <1>2, <2>1
<1> QED BY <1>3, FlattenTyped

(* A fold keeps the system prompt and the messages from its end on, whole       *)
(* exchanges of them, behind at most two that call nothing.                   *)
Folded(f, g, end, n) ==
    /\ f \in Seq(Message) /\ Len(f) = Len(g) + 2 - end + n
    /\ f[1] = g[1]
    /\ n = 2 => /\ f[2].role = "user" /\ f[2].size = "short" /\ f[2].calls = 0
                /\ f[3] = Plain("assistant")
    /\ \A i \in end..Len(g) : f[i - end + 2 + n] = g[i]
    /\ NoOrphans(g) => NoOrphans(f)
    /\ AllAnswered(g) => AllAnswered(f)
    /\ Callers(g) => Callers(f)

LEMMA FoldIs ==
    ASSUME NEW g \in Seq(Message), NEW end \in 2..Len(g), ~Is(g[end], "tool"),
           Is(g[1], "system"), Callers(g)
    PROVE  \E n \in {0, 2} : Folded(Fold(g, end), g, end, n) /\ (n = 2 => end > 2)
<1>0. Len(g) \in Nat /\ end \in Nat /\ 1 \in DOMAIN g /\ g[1] \in Message OBVIOUS
<1> DEFINE folded == SubSeq(g, 2, end - 1)
<1> DEFINE users == {i \in DOMAIN folded : Is(folded[i], "user")}
<1> DEFINE words == FlattenSeq([i \in DOMAIN folded |-> IF i \in users THEN Clipped(folded[i]) ELSE <<>>])
<1> DEFINE merged == IF users = {} THEN <<>>
                     ELSE <<[Says(words) EXCEPT !.handled = TRUE], Plain("assistant")>>
<1> DEFINE rest == SubSeq(g, end, Len(g))
<1>1. Fold(g, end) = (<<g[1]>> \o merged) \o rest BY DEF Fold
<1>2. folded \in Seq(Message) /\ (end = 2 => folded = <<>>) BY <1>0
<1>3. words \in Seq(Request)
  <2> HIDE DEF folded, users
  <2> QED BY <1>2, WordsTyped
<1>4. [Says(words) EXCEPT !.handled = TRUE] \in Message /\ Plain("assistant") \in Message
  <2> HIDE DEF words
  <2> QED BY <1>3, SaysTyped, PlainTyped
<1>5. end = 2 => users = {} BY <1>2
<1> DEFINE n == Len(merged)
<1>6. merged \in Seq(Message) /\ n \in {0, 2} /\ (n = 2 => end > 2) /\ Quiet(merged)
      /\ (n = 2 => /\ merged[1].role = "user" /\ merged[1].size = "short" /\ merged[1].calls = 0
                   /\ merged[2] = Plain("assistant"))
  <2>1. CASE users = {} BY <2>1 DEF Quiet
  <2>2. CASE users # {}
    <3> DEFINE m1 == [Says(words) EXCEPT !.handled = TRUE]
    <3> DEFINE m2 == Plain("assistant")
    <3>1. merged = <<m1, m2>> BY <2>2
    <3>2. m1 \in Message /\ m2 \in Message BY <1>4
    <3>3. m1.role = "user" /\ m1.size = "short" /\ m1.calls = 0 /\ m2.role = "assistant" /\ m2.calls = 0
      <4> HIDE DEF words
      <4> QED BY <1>3, SaysTyped, PlainTyped
    <3>4. end > 2 BY <1>0, <1>5, <2>2
    <3> HIDE DEF m1, m2, merged
    <3>5. merged \in Seq(Message) /\ Len(merged) = 2 /\ merged[1] = m1 /\ merged[2] = m2 /\ DOMAIN merged = 1..2
      BY <3>1, <3>2
    <3>6. Quiet(merged)
      <4>1. \A i \in 1..2 : merged[i] = m1 \/ merged[i] = m2 BY <3>5
      <4> QED BY <3>3, <3>5, <4>1 DEF Quiet, Is
    <3> QED BY <3>3, <3>4, <3>5, <3>6 DEF m2
  <2> QED BY <2>1, <2>2
<1> DEFINE head == <<g[1]>> \o merged
<1> DEFINE sys == <<g[1]>>
<1>7. sys \in Seq(Message) /\ Len(sys) = 1 /\ sys[1] = g[1] /\ DOMAIN sys = 1..1 BY <1>0
<1>8. Quiet(sys)
  <2>1. g[1].calls = 0 /\ ~Is(g[1], "tool")
    BY <1>0, MessageFields DEF Callers, Is
  <2> QED BY <1>7, <2>1 DEF Quiet
<1> HIDE DEF merged, sys, n
<1>9. head = sys \o merged BY DEF sys
<1>10. /\ head \in Seq(Message) /\ Len(head) = 1 + n
       /\ head[1] = g[1] /\ (n = 2 => head[2] = merged[1] /\ head[3] = merged[2])
       /\ NoOrphans(head) /\ AllAnswered(head) /\ Callers(head)
  <2>1. head \in Seq(Message) /\ Len(head) = 1 + n /\ head[1] = g[1]
    BY <1>6, <1>7, <1>9 DEF n
  <2>2. ASSUME n = 2 PROVE head[2] = merged[1] /\ head[3] = merged[2]
    <3>1. \A i \in 1..Len(merged) : (sys \o merged)[i + Len(sys)] = merged[i] BY <1>6, <1>7, JoinFields
    <3>2. 1 \in 1..Len(merged) /\ 2 \in 1..Len(merged) BY <2>2 DEF n
    <3>3. (sys \o merged)[1 + Len(sys)] = merged[1] /\ (sys \o merged)[2 + Len(sys)] = merged[2]
      BY <3>1, <3>2
    <3>4. 1 + Len(sys) = 2 /\ 2 + Len(sys) = 3 BY <1>7
    <3> HIDE DEF head
    <3> QED BY <1>9, <3>3, <3>4
  <2>3. NoOrphans(head) /\ AllAnswered(head) /\ Callers(head)
    <3> HIDE DEF head
    <3> QED BY <1>6, <1>7, <1>8, <1>9, JoinKeeps, QuietKeeps
  <2> QED BY <2>1, <2>2, <2>3
<1> HIDE DEF head
<1>11. /\ rest \in Seq(Message) /\ Len(rest) = Len(g) + 1 - end
       /\ \A i \in 1..(Len(g) + 1 - end) : rest[i] = g[i + (end - 1)]
       /\ NoOrphans(g) => NoOrphans(rest)
       /\ AllAnswered(g) => AllAnswered(rest)
       /\ Callers(g) => Callers(rest)
  <2>1. end \in 1..(Len(g) + 1) BY <1>0
  <2> QED BY <2>1, SuffixKeeps
<1> HIDE DEF rest
<1> DEFINE f == head \o rest
<1>12. Fold(g, end) = f BY <1>1 DEF head
<1>13. /\ f \in Seq(Message) /\ Len(f) = (1 + n) + (Len(g) + 1 - end)
       /\ \A i \in 1..(1 + n) : f[i] = head[i]
       /\ \A i \in 1..(Len(g) + 1 - end) : f[i + (1 + n)] = rest[i]
  <2>1. /\ f \in Seq(Message) /\ Len(f) = Len(head) + Len(rest)
        /\ \A i \in 1..Len(head) : f[i] = head[i]
        /\ \A i \in 1..Len(rest) : f[i + Len(head)] = rest[i]
    BY <1>10, <1>11, JoinFields
  <2> QED BY <1>10, <1>11, <2>1
<1>14. /\ NoOrphans(g) => NoOrphans(f)
       /\ AllAnswered(g) => AllAnswered(f)
       /\ Callers(g) => Callers(f)
  BY <1>10, <1>11, JoinKeeps
<1> HIDE DEF f
<1>15. n \in Nat BY <1>6
<1>16. Len(f) = Len(g) + 2 - end + n BY <1>0, <1>13, <1>15
<1>17. \A i \in end..Len(g) : f[i - end + 2 + n] = g[i]
  <2> TAKE i \in end..Len(g)
  <2>1. i - end + 1 \in 1..(Len(g) + 1 - end) /\ (i - end + 1) + (1 + n) = i - end + 2 + n
        /\ (i - end + 1) + (end - 1) = i
    BY <1>0, <1>15
  <2>2. f[(i - end + 1) + (1 + n)] = rest[i - end + 1] /\ rest[i - end + 1] = g[(i - end + 1) + (end - 1)]
    BY <1>11, <1>13, <2>1
  <2> QED BY <2>1, <2>2
<1>18. f[1] = g[1] /\ (n = 2 => f[2] = merged[1] /\ f[3] = merged[2])
  <2>1. f[1] = g[1]
    <3>1. 1 \in 1..(1 + n) BY <1>15
    <3> QED BY <1>10, <1>13, <3>1
  <2>2. ASSUME n = 2 PROVE f[2] = merged[1] /\ f[3] = merged[2]
    <3>1. 2 \in 1..(1 + n) /\ 3 \in 1..(1 + n) BY <2>2
    <3> QED BY <1>10, <1>13, <2>2, <3>1
  <2> QED BY <2>1, <2>2
<1>19. Folded(f, g, end, n) BY <1>6, <1>13, <1>14, <1>16, <1>17, <1>18 DEF Folded
<1> QED BY <1>6, <1>12, <1>19

(* A history that is in order: the system prompt first and nowhere else, calls  *)
(* by assistants only, no result without its call, and the words of the user    *)
(* as they were said.                                                       *)
Sound(h) ==
    /\ h \in Seq(Message) /\ h # <<>>
    /\ \A i \in DOMAIN h : Is(h[i], "system") <=> i = 1
    /\ Callers(h) /\ NoOrphans(h)
    /\ \A i \in DOMAIN h : h[i].role \notin {"tool", "assistant"} => h[i].size # "cut"

LEMMA SecondIsNoResult ==
    ASSUME NEW h, Sound(h), Len(h) >= 2
    PROVE  ~Is(h[2], "tool")
<1>1. h \in Seq(Message) /\ 1 \in DOMAIN h /\ 2 \in DOMAIN h BY DEF Sound
<1>2. h[1].calls = 0
  <2>1. Is(h[1], "system") BY <1>1 DEF Sound
  <2>2. h[1].calls \in Nat BY <1>1, MessageFields
  <2> QED BY <1>1, <2>1, <2>2 DEF Sound, Callers, Is
<1>3. ~Answers(h, 1, 2) BY <1>2 DEF Answers
<1>4. ~Orphan(h, 2) BY <1>1 DEF Sound, NoOrphans
<1> QED BY <1>3, <1>4 DEF Orphan

LEMMA TrimmedKeeps ==
    ASSUME NEW h, Sound(h), NEW g, Trimmed(g, h)
    PROVE  Sound(g) /\ (AllAnswered(h) => AllAnswered(g))
<1>1. h \in Seq(Message) /\ g \in Seq(Message) /\ Len(g) = Len(h) /\ DOMAIN g = DOMAIN h /\ DOMAIN h = 1..Len(h)
      /\ Len(h) \in Nat
  BY DEF Sound, Trimmed
<1>2. Alike(g, h, 0, 1, Len(h))
  <2>1. \A i \in 1..Len(h) : i + 0 = i /\ i \in DOMAIN g /\ i \in DOMAIN h BY <1>1
  <2> QED BY <2>1 DEF Alike, Trimmed
<1>3. NoOrphans(g) /\ Callers(g) /\ (AllAnswered(h) => AllAnswered(g))
  BY <1>1, <1>2, AlikeKeeps DEF Sound
<1>4. g # <<>> BY <1>1 DEF Sound
<1>5. \A i \in DOMAIN g : Is(g[i], "system") <=> i = 1 BY <1>1 DEF Sound, Trimmed, Is
<1>6. \A i \in DOMAIN g : g[i].role \notin {"tool", "assistant"} => g[i].size # "cut"
  BY <1>1 DEF Sound, Trimmed
<1> QED BY <1>1, <1>3, <1>4, <1>5, <1>6 DEF Sound

LEMMA FoldedKeeps ==
    ASSUME NEW g, Sound(g), NEW end \in 2..Len(g), NEW n \in {0, 2}, n = 2 => end > 2,
           NEW f, Folded(f, g, end, n)
    PROVE  /\ Sound(f) /\ (AllAnswered(g) => AllAnswered(f))
           /\ Len(f) = Len(g) => \A i \in DOMAIN g : f[i].calls = 0 \/ f[i].calls = g[i].calls
<1>1. g \in Seq(Message) /\ Len(g) \in Nat /\ DOMAIN g = 1..Len(g) /\ Len(g) >= 2 /\ end \in Nat /\ n \in Nat
  BY DEF Sound
<1>2. f \in Seq(Message) /\ Len(f) = Len(g) + 2 - end + n /\ DOMAIN f = 1..Len(f) BY DEF Folded
<1>3. NoOrphans(f) /\ Callers(f) /\ (AllAnswered(g) => AllAnswered(f)) BY DEF Folded, Sound
<1>p. /\ Plain("assistant").role = "assistant" /\ Plain("assistant").calls = 0 /\ Plain("assistant").size = "short"
  BY PlainTyped
<1>4. ASSUME NEW i \in DOMAIN f
      PROVE  \/ i = 1 /\ f[i] = g[1]
             \/ n = 2 /\ i \in {2, 3} /\ f[i].role \in {"user", "assistant"} /\ f[i].size = "short" /\ f[i].calls = 0
             \/ i + end - 2 - n \in end..Len(g) /\ f[i] = g[i + end - 2 - n] /\ i > 1 + n
  <2>1. CASE i > 1 + n
    <3>1. i + end - 2 - n \in end..Len(g) /\ (i + end - 2 - n) - end + 2 + n = i BY <1>1, <1>2, <2>1
    <3>2. f[(i + end - 2 - n) - end + 2 + n] = g[i + end - 2 - n] BY <3>1 DEF Folded
    <3> QED BY <2>1, <3>1, <3>2
  <2>2. CASE i = 1 BY <2>2 DEF Folded
  <2>3. CASE n = 2 /\ i = 2 BY <2>3 DEF Folded
  <2>4. CASE n = 2 /\ i = 3 BY <1>p, <2>4 DEF Folded
  <2> QED BY <1>1, <1>2, <2>1, <2>2, <2>3, <2>4
<1>5. f # <<>> BY <1>1, <1>2
<1>6. ASSUME NEW i \in DOMAIN f
      PROVE  /\ Is(f[i], "system") <=> i = 1
             /\ f[i].role \notin {"tool", "assistant"} => f[i].size # "cut"
  <2>1. CASE i = 1 /\ f[i] = g[1] BY <1>1, <2>1 DEF Sound
  <2>2. CASE n = 2 /\ i \in {2, 3} /\ f[i].role \in {"user", "assistant"} /\ f[i].size = "short"
    BY <2>2 DEF Is
  <2>3. CASE i + end - 2 - n \in end..Len(g) /\ f[i] = g[i + end - 2 - n] /\ i > 1 + n
    <3>1. i + end - 2 - n \in DOMAIN g /\ i + end - 2 - n # 1 /\ i # 1 BY <1>1, <2>3
    <3> QED BY <2>3, <3>1 DEF Sound
  <2> QED BY <1>4, <2>1, <2>2, <2>3
<1>7. ASSUME Len(f) = Len(g), NEW i \in DOMAIN g
      PROVE  f[i].calls = 0 \/ f[i].calls = g[i].calls
  <2>1. i \in DOMAIN f /\ end = 2 + n BY <1>1, <1>2, <1>7
  <2>2. i + end - 2 - n = i BY <1>1, <2>1
  <2> QED BY <1>4, <2>1, <2>2
<1> QED BY <1>2, <1>3, <1>5, <1>6, <1>7 DEF Sound

(* The ways a compaction ends. *)
LEMMA CompactedIs ==
    ASSUME NEW h, Sound(h), NEW l, NEW force \in BOOLEAN
    PROVE  \/ Nothing(h, l, force) /\ Compacted(h, l, force) = h
           \/ /\ ~Nothing(h, l, force) /\ Trimmed(Compacted(h, l, force), h) /\ ~Folds(h, l, force)
              /\ Usage(Compacted(h, l, force), l) <= CompactTo
           \/ /\ ~Nothing(h, l, force)
              /\ \E end \in 2..Len(h), n \in {0, 2} :
                   /\ ~Is(h[end], "tool") /\ (n = 2 => end > 2)
                   /\ Folded(Compacted(h, l, force), Steps(h)[4], end, n)
<1>0. h \in Seq(Message) /\ Len(h) \in Nat BY DEF Sound
<1>1. CASE Nothing(h, l, force) BY <1>1 DEF Compacted
<1>2. CASE ~Nothing(h, l, force)
  <2>1. Len(h) > 2 BY <1>0, <1>2 DEF Nothing
  <2> DEFINE enough == Enough(Steps(h), l, force)
  <2>2. CASE enough # {}
    <3>1. Min(enough) \in enough
      <4>1. enough \subseteq Nat BY DEF Enough
      <4> HIDE DEF enough
      <4> QED BY <2>2, <4>1, MinIsThere
    <3>2. Min(enough) \in 1..4 /\ Usage(Steps(h)[Min(enough)], l) <= CompactTo BY <3>1 DEF Enough
    <3>3. Compacted(h, l, force) = Steps(h)[Min(enough)] BY <1>2, <2>2 DEF Compacted
    <3>4. Trimmed(Steps(h)[Min(enough)], h) BY <1>0, <2>1, <3>2, StepsTrim
    <3>5. ~Folds(h, l, force) BY <2>2 DEF Folds
    <3> HIDE DEF enough
    <3> QED BY <1>2, <3>2, <3>3, <3>4, <3>5
  <2>3. CASE enough = {}
    <3> DEFINE end == FoldEnd(h, TailStart(h), force)
    <3> DEFINE g == Steps(h)[4]
    <3>1. Compacted(h, l, force) = Fold(g, end) BY <1>2, <2>3 DEF Compacted
    <3>2. TailStart(h) \in 2..Len(h) /\ (TailStart(h) = 2 \/ ~Is(h[TailStart(h)], "tool"))
      BY <1>0, <2>1, TailStartIs
    <3>3. end \in 2..TailStart(h) /\ (end = TailStart(h) \/ ~Is(h[end], "tool"))
      <4>1. TailStart(h) \in Nat /\ TailStart(h) >= 2 BY <1>0, <3>2
      <4> HIDE DEF enough
      <4>2. FoldEnd(h, TailStart(h), force) \in 2..TailStart(h)
            /\ (FoldEnd(h, TailStart(h), force) = TailStart(h) \/ ~Is(h[FoldEnd(h, TailStart(h), force)], "tool"))
        BY <1>0, <4>1, FoldEndIs
      <4> QED BY <4>2
    <3>4. end \in 2..Len(h) /\ ~Is(h[end], "tool")
      BY <1>0, <3>2, <3>3, SecondIsNoResult
    <3>5. Trimmed(g, h) BY <1>0, <2>1, StepsTrim
    <3> HIDE DEF end, g
    <3>6. Sound(g) /\ Len(g) = Len(h) /\ g[end].role = h[end].role
      <4>1. Sound(g) BY <3>5, TrimmedKeeps
      <4>2. end \in 1..Len(h) BY <1>0, <3>4
      <4> QED BY <3>5, <4>1, <4>2 DEF Trimmed
    <3>7. g \in Seq(Message) /\ end \in 2..Len(g) /\ ~Is(g[end], "tool") /\ Is(g[1], "system") /\ Callers(g)
      <4>1. 1 \in DOMAIN g BY <1>0, <2>1, <3>6 DEF Sound
      <4> QED BY <3>4, <3>6, <4>1 DEF Sound, Is
    <3>8. \E n \in {0, 2} : Folded(Fold(g, end), g, end, n) /\ (n = 2 => end > 2) BY <3>7, FoldIs
    <3> QED BY <1>2, <3>1, <3>4, <3>8 DEF g
  <2> QED BY <2>2, <2>3
<1> QED BY <1>1, <1>2

LEMMA CompactedKeeps ==
    ASSUME NEW h, Sound(h), NEW l, NEW force \in BOOLEAN
    PROVE  LET c == Compacted(h, l, force)
           IN /\ Sound(c) /\ (AllAnswered(h) => AllAnswered(c))
              /\ Len(c) = Len(h) => \A i \in DOMAIN h : c[i].calls = 0 \/ c[i].calls = h[i].calls
<1> DEFINE c == Compacted(h, l, force)
<1>0. h \in Seq(Message) /\ DOMAIN h = 1..Len(h) BY DEF Sound
<1> DEFINE Kinds == Len(c) = Len(h) => \A i \in DOMAIN h : c[i].calls = 0 \/ c[i].calls = h[i].calls
<1>1. ASSUME c = h
      PROVE  Sound(c) /\ (AllAnswered(h) => AllAnswered(c)) /\ Kinds
  <2> HIDE DEF c
  <2> QED BY <1>1
<1>2. ASSUME Trimmed(c, h)
      PROVE  Sound(c) /\ (AllAnswered(h) => AllAnswered(c)) /\ Kinds
  <2> HIDE DEF c
  <2>1. Sound(c) /\ (AllAnswered(h) => AllAnswered(c)) BY <1>2, TrimmedKeeps
  <2>2. \A i \in DOMAIN h : c[i].calls = h[i].calls BY <1>0, <1>2 DEF Trimmed
  <2> QED BY <2>1, <2>2
<1>3. ASSUME ~Nothing(h, l, force), NEW end \in 2..Len(h), NEW n \in {0, 2}, n = 2 => end > 2,
             Folded(c, Steps(h)[4], end, n)
      PROVE  Sound(c) /\ (AllAnswered(h) => AllAnswered(c)) /\ Kinds
  <2> DEFINE g == Steps(h)[4]
  <2>1. Trimmed(g, h)
    <3>1. Len(h) > 2 BY <1>0, <1>3 DEF Nothing
    <3> QED BY <1>0, <3>1, StepsTrim
  <2> HIDE DEF g, c
  <2>2. Sound(g) /\ (AllAnswered(h) => AllAnswered(g)) /\ Len(g) = Len(h) BY <2>1, TrimmedKeeps DEF Trimmed
  <2>3. Folded(c, g, end, n) BY <1>3 DEF g
  <2>4. /\ Sound(c) /\ (AllAnswered(g) => AllAnswered(c))
        /\ Len(c) = Len(g) => \A i \in DOMAIN g : c[i].calls = 0 \/ c[i].calls = g[i].calls
    BY <1>3, <2>2, <2>3, FoldedKeeps
  <2>5. DOMAIN g = DOMAIN h /\ \A i \in DOMAIN h : g[i].calls = h[i].calls
    BY <1>0, <2>1 DEF Trimmed
  <2> QED BY <2>2, <2>4, <2>5
<1> HIDE DEF c, Kinds
<1>4. \/ c = h \/ Trimmed(c, h)
      \/ /\ ~Nothing(h, l, force)
         /\ \E end \in 2..Len(h), n \in {0, 2} : (n = 2 => end > 2) /\ Folded(c, Steps(h)[4], end, n)
  BY CompactedIs DEF c
<1>5. Sound(c) /\ (AllAnswered(h) => AllAnswered(c)) /\ Kinds
  BY <1>1, <1>2, <1>3, <1>4
<1> QED BY <1>5 DEF c, Kinds

-----------------------------------------------------------------------------
(* The history of a session. *)

(* What may be added to a history whatever it holds: messages that neither call *)
(* nor answer, and whole exchanges.                                         *)
Said == {m \in Message : m.role \in {"user", "assistant"} /\ m.calls = 0 /\ m.size # "cut"}
Addable(b) ==
    /\ b \in Seq(Message) /\ NoOrphans(b) /\ AllAnswered(b) /\ Callers(b)
    /\ \A i \in DOMAIN b : ~Is(b[i], "system") /\ (Is(b[i], "user") => b[i].size # "cut")

LEMMA RolesAre ==
    ASSUME NEW m \in Message
    PROVE  m.role \in {"system", "user", "assistant", "tool"}
BY DEF Message

LEMMA SaidAddable ==
    ASSUME NEW b \in Seq(Said)
    PROVE  b \in Seq(Message) /\ Addable(b)
<1>1. Said \subseteq Message BY DEF Said
<1>2. b \in Seq(Message) BY <1>1
<1>3. \A i \in DOMAIN b : b[i] \in Said OBVIOUS
<1>4. \A i \in DOMAIN b : b[i].calls = 0 /\ b[i].role \in {"user", "assistant"} /\ b[i].size # "cut"
  BY <1>3 DEF Said
<1>5. Quiet(b) BY <1>4 DEF Quiet, Is
<1> QED BY <1>2, <1>4, <1>5, QuietKeeps DEF Addable, Is

LEMMA SoundJoin ==
    ASSUME NEW a, Sound(a), NEW b, Addable(b)
    PROVE  Sound(a \o b) /\ (AllAnswered(a) => AllAnswered(a \o b))
<1>1. a \in Seq(Message) /\ b \in Seq(Message) /\ a # <<>> BY DEF Sound, Addable
<1>2. Callers(a \o b) /\ NoOrphans(a \o b) /\ (AllAnswered(a) => AllAnswered(a \o b))
  BY <1>1, JoinKeeps DEF Sound, Addable
<1>3. a \o b \in Seq(Message) /\ a \o b # <<>> BY <1>1
<1>4. ASSUME NEW i \in DOMAIN (a \o b)
      PROVE  \/ i \in DOMAIN a /\ (a \o b)[i] = a[i]
             \/ i # 1 /\ \E k \in DOMAIN b : (a \o b)[i] = b[k]
  <2>1. /\ DOMAIN (a \o b) = 1..(Len(a) + Len(b)) /\ \A k \in 1..Len(a) : (a \o b)[k] = a[k]
        /\ \A k \in 1..Len(b) : (a \o b)[k + Len(a)] = b[k]
    BY <1>1, JoinFields
  <2>2. Len(a) \in Nat /\ Len(a) >= 1 /\ Len(b) \in Nat /\ DOMAIN a = 1..Len(a) /\ DOMAIN b = 1..Len(b) BY <1>1
  <2>3. CASE i <= Len(a) BY <2>1, <2>2, <2>3
  <2>4. CASE i > Len(a)
    <3>1. i - Len(a) \in 1..Len(b) /\ (i - Len(a)) + Len(a) = i /\ i # 1 BY <2>1, <2>2, <2>4
    <3>2. (a \o b)[(i - Len(a)) + Len(a)] = b[i - Len(a)] BY <2>1, <3>1
    <3> QED BY <2>2, <3>1, <3>2
  <2> QED BY <2>1, <2>2, <2>3, <2>4
<1> DEFINE c == a \o b
<1> HIDE DEF c
<1>5. \A i \in DOMAIN c : Is(c[i], "system") <=> i = 1
  BY <1>4 DEF c, Sound, Addable
<1>6. \A i \in DOMAIN c : c[i].role \notin {"tool", "assistant"} => c[i].size # "cut"
  <2> TAKE i \in DOMAIN c
  <2>1. CASE i \in DOMAIN a /\ c[i] = a[i] BY <2>1 DEF Sound
  <2>2. ASSUME NEW k \in DOMAIN b, c[i] = b[k] PROVE c[i].role \notin {"tool", "assistant"} => c[i].size # "cut"
    <3>1. b[k] \in Message BY <1>1
    <3>2. b[k].role \in {"user", "assistant", "tool"} BY <3>1, RolesAre DEF Addable, Is
    <3> QED BY <2>2, <3>2 DEF Addable, Is
  <2> QED BY <1>4, <2>1, <2>2 DEF c
<1> QED BY <1>2, <1>3, <1>5, <1>6 DEF Sound, c

(* A call with its results is an exchange that can be added. *)
LEMMA ExchangeAddable ==
    ASSUME NEW m \in Message, Is(m, "assistant"), m.calls > 0,
           NEW r \in Seq(Message), Len(r) = m.calls,
           \A i \in DOMAIN r : Is(r[i], "tool") /\ r[i].calls = 0
    PROVE  Addable(<<m>> \o r)
<1> DEFINE x == <<m>> \o r
<1> DEFINE n == m.calls
<1>1. n \in Nat /\ n >= 1 BY DEF Message
<1>2. /\ x \in Seq(Message) /\ DOMAIN x = 1..(n + 1) /\ x[1] = m
      /\ \A i \in 2..(n + 1) : x[i] = r[i - 1] /\ i - 1 \in DOMAIN r
  <2>1. <<m>> \in Seq(Message) /\ Len(<<m>>) = 1 /\ <<m>>[1] = m OBVIOUS
  <2>2. x \in Seq(Message) /\ DOMAIN x = 1..(1 + n) /\ x[1] = m /\ \A i \in 1..n : x[i + 1] = r[i]
    BY <1>1, <2>1, JoinFields
  <2>3. DOMAIN r = 1..n OBVIOUS
  <2>4. \A i \in 2..(n + 1) : i - 1 \in 1..n /\ (i - 1) + 1 = i BY <1>1
  <2>5. \A i \in 2..(n + 1) : x[(i - 1) + 1] = r[i - 1] BY <2>2, <2>4
  <2> HIDE DEF x, n
  <2> QED BY <1>1, <2>2, <2>3, <2>4, <2>5
<1> HIDE DEF x
<1>3. \A i \in 2..(n + 1) : Is(x[i], "tool") /\ x[i].calls = 0 BY <1>2
<1>4. \A i \in DOMAIN x : i = 1 \/ i \in 2..(n + 1) BY <1>1, <1>2
<1>5. \A j \in 2..(n + 1) : Answers(x, 1, j)
  <2> TAKE j \in 2..(n + 1)
  <2>1. j \in DOMAIN x /\ j > 1 /\ n >= j - 1 BY <1>1, <1>2
  <2>2. x[1].calls >= j - 1 BY <1>2, <2>1
  <2>3. \A k \in (1 + 1)..j : k \in 2..(n + 1) BY <1>1
  <2>4. \A k \in (1 + 1)..j : Is(x[k], "tool") BY <1>3, <2>3
  <2> QED BY <2>1, <2>2, <2>4 DEF Answers
<1>6. NoOrphans(x)
  <2> SUFFICES ASSUME NEW j \in DOMAIN x, Is(x[j], "tool")
               PROVE  \E i \in 1..(j - 1) : Answers(x, i, j)
    BY DEF NoOrphans, Orphan
  <2>1. j # 1 BY <1>2 DEF Is
  <2>2. j \in 2..(n + 1) BY <1>4, <2>1
  <2>3. 1 \in 1..(j - 1) BY <1>1, <2>2
  <2> QED BY <1>5, <2>2, <2>3
<1>7. AllAnswered(x)
  <2> SUFFICES ASSUME NEW i \in DOMAIN x, x[i].calls > 0
               PROVE  Answers(x, i, i + x[i].calls)
    BY DEF AllAnswered, Unanswered
  <2>1. i = 1 BY <1>3, <1>4
  <2>2. i + x[i].calls = n + 1 /\ n + 1 \in 2..(n + 1) BY <1>1, <1>2, <2>1
  <2> QED BY <1>5, <2>1, <2>2
<1>8. Callers(x) BY <1>2, <1>3, <1>4 DEF Callers
<1>9. \A i \in DOMAIN x : ~Is(x[i], "system") /\ ~Is(x[i], "user")
  BY <1>2, <1>3, <1>4 DEF Is
<1>10. Addable(x) BY <1>2, <1>6, <1>7, <1>8, <1>9 DEF Addable
<1> QED BY <1>10 DEF x

(* While calls run, everything before them has been answered. *)
AnsweredBefore(h) == \A i \in 1..(Len(h) - 1) : ~Unanswered(h, i)

LEMMA CallAdded ==
    ASSUME NEW h, Sound(h), NEW m \in Message, Is(m, "assistant")
    PROVE  /\ Sound(Append(h, m)) /\ (AllAnswered(h) => AnsweredBefore(Append(h, m)))
           /\ Append(h, m) = h \o <<m>> /\ Append(h, m)[Len(Append(h, m))] = m
<1> DEFINE a == h \o <<m>>
<1>1. h \in Seq(Message) /\ <<m>> \in Seq(Message) /\ Append(h, m) = a /\ Len(<<m>>) = 1 /\ Len(h) \in Nat
      /\ h # <<>>
  BY DEF Sound
<1>2. /\ a \in Seq(Message) /\ Len(a) = Len(h) + 1 /\ DOMAIN a = 1..(Len(h) + 1)
      /\ \A i \in 1..Len(h) : a[i] = h[i]
      /\ a[1 + Len(h)] = m
      /\ Alike(h, a, 0, 1, Len(h))
  <2>1. /\ a \in Seq(Message) /\ Len(a) = Len(h) + Len(<<m>>) /\ DOMAIN a = 1..(Len(h) + Len(<<m>>))
        /\ \A i \in 1..Len(h) : a[i] = h[i]
        /\ \A i \in 1..Len(<<m>>) : a[i + Len(h)] = <<m>>[i]
        /\ Alike(h, a, 0, 1, Len(h))
    BY <1>1, JoinFields
  <2>2. 1 \in 1..Len(<<m>>) /\ <<m>>[1] = m BY <1>1
  <2>3. a[1 + Len(h)] = m BY <2>1, <2>2
  <2> HIDE DEF a
  <2> QED BY <1>1, <2>1, <2>3
<1>3. NoOrphans(a) /\ Callers(a)
  <2>1. Callers(<<m>>) BY DEF Callers
  <2>2. NoOrphans(<<m>>) BY DEF NoOrphans, Orphan, Is
  <2> QED BY <1>1, <2>1, <2>2, JoinKeeps DEF Sound
<1>4. a[Len(a)] = m BY <1>1, <1>2
<1> HIDE DEF a
<1>5. \A i \in DOMAIN a : (i \in DOMAIN h /\ a[i] = h[i]) \/ (i # 1 /\ a[i] = m)
  <2> TAKE i \in DOMAIN a
  <2>1. DOMAIN h = 1..Len(h) /\ Len(h) >= 1 BY <1>1
  <2>2. i \in 1..Len(h) \/ i = 1 + Len(h) BY <1>1, <1>2
  <2> QED BY <1>1, <1>2, <2>1, <2>2
<1>6. Sound(a)
  <2>1. a # <<>> BY <1>1, <1>2
  <2>2. \A i \in DOMAIN a : Is(a[i], "system") <=> i = 1 BY <1>5 DEF Sound, Is
  <2>3. \A i \in DOMAIN a : a[i].role \notin {"tool", "assistant"} => a[i].size # "cut"
    BY <1>5 DEF Sound, Is
  <2> QED BY <1>2, <1>3, <2>1, <2>2, <2>3 DEF Sound
<1>7. ASSUME AllAnswered(h) PROVE AnsweredBefore(a)
  <2> SUFFICES ASSUME NEW i \in 1..Len(h), a[i].calls > 0
               PROVE  Answers(a, i, i + a[i].calls)
    BY <1>1, <1>2 DEF AnsweredBefore, Unanswered
  <2>1. i \in DOMAIN h /\ a[i] = h[i] /\ h[i].calls \in Nat BY <1>1, <1>2, MessageFields
  <2>2. Answers(h, i, i + h[i].calls) BY <1>7, <2>1 DEF AllAnswered, Unanswered
  <2>3. i + h[i].calls \in 1..Len(h) BY <1>1, <2>1, <2>2 DEF Answers
  <2>4. Answers(a, i + 0, (i + h[i].calls) + 0) BY <1>1, <1>2, <2>2, <2>3, AnswersAlike
  <2>5. i + 0 = i /\ (i + h[i].calls) + 0 = i + a[i].calls BY <2>1
  <2> QED BY <2>4, <2>5
<1> QED BY <1>1, <1>4, <1>6, <1>7

(* The results of all the calls of a reply, appended together. *)
LEMMA ResultsAdded ==
    ASSUME NEW h, Sound(h), Is(h[Len(h)], "assistant"), h[Len(h)].calls > 0,
           NEW r \in Seq(Message), Len(r) = h[Len(h)].calls,
           \A i \in DOMAIN r : Is(r[i], "tool") /\ r[i].calls = 0
    PROVE  Sound(h \o r) /\ (AnsweredBefore(h) => AllAnswered(h \o r))
<1>1. h \in Seq(Message) /\ Len(h) \in Nat /\ Len(h) >= 1 /\ DOMAIN h = 1..Len(h) BY DEF Sound
<1> DEFINE n == Len(h) - 1
<1> DEFINE p == SubSeq(h, 1, n)
<1> DEFINE m == h[Len(h)]
<1>2. m \in Message /\ n \in 0..Len(h) /\ n \in Nat /\ Len(h) # 1
  <2>1. Len(h) # 1 BY <1>1 DEF Sound, Is
  <2> QED BY <1>1, <2>1
<1>3. Addable(<<m>> \o r) BY <1>2, ExchangeAddable
<1>4. /\ p \in Seq(Message) /\ Len(p) = n /\ \A i \in 1..n : p[i] = h[i]
      /\ NoOrphans(p) /\ Callers(p)
      /\ (\A i \in 1..n : ~Unanswered(h, i) /\ i + h[i].calls <= n) => AllAnswered(p)
  BY <1>1, <1>2, PrefixKeeps DEF Sound
<1> HIDE DEF p
<1>5. Sound(p)
  <2>1. DOMAIN p = 1..n /\ \A i \in 1..n : i \in DOMAIN h BY <1>1, <1>2, <1>4
  <2>2. p # <<>> BY <1>1, <1>2, <1>4
  <2> HIDE DEF n
  <2>3. (\A i \in DOMAIN p : Is(p[i], "system") <=> i = 1) BY <1>4, <2>1 DEF Sound
  <2>4. \A i \in DOMAIN p : p[i].role \notin {"tool", "assistant"} => p[i].size # "cut" BY <1>4, <2>1 DEF Sound
  <2> QED BY <1>4, <2>2, <2>3, <2>4 DEF Sound
<1>6. AnsweredBefore(h) => AllAnswered(p)
  <2> SUFFICES ASSUME AnsweredBefore(h), NEW i \in 1..n
               PROVE  ~Unanswered(h, i) /\ i + h[i].calls <= n
    BY <1>4
  <2>1. ~Unanswered(h, i) BY <1>1 DEF AnsweredBefore
  <2>2. i \in DOMAIN h /\ h[i].calls \in Nat BY <1>1, <1>2, MessageFields
  <2>3. CASE h[i].calls = 0 BY <1>1, <2>1, <2>2, <2>3
  <2>4. CASE h[i].calls > 0
    <3>1. Answers(h, i, i + h[i].calls) BY <2>1, <2>4 DEF Unanswered
    <3>2. i + h[i].calls \in 1..Len(h) BY <1>1, <3>1 DEF Answers
    <3>3. i + h[i].calls # Len(h)
      <4> SUFFICES ASSUME i + h[i].calls = Len(h) PROVE FALSE
        OBVIOUS
      <4>1. Len(h) \in (i + 1)..Len(h) BY <1>1, <1>2
      <4>2. Is(h[Len(h)], "tool") BY <3>1, <4>1 DEF Answers
      <4> QED BY <4>2 DEF Is
    <3> QED BY <1>1, <2>1, <2>2, <3>2, <3>3
  <2> QED BY <2>2, <2>3, <2>4
<1>7. Sound(p \o (<<m>> \o r)) /\ (AllAnswered(p) => AllAnswered(p \o (<<m>> \o r)))
  BY <1>3, <1>5, SoundJoin
<1>8. h \o r = p \o (<<m>> \o r)
  <2>1. h = p \o <<m>>
    <3>1. p \o <<m>> \in Seq(Message) /\ Len(p \o <<m>>) = n + 1 BY <1>2, <1>4
    <3>2. \A i \in 1..Len(h) : (p \o <<m>>)[i] = h[i] BY <1>1, <1>2, <1>4
    <3>3. \A u, v \in Seq(Message) : Len(u) = Len(v) /\ (\A i \in 1..Len(v) : u[i] = v[i]) => u = v
      OBVIOUS
    <3>4. Len(p \o <<m>>) = Len(h)
      <4>1. n + 1 = Len(h) BY <1>1
      <4> HIDE DEF m, n
      <4> QED BY <3>1, <4>1
    <3> HIDE DEF m, n
    <3> QED BY <1>1, <3>1, <3>2, <3>3, <3>4
  <2>2. <<m>> \in Seq(Message) BY <1>2
  <2> HIDE DEF m
  <2>3. (p \o <<m>>) \o r = p \o (<<m>> \o r) BY <1>4, <2>2
  <2> QED BY <2>1, <2>3
<1> QED BY <1>6, <1>7, <1>8

(* The turn under way keeps where its history began; nothing before it is       *)
(* answered from behind it.                                                 *)
ClosedAt(h, n) == n <= Len(h) /\ \A i \in 1..n : i + h[i].calls <= n
TurnOk(t) ==
    /\ {"request", "before", "compacted"} \subseteq DOMAIN t
    /\ t.request \in Request /\ t.before \in Nat \ {0} /\ t.compacted \in BOOLEAN
SameTurn(t, u) == TurnOk(u) /\ u.before = t.before /\ u.compacted = t.compacted
Saved == [request : Request, answered : BOOLEAN]

HistInv ==
    /\ Sound(messages) /\ stored \in Seq(Saved) /\ queue \in Seq(Request) /\ asked \in 0..MaxRequests
    /\ excused \in BOOLEAN
    /\ phase \in InTurn =>
         /\ TurnOk(turn)
         /\ excused \/ turn.compacted \/ ClosedAt(messages, turn.before)
    /\ phase # "running" => excused \/ AllAnswered(messages)
    /\ phase = "running" =>
         /\ Is(Pending, "assistant") /\ Pending.calls > 0
         /\ excused \/ AnsweredBefore(messages)

LEMMA ClosedKept ==
    ASSUME NEW h \in Seq(Message), NEW b \in Seq(Message), NEW n \in Nat, ClosedAt(h, n)
    PROVE  ClosedAt(h \o b, n)
<1>1. Len(h \o b) >= Len(h) /\ \A i \in 1..Len(h) : (h \o b)[i] = h[i] BY JoinFields
<1>2. \A i \in 1..n : i \in 1..Len(h) BY DEF ClosedAt
<1>3. n <= Len(h \o b)
  <2>1. Len(h \o b) \in Nat /\ Len(h) \in Nat /\ n <= Len(h) BY DEF ClosedAt
  <2> QED BY <1>1, <2>1
<1> QED BY <1>1, <1>2, <1>3 DEF ClosedAt

LEMMA ClosedWhole ==
    ASSUME NEW h, Sound(h), AllAnswered(h)
    PROVE  ClosedAt(h, Len(h)) /\ Len(h) \in Nat \ {0}
<1>1. h \in Seq(Message) /\ Len(h) \in Nat \ {0} /\ DOMAIN h = 1..Len(h) BY DEF Sound
<1>2. ASSUME NEW i \in 1..Len(h) PROVE i + h[i].calls <= Len(h)
  <2>1. h[i].calls \in Nat /\ i \in Int BY <1>1, MessageFields
  <2>2. CASE h[i].calls = 0 BY <1>1, <2>2
  <2>3. CASE h[i].calls > 0
    <3>1. i + h[i].calls \in DOMAIN h BY <1>1, <2>3 DEF AllAnswered, Unanswered, Answers
    <3> QED BY <1>1, <2>1, <3>1
  <2> QED BY <2>1, <2>2, <2>3
<1> QED BY <1>1, <1>2 DEF ClosedAt

LEMMA ClosedCompacted ==
    ASSUME NEW h, Sound(h), NEW l, NEW force \in BOOLEAN, NEW n \in Nat, ClosedAt(h, n),
           Len(Compacted(h, l, force)) = Len(h)
    PROVE  ClosedAt(Compacted(h, l, force), n)
<1> DEFINE c == Compacted(h, l, force)
<1>1. h \in Seq(Message) /\ DOMAIN h = 1..Len(h) /\ Len(h) \in Nat BY DEF Sound
<1>2. Len(c) = Len(h) /\ \A i \in DOMAIN h : c[i].calls = 0 \/ c[i].calls = h[i].calls BY CompactedKeeps
<1> HIDE DEF c
<1>3. ASSUME NEW i \in 1..n PROVE i + c[i].calls <= n
  <2>1. i \in DOMAIN h /\ i \in Int BY <1>1 DEF ClosedAt
  <2>2. i + h[i].calls <= n BY DEF ClosedAt
  <2>3. c[i].calls = 0 \/ c[i].calls = h[i].calls BY <1>2, <2>1
  <2>4. i + 0 <= n OBVIOUS
  <2> QED BY <2>2, <2>3, <2>4
<1>4. ClosedAt(c, n) BY <1>2, <1>3 DEF ClosedAt
<1> QED BY <1>4 DEF c

LEMMA TurnKept ==
    ASSUME NEW t, TurnOk(t)
    PROVE  /\ SameTurn(t, t) /\ SameTurn(t, Spend(t))
           /\ \A b : SameTurn(t, [Spend(t) EXCEPT !.nudged = b])
           /\ \A b, c : SameTurn(t, [t EXCEPT !.called = b, !.work = c])
           /\ \A b \in BOOLEAN : /\ TurnOk([t EXCEPT !.compacted = b])
                                 /\ [t EXCEPT !.compacted = b].before = t.before
                                 /\ [t EXCEPT !.compacted = b].compacted = b
BY DEF TurnOk, SameTurn, Spend

(* What the code puts into a history. *)
LEMMA CallTyped ==
    ASSUME NEW n \in 1..2, NEW size \in {"short", "long"}
    PROVE  /\ Calling(n, size) \in Message /\ Calling(n, size).role = "assistant"
           /\ Calling(n, size).calls = n /\ Calling(n, size).size = size
           /\ Result(size) \in Message /\ Result(size).role = "tool" /\ Result(size).calls = 0
           /\ Result(size).size = size
<1>1. \A m \in Message : \A s \in {"short", "long"} :
        /\ [m EXCEPT !.size = s] \in Message /\ [m EXCEPT !.size = s].size = s
        /\ [m EXCEPT !.size = s].role = m.role /\ [m EXCEPT !.size = s].calls = m.calls
  BY DEF Message
<1>3. Plain("assistant") \in Message /\ Plain("assistant").role = "assistant"
      /\ Plain("tool") \in Message /\ Plain("tool").role = "tool" /\ Plain("tool").calls = 0
  BY PlainTyped
<1>4. n \in 0..2 OBVIOUS
<1>5. /\ Calling(n, size) \in Message /\ Calling(n, size).role = "assistant"
      /\ Calling(n, size).calls = n /\ Calling(n, size).size = size
  <2> DEFINE p == Plain("assistant")
  <2>1. Calling(n, size) = [p EXCEPT !.calls = n, !.size = size] BY DEF Calling
  <2>2. p \in Message /\ p.role = "assistant" BY <1>3
  <2> HIDE DEF p
  <2> DEFINE q == [p EXCEPT !.calls = n, !.size = size]
  <2>3. q \in Message BY <1>4, <2>2 DEF Message
  <2>4. q.role = p.role /\ q.calls = n /\ q.size = size BY <2>2 DEF Message
  <2> HIDE DEF q
  <2>5. Calling(n, size) = q BY <2>1 DEF q
  <2> QED BY <2>2, <2>3, <2>4, <2>5
<1>6. /\ Result(size) \in Message /\ Result(size).role = "tool" /\ Result(size).calls = 0
      /\ Result(size).size = size
  <2> DEFINE p == Plain("tool")
  <2>1. Result(size) = [p EXCEPT !.size = size] BY DEF Result
  <2>2. p \in Message /\ p.role = "tool" /\ p.calls = 0 BY <1>3
  <2> HIDE DEF p
  <2>3. /\ [p EXCEPT !.size = size] \in Message /\ [p EXCEPT !.size = size].role = p.role
        /\ [p EXCEPT !.size = size].calls = p.calls /\ [p EXCEPT !.size = size].size = size
    BY <1>1, <2>2
  <2> QED BY <2>1, <2>2, <2>3
<1> QED BY <1>5, <1>6

LEMMA TextTyped ==
    ASSUME NEW form \in Forms
    PROVE  TextReply(form) \in Said /\ Plain("user") \in Said /\ Plain("assistant") \in Said
<1>1. \A m \in Message : /\ [m EXCEPT !.size = "long"] \in Message /\ [m EXCEPT !.size = "long"].size = "long"
                         /\ [m EXCEPT !.size = "long"].role = m.role /\ [m EXCEPT !.size = "long"].calls = m.calls
  BY DEF Message
<1>2. \A role \in {"user", "assistant"} :
        /\ Plain(role) \in Message /\ Plain(role).role = role /\ Plain(role).calls = 0 /\ Plain(role).size = "short"
  BY PlainTyped
<1>3. Plain("user") \in Said /\ Plain("assistant") \in Said BY <1>2 DEF Said
<1>4. [Plain("assistant") EXCEPT !.size = "long"] \in Said BY <1>1, <1>2 DEF Said
<1> QED BY <1>3, <1>4 DEF TextReply

LEMMA OpeningTyped ==
    ASSUME NEW r \in Request, NEW project \in BOOLEAN
    PROVE  /\ WithOverview(Says(<<r>>), project) \in Said /\ Says(<<r>>) \in Said
           /\ Addable(AutoRead(project))
<1>1. Says(<<r>>) \in Message /\ Says(<<r>>).role = "user" /\ Says(<<r>>).calls = 0 /\ Says(<<r>>).size = "short"
  <2>1. <<r>> \in Seq(Request) OBVIOUS
  <2> QED BY <2>1, SaysTyped
<1>2. \A m \in Message : /\ [m EXCEPT !.size = "long"] \in Message /\ [m EXCEPT !.size = "long"].size = "long"
                         /\ [m EXCEPT !.size = "long"].role = m.role /\ [m EXCEPT !.size = "long"].calls = m.calls
  BY DEF Message
<1>3. Says(<<r>>) \in Said /\ WithOverview(Says(<<r>>), project) \in Said
  BY <1>1, <1>2 DEF Said, WithOverview
<1>4. Addable(AutoRead(project))
  <2>1. CASE project
    <3> DEFINE c == Calling(1, "short")
    <3> DEFINE a == Result("long")
    <3>1. c \in Message /\ c.role = "assistant" /\ c.calls = 1 BY CallTyped
    <3>2. a \in Message /\ a.role = "tool" /\ a.calls = 0 BY CallTyped
    <3> HIDE DEF c, a
    <3>3. <<a>> \in Seq(Message) /\ Len(<<a>>) = 1 /\ \A i \in DOMAIN <<a>> : <<a>>[i] = a BY <3>2
    <3>4. Addable(<<c>> \o <<a>>)
      <4>1. Is(c, "assistant") /\ c.calls > 0 /\ Len(<<a>>) = c.calls BY <3>1, <3>3 DEF Is
      <4>2. \A i \in DOMAIN <<a>> : Is(<<a>>[i], "tool") /\ <<a>>[i].calls = 0 BY <3>2, <3>3 DEF Is
      <4> QED BY <3>1, <3>3, <4>1, <4>2, ExchangeAddable
    <3>5. <<c>> \o <<a>> = <<c, a>>
      <4>1. \A u, v \in Seq(Message) : Len(u) = Len(v) /\ (\A i \in 1..Len(v) : u[i] = v[i]) => u = v
        OBVIOUS
      <4>2. <<c, a>> \in Seq(Message) /\ Len(<<c, a>>) = 2 /\ <<c, a>>[1] = c /\ <<c, a>>[2] = a BY <3>1, <3>2
      <4>3. <<c>> \o <<a>> \in Seq(Message) /\ Len(<<c>> \o <<a>>) = 2
            /\ (<<c>> \o <<a>>)[1] = c /\ (<<c>> \o <<a>>)[2] = a
        BY <3>1, <3>2
      <4>4. \A i \in 1..2 : (<<c>> \o <<a>>)[i] = <<c, a>>[i]
        <5>1. \A i \in 1..2 : i = 1 \/ i = 2 OBVIOUS
        <5> QED BY <4>2, <4>3, <5>1
      <4> QED BY <4>1, <4>2, <4>3, <4>4
    <3> QED BY <2>1, <3>4, <3>5 DEF AutoRead, c, a
  <2>2. CASE ~project
    <3>1. <<>> \in Seq(Said) OBVIOUS
    <3> QED BY <2>2, <3>1, SaidAddable DEF AutoRead
  <2> QED BY <2>1, <2>2
<1> QED BY <1>3, <1>4

LEMMA RowsAddable ==
    ASSUME stored \in Seq(Saved)
    PROVE  Rows \in Seq(Said)
<1> DEFINE row(i) == <<Says(<<stored[i].request>>)>>
                     \o (IF stored[i].answered THEN <<Plain("assistant")>> ELSE <<>>)
<1>1. ASSUME NEW i \in DOMAIN stored PROVE row(i) \in Seq(Said)
  <2>1. stored[i].request \in Request
    <3>1. stored[i] \in Saved OBVIOUS
    <3> QED BY <3>1 DEF Saved
  <2> DEFINE r == stored[i].request
  <2>2. Says(<<r>>) \in Said BY <2>1, OpeningTyped
  <2>3. Plain("assistant") \in Said BY TextTyped DEF Forms
  <2> DEFINE u == Says(<<r>>)
  <2> DEFINE v == Plain("assistant")
  <2> DEFINE b == stored[i].answered
  <2>4. row(i) = <<u>> \o (IF b THEN <<v>> ELSE <<>>) OBVIOUS
  <2>5. u \in Said /\ v \in Said BY <2>2, <2>3
  <2> HIDE DEF u, v, b, row
  <2>6. <<u>> \in Seq(Said) /\ <<v>> \in Seq(Said) /\ <<>> \in Seq(Said) BY <2>5
  <2>7. (IF b THEN <<v>> ELSE <<>>) \in Seq(Said) BY <2>6
  <2> QED BY <2>4, <2>6, <2>7
<1>2. Rows = FlattenSeq([i \in DOMAIN stored |-> row(i)]) BY DEF Rows
<1> HIDE DEF row
<1>3. [i \in DOMAIN stored |-> row(i)] \in Seq(Seq(Said))
  <2>1. DOMAIN stored = 1..Len(stored) /\ Len(stored) \in Nat OBVIOUS
  <2> QED BY <1>1, <2>1
<1> QED BY <1>2, <1>3, FlattenTyped

LEMMA SystemSound ==
    /\ Sound(<<Plain("system")>>) /\ AllAnswered(<<Plain("system")>>)
    /\ \A b \in Seq(Said) : Sound(<<Plain("system")>> \o b) /\ AllAnswered(<<Plain("system")>> \o b)
<1> DEFINE m == Plain("system")
<1>1. m \in Message /\ m.role = "system" /\ m.calls = 0 /\ m.size = "short" BY PlainTyped
<1> HIDE DEF m
<1>2. <<m>> \in Seq(Message) /\ <<m>> # <<>> /\ DOMAIN <<m>> = 1..1 /\ <<m>>[1] = m BY <1>1
<1>3. Quiet(<<m>>) BY <1>1, <1>2 DEF Quiet, Is
<1>4. Sound(<<m>>) /\ AllAnswered(<<m>>)
  <2>1. NoOrphans(<<m>>) /\ AllAnswered(<<m>>) /\ Callers(<<m>>) BY <1>2, <1>3, QuietKeeps
  <2>2. \A i \in DOMAIN <<m>> : i = 1 /\ <<m>>[i] = m BY <1>2
  <2>3. \A i \in DOMAIN <<m>> : Is(<<m>>[i], "system") <=> i = 1 BY <1>1, <2>2 DEF Is
  <2>4. \A i \in DOMAIN <<m>> : <<m>>[i].size # "cut" BY <1>1, <2>2
  <2> QED BY <1>2, <2>1, <2>3, <2>4 DEF Sound
<1>5. \A b \in Seq(Said) : Sound(<<m>> \o b) /\ AllAnswered(<<m>> \o b)
  BY <1>4, SaidAddable, SoundJoin
<1> QED BY <1>4, <1>5 DEF m

(* What an interrupt leaves of a history was in order at the start of its turn. *)
LEMMA ForgottenKeeps ==
    ASSUME NEW h, Sound(h), NEW t, TurnOk(t)
    PROVE  /\ Sound(Forgotten(h, t))
           /\ ClosedAt(h, t.before) /\ (\A i \in 1..t.before : ~Unanswered(h, i)) => AllAnswered(Forgotten(h, t))
<1>1. h \in Seq(Message) /\ Len(h) \in Nat /\ Len(h) >= 1 /\ DOMAIN h = 1..Len(h)
      /\ t.before \in Nat /\ t.before >= 1 /\ t.request \in Request
  BY DEF Sound, TurnOk
<1> DEFINE n == Min({t.before, Len(h)})
<1> DEFINE cut == SubSeq(h, 1, n)
<1> DEFINE back == <<Says(<<t.request>>), Plain("assistant")>>
<1>2. n \in {t.before, Len(h)} /\ n <= t.before /\ n <= Len(h)
  <2>1. {t.before, Len(h)} \subseteq Nat BY <1>1
  <2>2. n \in {t.before, Len(h)} /\ \A k \in {t.before, Len(h)} : n <= k BY <2>1, MinIsThere
  <2> HIDE DEF n
  <2> QED BY <2>2
<1>3. Forgotten(h, t) = IF t.before <= 1 THEN cut ELSE cut \o back BY DEF Forgotten
<1> HIDE DEF n
<1>4. n \in 1..Len(h) /\ n \in 0..Len(h) BY <1>1, <1>2
<1>5. /\ cut \in Seq(Message) /\ Len(cut) = n /\ \A i \in 1..n : cut[i] = h[i]
      /\ NoOrphans(cut) /\ Callers(cut)
      /\ (\A i \in 1..n : ~Unanswered(h, i) /\ i + h[i].calls <= n) => AllAnswered(cut)
  BY <1>1, <1>4, PrefixKeeps DEF Sound
<1> HIDE DEF cut, back
<1>6. Sound(cut)
  <2>1. DOMAIN cut = 1..n /\ \A i \in 1..n : i \in DOMAIN h BY <1>1, <1>4, <1>5
  <2>2. cut # <<>> BY <1>4, <1>5
  <2>3. \A i \in DOMAIN cut : Is(cut[i], "system") <=> i = 1 BY <1>5, <2>1 DEF Sound
  <2>4. \A i \in DOMAIN cut : cut[i].role \notin {"tool", "assistant"} => cut[i].size # "cut"
    BY <1>5, <2>1 DEF Sound
  <2> QED BY <1>5, <2>2, <2>3, <2>4 DEF Sound
<1>7. back \in Seq(Said)
  <2>1. Says(<<t.request>>) \in Said BY <1>1, OpeningTyped
  <2>2. Plain("assistant") \in Said BY TextTyped DEF Forms
  <2> QED BY <2>1, <2>2 DEF back
<1>8. Sound(cut \o back) /\ (AllAnswered(cut) => AllAnswered(cut \o back))
  BY <1>6, <1>7, SaidAddable, SoundJoin
<1>9. ClosedAt(h, t.before) /\ (\A i \in 1..t.before : ~Unanswered(h, i)) => AllAnswered(cut)
  <2> SUFFICES ASSUME ClosedAt(h, t.before), \A i \in 1..t.before : ~Unanswered(h, i)
               PROVE  AllAnswered(cut)
    OBVIOUS
  <2>1. n = t.before BY <1>1, <1>2 DEF ClosedAt
  <2> QED BY <1>5, <2>1 DEF ClosedAt
<1> QED BY <1>3, <1>6, <1>8, <1>9

(* What steps do to it: one that is not in a turn afterwards, ...             *)
LEMMA HistOver ==
    ASSUME HistInv, phase' \in {"prompt", "closed"}, Sound(messages'), excused' \in BOOLEAN,
           excused' \/ AllAnswered(messages'), stored' \in Seq(Saved), queue' \in Seq(Request),
           asked' \in 0..MaxRequests
    PROVE  HistInv'
BY DEF HistInv, InTurn

(* ... one that goes on with the turn and adds to the history, ...            *)
LEMMA HistGoesOn ==
    ASSUME HistInv, phase \in {"deciding", "folding", "asking"}, phase' \in {"deciding", "folding", "asking"},
           SameTurn(turn, turn'), UNCHANGED <<stored, excused>>, queue' \in Seq(Request), asked' \in 0..MaxRequests,
           messages' = messages \/ \E b : Addable(b) /\ messages' = messages \o b
    PROVE  HistInv'
<1>1. /\ Sound(messages) /\ TurnOk(turn) /\ (excused \/ AllAnswered(messages))
      /\ excused \/ turn.compacted \/ ClosedAt(messages, turn.before)
  BY DEF HistInv, InTurn
<1>2. CASE messages' = messages
  <2>1. Sound(messages') /\ (AllAnswered(messages) => AllAnswered(messages'))
        /\ (ClosedAt(messages, turn.before) => ClosedAt(messages', turn.before))
    BY <1>1, <1>2
  <2> QED BY <1>1, <2>1 DEF HistInv, InTurn, SameTurn
<1>3. ASSUME NEW b, Addable(b), messages' = messages \o b PROVE HistInv'
  <2>1. Sound(messages') /\ (AllAnswered(messages) => AllAnswered(messages')) BY <1>1, <1>3, SoundJoin
  <2>2. ClosedAt(messages, turn.before) => ClosedAt(messages', turn.before)
    <3>1. messages \in Seq(Message) /\ b \in Seq(Message) /\ turn.before \in Nat
      BY <1>1, <1>3 DEF Sound, Addable, TurnOk
    <3> QED BY <1>3, <3>1, ClosedKept
  <2> QED BY <1>1, <2>1, <2>2 DEF HistInv, InTurn, SameTurn
<1> QED BY <1>2, <1>3

(* ... one that compacts, ...                                                *)
LEMMA HistCompacts ==
    ASSUME HistInv, phase \in {"deciding", "folding"}, phase' = "asking",
           UNCHANGED <<stored, excused, queue, asked>>, messages' = Compacted(messages, ledger, FALSE),
           turn' = [turn EXCEPT !.compacted = Len(messages') # Len(messages) \/ @]
    PROVE  HistInv'
<1>1. /\ Sound(messages) /\ TurnOk(turn) /\ (excused \/ AllAnswered(messages))
      /\ excused \/ turn.compacted \/ ClosedAt(messages, turn.before)
  BY DEF HistInv, InTurn
<1>2. Sound(messages') /\ (AllAnswered(messages) => AllAnswered(messages'))
  BY <1>1, CompactedKeeps
<1> DEFINE b == Len(messages') # Len(messages) \/ turn.compacted
<1>3. TurnOk(turn') /\ turn'.before = turn.before /\ turn'.compacted = b
  <2>1. b \in BOOLEAN /\ turn' = [turn EXCEPT !.compacted = b] BY <1>1 DEF TurnOk
  <2> HIDE DEF b
  <2> QED BY <1>1, <2>1, TurnKept
<1>4. ASSUME ~b PROVE excused \/ ClosedAt(messages', turn.before)
  <2>1. Len(messages') = Len(messages) /\ ~turn.compacted BY <1>4
  <2>2. turn.before \in Nat BY <1>1 DEF TurnOk
  <2> QED BY <1>1, <2>1, <2>2, ClosedCompacted
<1> HIDE DEF b
<1> QED BY <1>1, <1>2, <1>3, <1>4 DEF HistInv, InTurn

(* ... and one that ends with calls.                                         *)
LEMMA HistCalls ==
    ASSUME HistInv, phase = "asking", phase' = "running", SameTurn(turn, turn'),
           UNCHANGED <<stored, excused, queue, asked>>,
           NEW h, h = messages \/ (\E b : Addable(b) /\ h = messages \o b),
           NEW m \in Message, Is(m, "assistant"), m.calls > 0, messages' = Append(h, m)
    PROVE  HistInv'
<1>1. /\ Sound(messages) /\ TurnOk(turn) /\ (excused \/ AllAnswered(messages))
      /\ excused \/ turn.compacted \/ ClosedAt(messages, turn.before)
      /\ turn.before \in Nat
  BY DEF HistInv, InTurn, TurnOk
<1>2. Sound(h) /\ (AllAnswered(messages) => AllAnswered(h))
      /\ (ClosedAt(messages, turn.before) => ClosedAt(h, turn.before))
  <2>1. CASE h = messages BY <1>1, <2>1
  <2>2. ASSUME NEW b, Addable(b), h = messages \o b
        PROVE  Sound(h) /\ (AllAnswered(messages) => AllAnswered(h))
               /\ (ClosedAt(messages, turn.before) => ClosedAt(h, turn.before))
    <3>1. messages \in Seq(Message) /\ b \in Seq(Message) BY <1>1, <2>2 DEF Sound, Addable
    <3> QED BY <1>1, <2>2, <3>1, SoundJoin, ClosedKept
  <2> QED BY <2>1, <2>2
<1>3. /\ Sound(messages') /\ (AllAnswered(h) => AnsweredBefore(messages'))
      /\ messages' = h \o <<m>> /\ messages'[Len(messages')] = m
  BY <1>2, CallAdded
<1>4. ClosedAt(h, turn.before) => ClosedAt(messages', turn.before)
  <2>1. h \in Seq(Message) /\ <<m>> \in Seq(Message) BY <1>2 DEF Sound
  <2> QED BY <1>1, <1>3, <2>1, ClosedKept
<1>5. Pending' = m BY <1>3 DEF Pending
<1> QED BY <1>1, <1>2, <1>3, <1>4, <1>5 DEF HistInv, InTurn, SameTurn

LEMMA HistInit == Init => HistInv
<1> SUFFICES ASSUME Init PROVE HistInv
  OBVIOUS
<1>1. Sound(messages) /\ AllAnswered(messages) BY SystemSound DEF Init
<1>2. stored \in Seq(Saved) /\ queue \in Seq(Request) /\ asked \in 0..MaxRequests
  BY ConversationAssumption DEF Init
<1> QED BY <1>1, <1>2 DEF Init, HistInv, InTurn

LEMMA HistStarts ==
    ASSUME HistInv, phase = "prompt", NEW r \in Request, NEW edit, NEW found \in BOOLEAN,
           StartTurn(r, edit, found), queue' \in Seq(Request), asked' \in 0..MaxRequests
    PROVE  HistInv'
<1> DEFINE project == found /\ Len(messages) = 1
<1> DEFINE um == WithOverview(Says(<<r>>), project)
<1> DEFINE h == messages \o AutoRead(project) \o <<um>>
<1>1. Sound(messages) /\ (excused \/ AllAnswered(messages)) /\ stored \in Seq(Saved) /\ excused \in BOOLEAN
  BY DEF HistInv
<1>2. messages' = h /\ phase' = "deciding" /\ UNCHANGED <<stored, excused>> BY DEF StartTurn, Kept
<1>3. turn' = [NoTurn EXCEPT !.request = r, !.edit = edit, !.before = Len(messages),
                             !.start = Len(h), !.left = MaxTurns]
  BY DEF StartTurn
<1>4. um \in Said /\ Addable(AutoRead(project))
  <2>1. project \in BOOLEAN OBVIOUS
  <2> HIDE DEF project
  <2> QED BY <2>1, OpeningTyped
<1>5. messages \in Seq(Message) /\ Len(messages) \in Nat \ {0} BY <1>1 DEF Sound
<1>6. /\ TurnOk(turn') /\ turn'.before = Len(messages)
  <2> HIDE DEF h
  <2> QED BY <1>3, <1>5 DEF TurnOk, NoTurn
<1> DEFINE read == AutoRead(project)
<1> HIDE DEF um, read
<1>7. <<um>> \in Seq(Said) BY <1>4
<1>8. Addable(read) /\ Addable(<<um>>) /\ read \in Seq(Message) /\ <<um>> \in Seq(Message)
  BY <1>4, <1>7, SaidAddable DEF Addable, read
<1>9. messages' = (messages \o read) \o <<um>> BY <1>2 DEF read
<1>10. Sound(messages \o read) /\ (AllAnswered(messages) => AllAnswered(messages \o read))
  BY <1>1, <1>8, SoundJoin
<1>11. Sound(messages') /\ (AllAnswered(messages) => AllAnswered(messages'))
  BY <1>8, <1>9, <1>10, SoundJoin
<1>12. AllAnswered(messages) => ClosedAt(messages', Len(messages))
  <2>1. AllAnswered(messages) => ClosedAt(messages, Len(messages)) BY <1>1, ClosedWhole
  <2>2. ClosedAt(messages, Len(messages)) => ClosedAt(messages \o read, Len(messages))
    BY <1>5, <1>8, ClosedKept
  <2>3. messages \o read \in Seq(Message) BY <1>10 DEF Sound
  <2>4. ClosedAt(messages \o read, Len(messages)) => ClosedAt(messages', Len(messages))
    BY <1>5, <1>8, <1>9, <2>3, ClosedKept
  <2> QED BY <2>1, <2>2, <2>4
<1> QED BY <1>1, <1>2, <1>6, <1>11, <1>12 DEF HistInv, InTurn

LEMMA HistNext == HistInv /\ [Next]_vars => HistInv'
<1> SUFFICES ASSUME HistInv, [Next]_vars PROVE HistInv'
  OBVIOUS
<1>0. /\ Sound(messages) /\ stored \in Seq(Saved) /\ queue \in Seq(Request) /\ asked \in 0..MaxRequests
      /\ excused \in BOOLEAN /\ MaxRequests \in Nat /\ messages \in Seq(Message)
      /\ phase \in InTurn => TurnOk(turn)
      /\ phase # "running" => excused \/ AllAnswered(messages)
  BY ConversationAssumption DEF HistInv, Sound
<1>n. asked < MaxRequests => asked + 1 \in Request /\ asked + 1 \in 0..MaxRequests BY <1>0 DEF Request
<1>1. CASE Ask
  <2>1. phase = "prompt" /\ asked' = asked + 1 /\ asked' \in Request /\ asked' \in 0..MaxRequests
        /\ queue' \in Seq(Request)
    BY <1>0, <1>n, <1>1 DEF Ask
  <2> QED BY <1>1, <2>1, HistStarts DEF Ask
<1>2. CASE RunQueued
  <2>1. phase = "prompt" /\ Head(queue) \in Request /\ queue' \in Seq(Request) /\ asked' \in 0..MaxRequests
    BY <1>0, <1>2 DEF RunQueued
  <2> QED BY <1>2, <2>1, HistStarts DEF RunQueued
<1>3. CASE Submit
  <2>1. queue' \in Seq(Request) /\ asked' \in 0..MaxRequests BY <1>0, <1>n, <1>3 DEF Submit
  <2>2. UNCHANGED <<messages, phase, turn, stored, excused>> BY <1>3 DEF Submit, Kept
  <2> QED BY <2>1, <2>2 DEF HistInv, Pending
<1>4. CASE OutOfTurns BY <1>0, <1>4, HistOver DEF OutOfTurns, ToPrompt, Stays, Kept
<1>5. CASE Decide
  <2>1. phase = "deciding" /\ UNCHANGED <<stored, excused, queue, asked>> BY <1>5 DEF Decide, Stays, Kept
  <2>2. TurnOk(turn) BY <1>0, <2>1 DEF InTurn
  <2>3. CASE phase' = "folding" /\ UNCHANGED <<messages, turn>>
    <3>1. SameTurn(turn, turn') BY <2>2, <2>3, TurnKept
    <3> QED BY <1>0, <2>1, <2>3, <3>1, HistGoesOn
  <2>4. CASE /\ phase' = "asking" /\ messages' = messages
             /\ turn' = [turn EXCEPT !.compacted = Len(messages') # Len(messages) \/ @]
    <3>1. turn' = [turn EXCEPT !.compacted = turn.compacted] BY <2>2, <2>4 DEF TurnOk
    <3>2. turn.compacted \in BOOLEAN BY <2>2 DEF TurnOk
    <3>3. SameTurn(turn, turn')
      <4>1. /\ TurnOk([turn EXCEPT !.compacted = turn.compacted])
            /\ [turn EXCEPT !.compacted = turn.compacted].before = turn.before
            /\ [turn EXCEPT !.compacted = turn.compacted].compacted = turn.compacted
        BY <2>2, <3>2, TurnKept
      <4> QED BY <3>1, <4>1 DEF SameTurn
    <3> QED BY <1>0, <2>1, <2>4, <3>3, HistGoesOn
  <2>5. CASE /\ phase' = "asking" /\ messages' = Compacted(messages, ledger, FALSE)
             /\ turn' = [turn EXCEPT !.compacted = Len(messages') # Len(messages) \/ @]
    BY <2>1, <2>5, HistCompacts
  <2> QED BY <1>5, <2>3, <2>4, <2>5 DEF Decide
<1>6. CASE EndFold BY <1>6, HistCompacts DEF EndFold, Stays, Kept
<1>7. CASE ReplyCalls
  <2>1. phase = "asking" /\ phase' = "running" /\ UNCHANGED <<stored, excused, queue, asked>> /\ turn' = Spend(turn)
    BY <1>7 DEF ReplyCalls, Replies, Kept
  <2>2. SameTurn(turn, turn') BY <1>0, <2>1, TurnKept DEF InTurn
  <2>3. PICK m \in Calls : messages' = Append(messages, m) BY <1>7 DEF ReplyCalls
  <2>4. \E n \in 1..2, size \in {"short", "long"} : m = Calling(n, size)
    BY <2>3 DEF Calls, NativeCalls, JsonCalls, CodeBlocks
  <2>5. m \in Message /\ Is(m, "assistant") /\ m.calls > 0 BY <2>4, CallTyped DEF Is
  <2> QED BY <2>1, <2>2, <2>3, <2>5, HistCalls
<1>8. ASSUME NEW form \in Forms, ReplyText(form) PROVE HistInv'
  <2>0. phase = "asking" /\ TurnOk(turn) /\ TextReply(form) \in Said /\ Plain("user") \in Said
    BY <1>0, <1>8, TextTyped DEF ReplyText, Nudge, GiveUp, Salvage, ActNow, Accept, InTurn
  <2>a. /\ <<TextReply(form), Plain("user")>> \in Seq(Said) /\ <<TextReply(form)>> \in Seq(Said)
        /\ Append(messages, TextReply(form)) = messages \o <<TextReply(form)>>
    BY <1>0, <2>0
  <2>b. Addable(<<TextReply(form), Plain("user")>>) /\ Addable(<<TextReply(form)>>) BY <2>a, SaidAddable
  <2>1. CASE Nudge(form)
    <3>1. phase' = "deciding" /\ UNCHANGED <<stored, excused, queue, asked>>
          /\ messages' = messages \o <<TextReply(form), Plain("user")>>
          /\ \E b : turn' = [Spend(turn) EXCEPT !.nudged = b]
      BY <2>1 DEF Nudge, Replies, Kept
    <3>2. SameTurn(turn, turn')
      <4>1. PICK b : turn' = [Spend(turn) EXCEPT !.nudged = b] BY <3>1
      <4>2. SameTurn(turn, [Spend(turn) EXCEPT !.nudged = b]) BY <2>0, TurnKept
      <4> QED BY <4>1, <4>2
    <3> QED BY <1>0, <2>0, <2>b, <3>1, <3>2, HistGoesOn
  <2>2. CASE GiveUp(form)
    <3>1. phase' = "closed" /\ UNCHANGED <<stored, excused, asked>> /\ queue' = <<>>
          /\ messages' = messages \o <<TextReply(form)>>
      BY <2>2, <2>a DEF GiveUp, Kept
    <3>2. Sound(messages') /\ (AllAnswered(messages) => AllAnswered(messages'))
      BY <1>0, <2>b, <3>1, SoundJoin
    <3> QED BY <1>0, <2>0, <3>1, <3>2, HistOver
  <2>3. CASE Salvage(form)
    <3>1. phase' = "running" /\ UNCHANGED <<stored, excused, queue, asked>>
          /\ messages' = Append(messages \o <<TextReply(form)>>, Calling(1, "long"))
          /\ \E b : turn' = [Spend(turn) EXCEPT !.nudged = b]
      BY <2>3, <2>a DEF Salvage, Replies, Kept
    <3>2. SameTurn(turn, turn')
      <4>1. PICK b : turn' = [Spend(turn) EXCEPT !.nudged = b] BY <3>1
      <4>2. SameTurn(turn, [Spend(turn) EXCEPT !.nudged = b]) BY <2>0, TurnKept
      <4> QED BY <4>1, <4>2
    <3>3. Calling(1, "long") \in Message /\ Is(Calling(1, "long"), "assistant") /\ Calling(1, "long").calls > 0
      BY CallTyped DEF Is
    <3> QED BY <2>0, <2>b, <3>1, <3>2, <3>3, HistCalls
  <2>4. CASE ActNow(form)
    <3>1. phase' = "deciding" /\ UNCHANGED <<stored, excused, queue, asked>>
          /\ messages' = messages \o <<TextReply(form), Plain("user")>>
          /\ \E b : turn' = [Spend(turn) EXCEPT !.nudged = b]
      BY <2>4 DEF ActNow, Replies, Kept
    <3>2. SameTurn(turn, turn')
      <4>1. PICK b : turn' = [Spend(turn) EXCEPT !.nudged = b] BY <3>1
      <4>2. SameTurn(turn, [Spend(turn) EXCEPT !.nudged = b]) BY <2>0, TurnKept
      <4> QED BY <4>1, <4>2
    <3> QED BY <1>0, <2>0, <2>b, <3>1, <3>2, HistGoesOn
  <2>5. CASE Accept(form)
    <3>1. phase' = "prompt" /\ UNCHANGED <<excused, queue, asked>>
          /\ messages' = messages \o <<TextReply(form)>>
          /\ stored' = Append(stored, [request |-> turn.request, answered |-> form # "empty"])
      BY <2>5, <2>a DEF Accept, ToPrompt, Replies
    <3>2. Sound(messages') /\ (AllAnswered(messages) => AllAnswered(messages'))
      BY <1>0, <2>b, <3>1, SoundJoin
    <3>3. [request |-> turn.request, answered |-> form # "empty"] \in Saved
      BY <2>0 DEF Saved, TurnOk
    <3>4. stored' \in Seq(Saved) BY <1>0, <3>1, <3>3
    <3> QED BY <1>0, <2>0, <3>1, <3>2, <3>4, HistOver
  <2> QED BY <1>8, <2>1, <2>2, <2>3, <2>4, <2>5 DEF ReplyText
<1>9. CASE EndCalls
  <2> DEFINE n == Pending.calls
  <2>1. PICK did \in Work, stuck \in BOOLEAN :
           /\ messages' = messages
                \o [i \in 1..Pending.calls |-> Result(IF i = 1 /\ ~Writes THEN "long" ELSE "short")]
                \o (IF stuck THEN <<Plain("user")>> ELSE <<>>)
           /\ turn' = [turn EXCEPT !.called = TRUE, !.work = IF Writes THEN After(@, did) ELSE @]
    BY <1>9 DEF EndCalls
  <2> DEFINE r == [i \in 1..Pending.calls |-> Result(IF i = 1 /\ ~Writes THEN "long" ELSE "short")]
  <2> DEFINE more == IF stuck THEN <<Plain("user")>> ELSE <<>>
  <2>2. phase = "running" /\ phase' = "deciding" /\ UNCHANGED <<stored, excused, queue, asked>>
    BY <1>9 DEF EndCalls, Stays, Kept
  <2>3. /\ Is(Pending, "assistant") /\ Pending.calls > 0 /\ Pending.calls \in Nat
        /\ excused \/ AnsweredBefore(messages)
        /\ excused \/ turn.compacted \/ ClosedAt(messages, turn.before)
        /\ TurnOk(turn)
    <3>1. Len(messages) \in DOMAIN messages BY <1>0 DEF Sound
    <3> QED BY <1>0, <2>2, <3>1, MessageFields DEF HistInv, InTurn, Pending
  <2>4. SameTurn(turn, turn') BY <2>1, <2>3, TurnKept
  <2>5. r \in Seq(Message) /\ Len(r) = Pending.calls /\ \A i \in DOMAIN r : Is(r[i], "tool") /\ r[i].calls = 0
    <3>1. \A size \in {"short", "long"} :
            Result(size) \in Message /\ Is(Result(size), "tool") /\ Result(size).calls = 0
      <4>1. 1 \in 1..2 OBVIOUS
      <4> QED BY <4>1, CallTyped DEF Is
    <3>2. \A i \in 1..Pending.calls : r[i] \in Message /\ Is(r[i], "tool") /\ r[i].calls = 0 BY <3>1
    <3>3. DOMAIN r = 1..Pending.calls /\ r = [i \in 1..Pending.calls |-> r[i]] OBVIOUS
    <3> HIDE DEF r
    <3>4. r \in [1..Pending.calls -> Message] BY <3>2, <3>3
    <3> QED BY <2>3, <3>2, <3>3, <3>4
  <2>6. Addable(more) /\ more \in Seq(Message)
    <3>1. more \in Seq(Said) BY TextTyped DEF Forms
    <3> QED BY <3>1, SaidAddable
  <2>7. messages' = (messages \o r) \o more BY <2>1
  <2> HIDE DEF r, more
  <2>8. Sound(messages \o r) /\ (AnsweredBefore(messages) => AllAnswered(messages \o r))
    BY <1>0, <2>3, <2>5, ResultsAdded DEF Pending
  <2>9. Sound(messages') /\ (AnsweredBefore(messages) => AllAnswered(messages'))
    BY <2>6, <2>7, <2>8, SoundJoin
  <2>10. ClosedAt(messages, turn.before) => ClosedAt(messages', turn.before)
    <3>1. messages \o r \in Seq(Message) /\ turn.before \in Nat BY <2>3, <2>8 DEF Sound, TurnOk
    <3> QED BY <1>0, <2>5, <2>6, <2>7, <3>1, ClosedKept
  <2> QED BY <1>0, <2>2, <2>3, <2>4, <2>9, <2>10 DEF HistInv, InTurn, SameTurn
<1>10. CASE BackendFails BY <1>0, <1>10, HistOver DEF BackendFails, ToPrompt, Stays, Kept
<1>11. CASE SubAgentFails BY <1>0, <1>11, HistOver DEF SubAgentFails, ToPrompt
<1>12. CASE Interrupt
  <2>1. phase \in {"folding", "asking", "running"} /\ phase' = "prompt" /\ UNCHANGED <<queue, asked, stored>>
        /\ messages' = Forgotten(messages, turn) /\ excused' = (excused \/ turn.compacted)
    BY <1>12 DEF Interrupt, Waiting, ToPrompt
  <2>2. TurnOk(turn) /\ (excused \/ turn.compacted \/ ClosedAt(messages, turn.before))
    BY <2>1 DEF HistInv, InTurn
  <2>3. Sound(messages') /\ excused' \in BOOLEAN BY <1>0, <2>1, <2>2, ForgottenKeeps
  <2>4. excused' \/ AllAnswered(messages')
    <3> SUFFICES ASSUME ~excused, ~turn.compacted PROVE AllAnswered(messages')
      BY <2>1
    <3>1. ClosedAt(messages, turn.before) BY <2>2
    <3>2. \A i \in 1..turn.before : ~Unanswered(messages, i)
      <4> TAKE i \in 1..turn.before
      <4>0. Len(messages) \in Nat /\ turn.before \in Nat /\ turn.before <= Len(messages)
            /\ i + messages[i].calls <= turn.before /\ i \in 1..Len(messages) /\ i \in DOMAIN messages
        BY <1>0, <2>2, <3>1 DEF ClosedAt, TurnOk
      <4>1. CASE phase = "running"
        <5>1. Pending.calls > 0 /\ AnsweredBefore(messages) BY <4>1 DEF HistInv
        <5>2. CASE i = Len(messages)
          <6>1. messages[i].calls > 0 /\ messages[i].calls \in Nat BY <1>0, <4>0, <5>1, <5>2, MessageFields DEF Pending
          <6> QED BY <4>0, <5>2, <6>1
        <5>3. CASE i # Len(messages)
          <6>1. i \in 1..(Len(messages) - 1) BY <4>0, <5>3
          <6> QED BY <5>1, <6>1 DEF AnsweredBefore
        <5> QED BY <5>2, <5>3
      <4>2. CASE phase # "running" BY <1>0, <4>0, <4>2 DEF AllAnswered
      <4> QED BY <4>1, <4>2
    <3> QED BY <1>0, <2>1, <2>2, <3>1, <3>2, ForgottenKeeps
  <2> QED BY <1>0, <2>1, <2>3, <2>4, HistOver
<1>13. CASE Clear BY <1>0, <1>13, SystemSound, HistOver DEF Clear, AtPrompt
<1>14. CASE CompactNow
  <2>1. phase = "prompt" /\ phase' = "prompt" /\ UNCHANGED <<queue, asked, stored, excused>>
        /\ messages' = Compacted(messages, ledger, TRUE)
    BY <1>14 DEF CompactNow, AtPrompt, Kept
  <2>2. Sound(messages') /\ (AllAnswered(messages) => AllAnswered(messages')) BY <1>0, <2>1, CompactedKeeps
  <2> QED BY <1>0, <2>1, <2>2, HistOver
<1>15. CASE Resume
  <2>1. Sound(messages') /\ AllAnswered(messages') BY <1>0, <1>15, RowsAddable, SystemSound DEF Resume
  <2> QED BY <1>0, <1>15, <2>1, HistOver DEF Resume, AtPrompt
<1>16. CASE Exit BY <1>0, <1>16, HistOver DEF Exit, AtPrompt, Kept
<1>17. CASE Open BY <1>0, <1>17, SystemSound, HistOver DEF Open
<1>18. CASE UNCHANGED vars BY <1>18 DEF vars, HistInv, Pending
<1> QED BY <1>1, <1>2, <1>3, <1>4, <1>5, <1>6, <1>7, <1>8, <1>9, <1>10, <1>11, <1>12, <1>13, <1>14,
           <1>15, <1>16, <1>17, <1>18 DEF Next, Reply

(* A history that is sent, or left for the next request, has no tool result     *)
(* without the call it answers and no call without its results, whatever was   *)
(* compacted, interrupted or salvaged (ContextManager.compact, _tail_start,    *)
(* _forget_interrupted_turn).                                               *)
THEOREM ResultsStayWithTheirCalls == Spec => []ResultsFollowTheirCalls
<1>1. HistInv => ResultsFollowTheirCalls
  BY DEF HistInv, Sound, NoOrphans, AllAnswered, ResultsFollowTheirCalls
<1> QED BY <1>1, HistInit, HistNext, PTL DEF Spec

-----------------------------------------------------------------------------
(* What compaction spares. *)

(* The latest exchange, when nothing but its results and one message about them *)
(* follow it, is as it was written.                                         *)
Fresh(h, i) == \A j \in (i + 1)..Len(h) : Is(h[j], "tool") \/ (j = Len(h) /\ ~Is(h[j], "assistant"))
Intact(h) == \A i \in 2..Len(h) :
                 Is(h[i], "assistant") /\ Fresh(h, i) => \A j \in (i + 1)..Len(h) : h[j].size # "cut"
NoneCut(b) == \A i \in DOMAIN b : b[i].size # "cut"
RestElided(h) == \A i \in 2..(LastExchange(h) - 1) : Is(h[i], "user") \/ h[i].size # "long"

LEMMA IntactShort ==
    ASSUME NEW h, Len(h) = 1
    PROVE  Intact(h)
BY DEF Intact

LEMMA IntactLast ==
    ASSUME NEW h \in Seq(Message), h # <<>>, Is(h[Len(h)], "assistant")
    PROVE  Intact(h)
<1> SUFFICES ASSUME NEW i \in 2..Len(h), Fresh(h, i), NEW j \in (i + 1)..Len(h) PROVE FALSE
  BY DEF Intact
<1>1. Len(h) \in (i + 1)..Len(h) OBVIOUS
<1> QED BY <1>1 DEF Fresh, Is

LEMMA IntactJoin ==
    ASSUME NEW a \in Seq(Message), Intact(a), NEW b \in Seq(Message), NoneCut(b)
    PROVE  Intact(a \o b)
<1> DEFINE c == a \o b
<1>1. /\ Len(c) = Len(a) + Len(b) /\ Len(a) \in Nat /\ Len(b) \in Nat
      /\ \A i \in 1..Len(a) : c[i] = a[i]
      /\ \A i \in 1..Len(b) : c[i + Len(a)] = b[i]
      /\ DOMAIN b = 1..Len(b)
  BY JoinFields
<1> HIDE DEF c
<1>2. \A j \in (Len(a) + 1)..Len(c) : c[j].size # "cut"
  <2> TAKE j \in (Len(a) + 1)..Len(c)
  <2>1. j - Len(a) \in 1..Len(b) /\ (j - Len(a)) + Len(a) = j BY <1>1
  <2>2. c[(j - Len(a)) + Len(a)] = b[j - Len(a)] BY <1>1, <2>1
  <2> QED BY <1>1, <2>1, <2>2 DEF NoneCut
<1>3. ASSUME NEW i \in 2..Len(c), Is(c[i], "assistant"), Fresh(c, i), NEW j \in (i + 1)..Len(c)
      PROVE  c[j].size # "cut"
  <2>1. CASE j > Len(a) BY <1>1, <1>2, <2>1
  <2>2. CASE j <= Len(a)
    <3>1. i \in 2..Len(a) /\ j \in (i + 1)..Len(a) /\ i \in 1..Len(a) BY <1>1, <2>2
    <3>2. Is(a[i], "assistant") BY <1>1, <1>3, <3>1 DEF Is
    <3>3. Fresh(a, i)
      <4> SUFFICES ASSUME NEW k \in (i + 1)..Len(a)
                   PROVE  Is(a[k], "tool") \/ (k = Len(a) /\ ~Is(a[k], "assistant"))
        BY DEF Fresh
      <4>1. k \in (i + 1)..Len(c) /\ k \in 1..Len(a) /\ (k = Len(c) => k = Len(a)) BY <1>1, <3>1
      <4> QED BY <1>1, <1>3, <4>1 DEF Fresh, Is
    <3>4. a[j].size # "cut" BY <3>1, <3>2, <3>3 DEF Intact
    <3> QED BY <1>1, <3>1, <3>4
  <2> QED BY <1>1, <2>1, <2>2
<1> QED BY <1>3 DEF Intact, c

LEMMA IntactShown ==
    ASSUME NEW h, Sound(h), Intact(h),
           \A i \in (LastExchange(h) + 1)..Len(h) : Is(h[i], "tool") \/ i = Len(h)
    PROVE  \A i \in (LastExchange(h) + 1)..Len(h) : h[i].size # "cut"
<1>1. h \in Seq(Message) /\ Len(h) \in Nat /\ Len(h) >= 1 BY DEF Sound
<1>2. /\ LastExchange(h) \in 2..(Len(h) + 1)
      /\ LastExchange(h) <= Len(h) => Is(h[LastExchange(h)], "assistant")
      /\ \A i \in 2..Len(h) : Is(h[i], "assistant") => i <= LastExchange(h) /\ LastExchange(h) <= Len(h)
  BY <1>1, LastExchangeIs
<1> DEFINE last == LastExchange(h)
<1> HIDE DEF last
<1>3. CASE last <= Len(h)
  <2>1. last \in 2..Len(h) /\ Is(h[last], "assistant") BY <1>1, <1>2, <1>3 DEF last
  <2>2. Fresh(h, last)
    <3> SUFFICES ASSUME NEW j \in (last + 1)..Len(h)
                 PROVE  Is(h[j], "tool") \/ (j = Len(h) /\ ~Is(h[j], "assistant"))
      BY DEF Fresh
    <3>1. ~Is(h[j], "assistant")
      <4>1. j \in 2..Len(h) /\ ~(j <= last) BY <1>1, <2>1
      <4> QED BY <1>2, <4>1 DEF last
    <3> QED BY <3>1 DEF last
  <2> QED BY <2>1, <2>2 DEF Intact, last
<1>4. CASE last > Len(h)
  <2>1. (last + 1)..Len(h) = {} BY <1>1, <1>2, <1>4 DEF last
  <2> QED BY <2>1 DEF last
<1> QED BY <1>1, <1>2, <1>3, <1>4 DEF last

LEMMA TrimmedIntact ==
    ASSUME KeepRecent > 1, NEW h, Sound(h), Len(h) > 2, Intact(h), NEW g, Trimmed(g, h)
    PROVE  Intact(g)
<1>1. h \in Seq(Message) /\ Len(h) \in Nat /\ Len(g) = Len(h) BY DEF Sound, Trimmed
<1>2. \A i \in 1..Len(h) : g[i].role = h[i].role BY DEF Trimmed
<1> SUFFICES ASSUME NEW i \in 2..Len(h), Is(g[i], "assistant"), Fresh(g, i), NEW j \in (i + 1)..Len(h)
             PROVE  g[j].size # "cut"
  BY <1>1 DEF Intact
<1>3. i \in 1..Len(h) /\ j \in 1..Len(h) /\ i \in Nat /\ j > i BY <1>1
<1>4. Is(h[i], "assistant") BY <1>2, <1>3 DEF Is
<1>5. Fresh(h, i)
  <2> SUFFICES ASSUME NEW k \in (i + 1)..Len(h)
               PROVE  Is(h[k], "tool") \/ (k = Len(h) /\ ~Is(h[k], "assistant"))
    BY DEF Fresh
  <2>1. k \in 1..Len(h) BY <1>1
  <2> QED BY <1>1, <1>2, <2>1 DEF Fresh, Is
<1>6. h[j].size # "cut" BY <1>4, <1>5 DEF Intact
<1>7. LastExchange(h) = i
  <2>1. i <= LastExchange(h) /\ LastExchange(h) <= Len(h) /\ Is(h[LastExchange(h)], "assistant")
        /\ LastExchange(h) \in Int
    BY <1>1, <1>4, LastExchangeIs
  <2>2. ~(LastExchange(h) > i)
    <3> SUFFICES ASSUME LastExchange(h) > i PROVE FALSE
      OBVIOUS
    <3>1. LastExchange(h) \in (i + 1)..Len(h) BY <1>1, <2>1
    <3> QED BY <1>5, <2>1, <3>1 DEF Fresh, Is
  <2> QED BY <1>3, <2>1, <2>2
<1>8. TailStart(h) <= i /\ TailStart(h) \in Nat
  <2>1. \A k \in (LastExchange(h) + 1)..Len(h) : Is(h[k], "tool") \/ k = Len(h)
    BY <1>5, <1>7 DEF Fresh
  <2>2. TailStart(h) <= LastExchange(h) /\ TailStart(h) \in 2..Len(h) BY <1>1, <2>1, TailBeforeLast, TailStartIs
  <2> QED BY <1>7, <2>2
<1>9. ~(j < TailStart(h)) /\ ~(j < LastExchange(h)) BY <1>3, <1>7, <1>8
<1>10. g[j].size = h[j].size \/ j < TailStart(h) \/ j < LastExchange(h) BY <1>3 DEF Trimmed
<1> QED BY <1>6, <1>9, <1>10

(* Where a message of a folded history was before the fold. *)
LEMMA FoldedFrom ==
    ASSUME NEW g \in Seq(Message), NEW end \in 2..Len(g), NEW n \in {0, 2}, NEW f, Folded(f, g, end, n)
    PROVE  /\ f \in Seq(Message) /\ Len(f) \in Nat /\ Len(f) >= 2 + n
           /\ \A i \in (2 + n)..Len(f) : i + end - 2 - n \in end..Len(g) /\ f[i] = g[i + end - 2 - n]
           /\ \A i \in end..Len(g) : i - end + 2 + n \in (2 + n)..Len(f)
           /\ (Len(f) + end - 2 - n = Len(g))
<1>1. f \in Seq(Message) /\ Len(f) = Len(g) + 2 - end + n /\ Len(g) \in Nat BY DEF Folded
<1>2. ASSUME NEW i \in (2 + n)..Len(f) PROVE i + end - 2 - n \in end..Len(g) /\ f[i] = g[i + end - 2 - n]
  <2>1. i + end - 2 - n \in end..Len(g) /\ (i + end - 2 - n) - end + 2 + n = i BY <1>1
  <2>2. f[(i + end - 2 - n) - end + 2 + n] = g[i + end - 2 - n] BY <2>1 DEF Folded
  <2> QED BY <2>1, <2>2
<1>3. n \in Nat /\ end \in Nat /\ end <= Len(g) /\ Len(f) \in Nat BY <1>1
<1>4. Len(f) >= 2 + n /\ Len(f) + end - 2 - n = Len(g) BY <1>1, <1>3
<1>5. \A i \in end..Len(g) : i - end + 2 + n \in (2 + n)..Len(f) BY <1>1, <1>3, <1>4
<1> QED BY <1>1, <1>2, <1>3, <1>4, <1>5

LEMMA FoldedIntact ==
    ASSUME NEW g, Sound(g), Intact(g), NEW end \in 2..Len(g), ~Is(g[end], "tool"), NEW n \in {0, 2},
           NEW f, Folded(f, g, end, n), Sound(f)
    PROVE  Intact(f)
<1>0. g \in Seq(Message) /\ Len(g) \in Nat /\ n \in Nat /\ end \in Nat BY DEF Sound
<1>1. /\ f \in Seq(Message) /\ Len(f) \in Nat /\ Len(f) >= 2 + n
      /\ \A i \in (2 + n)..Len(f) : i + end - 2 - n \in end..Len(g) /\ f[i] = g[i + end - 2 - n]
      /\ \A i \in end..Len(g) : i - end + 2 + n \in (2 + n)..Len(f)
      /\ (Len(f) + end - 2 - n = Len(g))
  BY <1>0, FoldedFrom
<1> SUFFICES ASSUME NEW i \in 2..Len(f), Is(f[i], "assistant"), Fresh(f, i), NEW j \in (i + 1)..Len(f)
             PROVE  f[j].size # "cut"
  BY DEF Intact
<1>2. CASE i >= 2 + n
  <2> DEFINE x == i + end - 2 - n
  <2>1. i \in (2 + n)..Len(f) BY <1>0, <1>1, <1>2
  <2>2. x \in end..Len(g) /\ g[x] = f[i] BY <1>1, <2>1
  <2>3. x \in 2..Len(g) /\ Is(g[x], "assistant") BY <1>0, <2>2 DEF Is
  <2>4. Fresh(g, x)
    <3> SUFFICES ASSUME NEW k \in (x + 1)..Len(g)
                 PROVE  Is(g[k], "tool") \/ (k = Len(g) /\ ~Is(g[k], "assistant"))
      BY DEF Fresh
    <3> DEFINE y == k - end + 2 + n
    <3>1. y \in (i + 1)..Len(f) /\ y \in (2 + n)..Len(f) /\ y + end - 2 - n = k /\ (y = Len(f) => k = Len(g))
      BY <1>0, <1>1, <1>2
    <3>2. f[y] = g[y + end - 2 - n] BY <1>1, <3>1
    <3> HIDE DEF x, y
    <3>3. f[y] = g[k] BY <3>1, <3>2
    <3> QED BY <3>1, <3>3 DEF Fresh
  <2> DEFINE y == j + end - 2 - n
  <2>5. j \in (2 + n)..Len(f) /\ y \in (x + 1)..Len(g) BY <1>0, <1>1, <1>2
  <2>6. f[j] = g[y] BY <1>1, <2>5
  <2> HIDE DEF x, y
  <2> QED BY <2>3, <2>4, <2>5, <2>6 DEF Intact
<1>3. CASE i < 2 + n
  <2>1. 2 + n \in (i + 1)..Len(f) /\ 2 + n \in (2 + n)..Len(f) /\ (2 + n) + end - 2 - n = end
    BY <1>0, <1>1, <1>3
  <2>2. f[2 + n] = g[(2 + n) + end - 2 - n] BY <1>1, <2>1
  <2>3. ~Is(f[2 + n], "tool") BY <2>1, <2>2
  <2>4. 2 + n = Len(f) /\ ~Is(f[Len(f)], "assistant") BY <2>1, <2>3 DEF Fresh
  <2>5. j = Len(f) \/ Is(f[j], "tool") BY DEF Fresh
  <2>6. CASE j = Len(f)
    <3>1. f[j].role \notin {"tool", "assistant"} BY <2>3, <2>4, <2>6 DEF Is
    <3>2. j \in DOMAIN f BY <1>1, <2>6
    <3> QED BY <3>1, <3>2 DEF Sound
  <2>7. CASE j < Len(f)
    <3>1. n = 2 /\ i >= 2 /\ j = 3 /\ i = 2 BY <1>0, <1>3, <2>4, <2>7
    <3>2. f[2].role = "user" BY <3>1 DEF Folded
    <3> QED BY <3>1, <3>2 DEF Is
  <2> QED BY <1>1, <2>6, <2>7
<1> QED BY <1>0, <1>2, <1>3

LEMMA CompactedIntact ==
    ASSUME KeepRecent > 1, NEW h, Sound(h), Intact(h), NEW l, NEW force \in BOOLEAN
    PROVE  Intact(Compacted(h, l, force))
<1> DEFINE c == Compacted(h, l, force)
<1>1. ASSUME c = h PROVE Intact(c) BY <1>1
<1>2. ASSUME ~Nothing(h, l, force) PROVE Len(h) > 2
  <2>1. Len(h) \in Nat BY DEF Sound
  <2> QED BY <1>2, <2>1 DEF Nothing
<1>3. ASSUME ~Nothing(h, l, force), Trimmed(c, h) PROVE Intact(c)
  BY <1>2, <1>3, TrimmedIntact
<1>4. ASSUME ~Nothing(h, l, force), NEW end \in 2..Len(h), NEW n \in {0, 2}, ~Is(h[end], "tool"),
             Folded(c, Steps(h)[4], end, n)
      PROVE  Intact(c)
  <2> DEFINE g == Steps(h)[4]
  <2>1. h \in Seq(Message) /\ Len(h) > 2 BY <1>2, <1>4 DEF Sound
  <2>2. Trimmed(g, h) BY <2>1, StepsTrim
  <2> HIDE DEF g
  <2>3. Sound(g) /\ Intact(g) /\ Len(g) = Len(h) BY <2>1, <2>2, TrimmedKeeps, TrimmedIntact DEF Trimmed
  <2>4. ~Is(g[end], "tool")
    <3>1. end \in 1..Len(h) BY <2>1
    <3> QED BY <1>4, <2>2, <3>1 DEF Trimmed, Is
  <2>5. Sound(c) BY CompactedKeeps
  <2> HIDE DEF c
  <2> QED BY <1>4, <2>3, <2>4, <2>5, FoldedIntact DEF g
<1> HIDE DEF c
<1>5. \/ c = h
      \/ ~Nothing(h, l, force) /\ Trimmed(c, h)
      \/ /\ ~Nothing(h, l, force)
         /\ \E end \in 2..Len(h), n \in {0, 2} :
              ~Is(h[end], "tool") /\ Folded(c, Steps(h)[4], end, n)
  BY CompactedIs DEF c
<1>6. Intact(c) BY <1>1, <1>3, <1>4, <1>5
<1> QED BY <1>6 DEF c

LEMMA FoldedRest ==
    ASSUME NEW h, Sound(h), Len(h) > 2, NEW end \in 2..Len(h), NEW n \in {0, 2},
           NEW f, Folded(f, Steps(h)[4], end, n), Sound(f)
    PROVE  RestElided(f)
<1> DEFINE g == Steps(h)[4]
<1>0. h \in Seq(Message) /\ Len(h) \in Nat /\ n \in Nat /\ end \in Nat BY DEF Sound
<1>1. /\ g \in Seq(Message) /\ Len(g) = Len(h)
      /\ \A i \in 1..Len(h) : g[i].role = h[i].role
      /\ \A i \in 2..(LastExchange(h) - 1) :
            i <= Len(h) /\ h[i].role \in {"tool", "assistant"} => g[i].size # "long"
  BY <1>0, StepsTrim DEF Trimmed
<1> HIDE DEF g
<1>2. Folded(f, g, end, n) BY DEF g
<1>3. /\ f \in Seq(Message) /\ Len(f) \in Nat /\ Len(f) >= 2 + n
      /\ \A i \in (2 + n)..Len(f) : i + end - 2 - n \in end..Len(g) /\ f[i] = g[i + end - 2 - n]
  <2>1. end \in 2..Len(g) BY <1>1
  <2>2. /\ f \in Seq(Message) /\ Len(f) \in Nat /\ Len(f) >= 2 + n
        /\ \A i \in (2 + n)..Len(f) : i + end - 2 - n \in end..Len(g) /\ f[i] = g[i + end - 2 - n]
        /\ \A i \in end..Len(g) : i - end + 2 + n \in (2 + n)..Len(f)
        /\ (Len(f) + end - 2 - n = Len(g))
    BY <1>1, <1>2, <2>1, FoldedFrom
  <2> QED BY <2>2
<1>4. /\ LastExchange(f) \in 2..(Len(f) + 1)
      /\ LastExchange(f) <= Len(f) => Is(f[LastExchange(f)], "assistant")
      /\ \A i \in 2..Len(f) : Is(f[i], "assistant") => i <= LastExchange(f) /\ LastExchange(f) <= Len(f)
  BY <1>3, LastExchangeIs
<1>5. \A i \in 2..Len(h) : Is(h[i], "assistant") => i <= LastExchange(h)
  BY <1>0, LastExchangeIs
<1>l. LastExchange(h) \in Int BY <1>0, LastExchangeIs
<1> DEFINE last == LastExchange(f)
<1> SUFFICES ASSUME NEW i \in 2..(last - 1), ~Is(f[i], "user"), f[i].size = "long"
             PROVE  FALSE
  BY DEF RestElided
<1> HIDE DEF last
<1>6. i \in 2..Len(f) /\ i \in DOMAIN f /\ i < last /\ last \in Int BY <1>3, <1>4 DEF last
<1>7. f[i].role \in {"tool", "assistant"}
  <2>1. f[i] \in Message /\ ~Is(f[i], "system") BY <1>3, <1>6 DEF Sound
  <2> QED BY <2>1, RolesAre DEF Is
<1>8. i >= 2 + n
  <2> SUFFICES ASSUME i < 2 + n PROVE FALSE
    BY <1>0, <1>6
  <2>1. n = 2 /\ (i = 2 \/ i = 3) BY <1>0, <1>6
  <2>2. f[2].size = "short" /\ f[3].size = "short"
    <3>1. Plain("assistant").size = "short" BY PlainTyped
    <3> QED BY <1>2, <2>1, <3>1 DEF Folded
  <2> QED BY <2>1, <2>2
<1>9. last <= Len(f)
  <2> SUFFICES ASSUME last > Len(f) PROVE FALSE
    BY <1>3, <1>6
  <2>1. \A k \in 2..Len(f) : ~Is(f[k], "assistant") BY <1>3, <1>4, <1>6 DEF last
  <2>2. Is(f[i], "tool") BY <1>6, <1>7, <2>1 DEF Is
  <2>3. PICK k \in 1..(i - 1) : Answers(f, k, i) BY <1>6, <2>2 DEF Sound, NoOrphans, Orphan
  <2>4. k \in DOMAIN f /\ f[k].calls > 0
    <3>1. k \in DOMAIN f BY <1>3, <1>6
    <3>2. f[k].calls \in Nat BY <1>3, <3>1, MessageFields
    <3> QED BY <1>6, <2>3, <3>1, <3>2 DEF Answers
  <2>5. Is(f[k], "assistant") BY <2>4 DEF Sound, Callers
  <2>6. k # 1
    <3>1. ~Is(f[k], "system") BY <2>5 DEF Is
    <3> QED BY <2>4, <3>1 DEF Sound
  <2>7. k \in 2..Len(f) BY <1>3, <1>6, <2>6
  <2> QED BY <2>1, <2>5, <2>7
<1> DEFINE x == i + end - 2 - n
<1> DEFINE y == last + end - 2 - n
<1>10. i \in (2 + n)..Len(f) /\ last \in (2 + n)..Len(f) BY <1>0, <1>3, <1>6, <1>8, <1>9
<1>11. x \in end..Len(g) /\ f[i] = g[x] /\ y \in end..Len(g) /\ f[last] = g[y] /\ x < y
  <2>1. x \in end..Len(g) /\ f[i] = g[x] BY <1>3, <1>10
  <2>2. y \in end..Len(g) /\ f[last] = g[y] BY <1>3, <1>10
  <2>3. x < y BY <1>0, <1>6
  <2> QED BY <2>1, <2>2, <2>3
<1> HIDE DEF x, y
<1>12. x \in 2..Len(h) /\ y \in 2..Len(h) /\ x \in 1..Len(h) /\ y \in 1..Len(h) BY <1>0, <1>1, <1>11
<1>13. Is(h[y], "assistant") BY <1>1, <1>4, <1>9, <1>11, <1>12 DEF Is, last
<1>14. y <= LastExchange(h) BY <1>5, <1>12, <1>13
<1>15. x \in 2..(LastExchange(h) - 1) /\ x <= Len(h) BY <1>l, <1>0, <1>11, <1>12, <1>14
<1>16. h[x].role \in {"tool", "assistant"} BY <1>1, <1>7, <1>11, <1>12
<1> QED BY <1>1, <1>11, <1>15, <1>16

LEMMA UsageTyped ==
    ASSUME NEW h \in Seq(Message), NEW l
    PROVE  Usage(h, l) \in Int
<1> DEFINE longs == {i \in DOMAIN h : h[i].size = "long"}
<1>1. IsFiniteSet(longs)
  <2>1. IsFiniteSet(1..Len(h)) BY FS_Interval
  <2>2. longs \subseteq 1..Len(h) OBVIOUS
  <2> HIDE DEF longs
  <2> QED BY <2>1, <2>2, FS_Subset
<1>2. Cardinality(longs) \in Nat
  <2> HIDE DEF longs
  <2> QED BY <1>1, FS_CardinalityType
<1>3. Long - 1 \in Int /\ Len(h) \in Int BY ConversationAssumption
<1> DEFINE e == IF IsEmpty(l) THEN 0 ELSE 1
<1>4. e \in Int OBVIOUS
<1>5. Usage(h, l) = Len(h) + (Long - 1) * Cardinality(longs) + e BY DEF Usage
<1>6. \A a, b \in Int : a * b \in Int OBVIOUS
<1>7. (Long - 1) * Cardinality(longs) \in Int BY <1>2, <1>3, <1>6
<1> HIDE DEF longs, e
<1>8. \A a, b, d \in Int : a + b + d \in Int OBVIOUS
<1> QED BY <1>3, <1>4, <1>5, <1>7, <1>8

LEMMA CompactedRest ==
    ASSUME NEW h, Sound(h), NEW l, Usage(h, l) > CompactAt \/ Folds(h, l, FALSE)
    PROVE  LET c == Compacted(h, l, FALSE)
           IN /\ Folds(h, l, FALSE) => RestElided(c)
              /\ Usage(c, l) > CompactAt => RestElided(c)
<1> DEFINE c == Compacted(h, l, FALSE)
<1>0. h \in Seq(Message) /\ Len(h) \in Nat /\ CompactAt \in Nat /\ CompactTo \in 0..CompactAt
  BY ConversationAssumption DEF Sound
<1>1. Sound(c) /\ c \in Seq(Message) /\ Usage(c, l) \in Int /\ Usage(h, l) \in Int
  <2>1. Sound(c) BY CompactedKeeps
  <2> HIDE DEF c
  <2> QED BY <1>0, <2>1, UsageTyped DEF Sound
<1> HIDE DEF c
<1>2. ASSUME Nothing(h, l, FALSE), c = h PROVE ~Folds(h, l, FALSE) /\ RestElided(c)
  <2>1. ~Folds(h, l, FALSE) BY <1>2 DEF Folds
  <2>2. Len(h) <= 2
    <3> DEFINE u == Usage(h, l)
    <3>1. u \in Int /\ u > CompactAt BY <1>1, <2>1
    <3>2. Len(h) <= 2 \/ u <= CompactTo BY <1>2 DEF Nothing
    <3> HIDE DEF u
    <3> QED BY <1>0, <3>1, <3>2
  <2>3. ASSUME NEW i \in 2..(LastExchange(h) - 1) PROVE Is(h[i], "user")
    <3>1. LastExchange(h) \in 2..(Len(h) + 1) \/ (Len(h) = 0 /\ LastExchange(h) = 1)
      BY <1>0, LastExchangeIs
    <3>2. i = 2 /\ Len(h) = 2 /\ LastExchange(h) = 3
      <4> DEFINE e == LastExchange(h)
      <4>1. e \in 2..(Len(h) + 1) \/ (Len(h) = 0 /\ e = 1) BY <3>1
      <4>2. i \in 2..(e - 1) BY <2>3
      <4> HIDE DEF e
      <4>3. e \in Int /\ i \in Int /\ 2 <= i /\ i <= e - 1 BY <1>0, <4>1, <4>2
      <4>4. e <= 3 BY <1>0, <2>2, <4>1
      <4>5. e = 3 /\ i = 2 BY <4>3, <4>4
      <4>6. e \in 2..(Len(h) + 1) BY <4>1, <4>5
      <4>7. 3 \in 2..(Len(h) + 1) BY <4>5, <4>6
      <4>8. Len(h) \in Nat /\ Len(h) <= 2 BY <1>0, <2>2
      <4>9. \A k \in Nat : k <= 2 /\ 3 \in 2..(k + 1) => k = 2 OBVIOUS
      <4>10. Len(h) = 2 BY <4>7, <4>8, <4>9
      <4> QED BY <4>5, <4>10 DEF e
    <3>3. ~Is(h[2], "assistant")
      <4>1. 2 \in 2..Len(h) /\ ~(LastExchange(h) <= Len(h)) BY <3>2
      <4> QED BY <1>0, <4>1, LastExchangeIs
    <3>4. ~Is(h[2], "tool") BY <3>2, SecondIsNoResult
    <3>5. 2 \in DOMAIN h /\ h[2] \in Message BY <1>0, <3>2
    <3>6. ~Is(h[2], "system") BY <3>5 DEF Sound
    <3> QED BY <3>2, <3>3, <3>4, <3>5, <3>6, RolesAre DEF Is
  <2> QED BY <1>2, <2>1, <2>3 DEF RestElided
<1>3. ASSUME ~Folds(h, l, FALSE), Usage(c, l) <= CompactTo
      PROVE  ~(Usage(c, l) > CompactAt)
  BY <1>0, <1>1, <1>3
<1>4. ASSUME ~Nothing(h, l, FALSE), NEW end \in 2..Len(h), NEW n \in {0, 2}, Folded(c, Steps(h)[4], end, n)
      PROVE  RestElided(c)
  <2>1. Len(h) > 2 BY <1>0, <1>4 DEF Nothing
  <2> QED BY <1>1, <1>4, <2>1, FoldedRest
<1>5. \/ Nothing(h, l, FALSE) /\ c = h
      \/ ~Folds(h, l, FALSE) /\ Usage(c, l) <= CompactTo
      \/ /\ ~Nothing(h, l, FALSE)
         /\ \E end \in 2..Len(h), n \in {0, 2} : Folded(c, Steps(h)[4], end, n)
  BY CompactedIs DEF c
<1>6. (Folds(h, l, FALSE) => RestElided(c)) /\ (Usage(c, l) > CompactAt => RestElided(c))
  BY <1>2, <1>3, <1>4, <1>5
<1> QED BY <1>6 DEF c

(* The invariant of compaction, for a session whose history is in order.        *)
CompactInv ==
    /\ Intact(messages)
    /\ phase = "folding" => Folds(messages, ledger, FALSE)
    /\ phase = "asking" => RestCompacted

LEMMA CompactOther ==
    ASSUME phase' \notin {"folding", "asking"}, Intact(messages')
    PROVE  CompactInv'
BY DEF CompactInv

LEMMA SaidUncut ==
    ASSUME NEW b \in Seq(Said)
    PROVE  b \in Seq(Message) /\ NoneCut(b)
<1>1. Said \subseteq Message /\ \A m \in Said : m.size # "cut" BY DEF Said
<1> HIDE DEF Said
<1> QED BY <1>1 DEF NoneCut

LEMMA CallUncut ==
    ASSUME NEW h, Sound(h), Intact(h), NEW m \in Message, m.size # "cut"
    PROVE  Intact(Append(h, m))
<1>1. h \in Seq(Message) /\ <<m>> \in Seq(Message) /\ Append(h, m) = h \o <<m>> BY DEF Sound
<1>2. NoneCut(<<m>>) BY DEF NoneCut
<1> QED BY <1>1, <1>2, IntactJoin

LEMMA CompactInit == Init => CompactInv
<1> SUFFICES ASSUME Init PROVE CompactInv
  OBVIOUS
<1>1. Len(messages) = 1 BY DEF Init
<1> QED BY <1>1, IntactShort DEF Init, CompactInv

LEMMA CompactStarts ==
    ASSUME HistInv, CompactInv, NEW r \in Request, NEW edit, NEW found \in BOOLEAN, StartTurn(r, edit, found)
    PROVE  CompactInv'
<1> DEFINE project == found /\ Len(messages) = 1
<1> DEFINE um == WithOverview(Says(<<r>>), project)
<1> DEFINE read == AutoRead(project)
<1>1. messages \in Seq(Message) /\ Intact(messages) BY DEF HistInv, Sound, CompactInv
<1>2. messages' = (messages \o read) \o <<um>> /\ phase' = "deciding" BY DEF StartTurn
<1>3. project \in BOOLEAN OBVIOUS
<1>4. um \in Said /\ read \in Seq(Message)
  <2> HIDE DEF project
  <2> QED BY <1>3, OpeningTyped DEF Addable
<1>5. NoneCut(read)
  <2>1. CASE project
    <3>1. read = <<Calling(1, "short"), Result("long")>> BY <2>1 DEF AutoRead
    <3>2. Calling(1, "short").size = "short" /\ Result("long").size = "long"
      <4>1. 1 \in 1..2 OBVIOUS
      <4> QED BY <4>1, CallTyped
    <3> HIDE DEF read
    <3> DEFINE c == Calling(1, "short")
    <3> DEFINE a == Result("long")
    <3>3. read = <<c, a>> /\ c.size = "short" /\ a.size = "long" BY <3>1, <3>2
    <3> HIDE DEF c, a
    <3> QED BY <3>3 DEF NoneCut
  <2>2. CASE ~project BY <2>2 DEF AutoRead, NoneCut
  <2> QED BY <2>1, <2>2
<1> HIDE DEF um, read
<1>6. <<um>> \in Seq(Message) /\ NoneCut(<<um>>)
  <2>1. <<um>> \in Seq(Said) BY <1>4
  <2> QED BY <2>1, SaidUncut
<1>7. Intact(messages \o read) /\ messages \o read \in Seq(Message) BY <1>1, <1>4, <1>5, IntactJoin
<1>8. Intact(messages') BY <1>2, <1>6, <1>7, IntactJoin
<1> QED BY <1>2, <1>8, CompactOther

LEMMA ForgottenIntact ==
    ASSUME NEW h, Sound(h), NEW t, TurnOk(t)
    PROVE  Intact(Forgotten(h, t))
<1>1. h \in Seq(Message) /\ Len(h) \in Nat /\ Len(h) >= 1 /\ t.before \in Nat /\ t.before >= 1 /\ t.request \in Request
  BY DEF Sound, TurnOk
<1> DEFINE n == Min({t.before, Len(h)})
<1>2. n \in {t.before, Len(h)} /\ n <= t.before /\ n <= Len(h)
  <2>1. {t.before, Len(h)} \subseteq Nat BY <1>1
  <2>2. n \in {t.before, Len(h)} /\ \A k \in {t.before, Len(h)} : n <= k BY <2>1, MinIsThere
  <2> HIDE DEF n
  <2> QED BY <2>2
<1> DEFINE cut == SubSeq(h, 1, n)
<1> DEFINE back == <<Says(<<t.request>>), Plain("assistant")>>
<1>3. Forgotten(h, t) = IF t.before <= 1 THEN cut ELSE cut \o back BY DEF Forgotten
<1> HIDE DEF n
<1>4. cut \in Seq(Message) /\ Len(cut) = n
  <2>1. n \in 0..Len(h) BY <1>1, <1>2
  <2> QED BY <1>1, <2>1, PrefixKeeps
<1>5. CASE t.before <= 1
  <2>1. Len(cut) = 1 BY <1>1, <1>2, <1>4, <1>5
  <2> QED BY <1>3, <1>5, <2>1, IntactShort
<1>6. CASE t.before > 1
  <2> DEFINE u == Says(<<t.request>>)
  <2> DEFINE v == Plain("assistant")
  <2>1. u \in Message /\ v \in Message /\ Is(v, "assistant")
    <3>1. u \in Said BY <1>1, OpeningTyped
    <3> QED BY <3>1, PlainTyped DEF Said, Is
  <2>2. back = <<u, v>> OBVIOUS
  <2> HIDE DEF u, v, cut, back
  <2>3. cut \o back \in Seq(Message) /\ cut \o back # <<>> /\ (cut \o back)[Len(cut \o back)] = v
    BY <1>4, <2>1, <2>2
  <2>4. Intact(cut \o back) BY <2>1, <2>3, IntactLast
  <2>5. Forgotten(h, t) = cut \o back
    <3>1. ~(t.before <= 1) BY <1>1, <1>6
    <3> QED BY <1>3, <3>1
  <2> QED BY <2>4, <2>5
<1> QED BY <1>1, <1>5, <1>6

LEMMA CompactNext == ASSUME KeepRecent > 1 PROVE HistInv /\ CompactInv /\ [Next]_vars => CompactInv'
<1> SUFFICES ASSUME HistInv, CompactInv, [Next]_vars PROVE CompactInv'
  OBVIOUS
<1>0. /\ Sound(messages) /\ stored \in Seq(Saved) /\ queue \in Seq(Request) /\ asked \in 0..MaxRequests
      /\ MaxRequests \in Nat /\ messages \in Seq(Message) /\ Intact(messages)
      /\ phase \in InTurn => TurnOk(turn)
  BY ConversationAssumption DEF HistInv, Sound, CompactInv
<1>1. CASE Ask
  <2>1. asked' \in Request BY <1>0, <1>1 DEF Ask, Request
  <2> QED BY <1>1, <2>1, CompactStarts DEF Ask
<1>2. CASE RunQueued
  <2>1. Head(queue) \in Request BY <1>0, <1>2 DEF RunQueued
  <2> QED BY <1>2, <2>1, CompactStarts DEF RunQueued
<1>3. CASE Submit BY <1>3 DEF Submit, CompactInv, RestCompacted
<1>4. CASE OutOfTurns BY <1>0, <1>4, CompactOther DEF OutOfTurns, ToPrompt
<1>5. CASE Decide
  <2>1. CASE NeedsCompaction /\ Folds(messages, ledger, FALSE)
    BY <1>0, <1>5, <2>1 DEF Decide, CompactInv
  <2>2. CASE NeedsCompaction /\ messages' = Compacted(messages, ledger, FALSE) /\ ledger' = ledger /\ phase' = "asking"
    <3>1. Intact(messages') BY <1>0, <2>2, CompactedIntact
    <3>2. Usage(messages', ledger) > CompactAt => RestElided(messages')
      BY <1>0, <2>2, CompactedRest DEF NeedsCompaction
    <3> QED BY <2>2, <3>1, <3>2 DEF CompactInv, RestCompacted, RestElided
  <2>3. CASE ~NeedsCompaction /\ messages' = messages /\ ledger' = ledger /\ phase' = "asking"
    <3>1. ~(Usage(messages', ledger') > CompactAt) BY <2>3 DEF NeedsCompaction
    <3> QED BY <1>0, <2>3, <3>1 DEF CompactInv, RestCompacted
  <2> QED BY <1>5, <2>1, <2>2, <2>3 DEF Decide
<1>6. CASE EndFold
  <2>1. Folds(messages, ledger, FALSE) /\ messages' = Compacted(messages, ledger, FALSE) /\ phase' = "asking"
    BY <1>6 DEF EndFold, CompactInv
  <2>2. Intact(messages') BY <1>0, <2>1, CompactedIntact
  <2>3. RestElided(messages') BY <1>0, <2>1, CompactedRest
  <2> QED BY <2>1, <2>2, <2>3 DEF CompactInv, RestCompacted, RestElided
<1>7. CASE ReplyCalls
  <2>1. phase' = "running" BY <1>7 DEF ReplyCalls
  <2>3. PICK m \in Calls : messages' = Append(messages, m) BY <1>7 DEF ReplyCalls
  <2>4. PICK n \in 1..2, size \in {"short", "long"} : m = Calling(n, size)
    BY <2>3 DEF Calls, NativeCalls, JsonCalls, CodeBlocks
  <2>5. m \in Message /\ m.size # "cut" BY <2>4, CallTyped
  <2>6. Intact(messages') BY <1>0, <2>3, <2>5, CallUncut
  <2> QED BY <2>1, <2>6, CompactOther
<1>8. ASSUME NEW form \in Forms, ReplyText(form) PROVE CompactInv'
  <2>0. TextReply(form) \in Said /\ Plain("user") \in Said BY TextTyped
  <2>a. /\ <<TextReply(form), Plain("user")>> \in Seq(Said) /\ <<TextReply(form)>> \in Seq(Said)
        /\ Append(messages, TextReply(form)) = messages \o <<TextReply(form)>>
    BY <1>0, <2>0
  <2>b. Intact(messages \o <<TextReply(form), Plain("user")>>) /\ Intact(messages \o <<TextReply(form)>>)
    BY <1>0, <2>a, SaidUncut, IntactJoin
  <2>c. Sound(messages \o <<TextReply(form)>>) BY <1>0, <2>a, SaidAddable, SoundJoin
  <2>1. CASE Nudge(form) BY <2>1, <2>b, CompactOther DEF Nudge
  <2>2. CASE GiveUp(form) BY <2>2, <2>a, <2>b, CompactOther DEF GiveUp
  <2>3. CASE Salvage(form)
    <3>1. phase' = "running" /\ messages' = Append(messages \o <<TextReply(form)>>, Calling(1, "long"))
      BY <2>3, <2>a DEF Salvage
    <3>2. Calling(1, "long") \in Message /\ Calling(1, "long").size # "cut"
      <4>1. 1 \in 1..2 OBVIOUS
      <4> QED BY <4>1, CallTyped
    <3>3. Intact(messages') BY <2>b, <2>c, <3>1, <3>2, CallUncut
    <3> QED BY <3>1, <3>3, CompactOther
  <2>4. CASE ActNow(form) BY <2>4, <2>b, CompactOther DEF ActNow
  <2>5. CASE Accept(form) BY <2>5, <2>a, <2>b, CompactOther DEF Accept, ToPrompt
  <2> QED BY <1>8, <2>1, <2>2, <2>3, <2>4, <2>5 DEF ReplyText
<1>9. CASE EndCalls
  <2>1. PICK did \in Work, stuck \in BOOLEAN :
             messages' = messages
                \o [i \in 1..Pending.calls |-> Result(IF i = 1 /\ ~Writes THEN "long" ELSE "short")]
                \o (IF stuck THEN <<Plain("user")>> ELSE <<>>)
    BY <1>9 DEF EndCalls
  <2> DEFINE r == [i \in 1..Pending.calls |-> Result(IF i = 1 /\ ~Writes THEN "long" ELSE "short")]
  <2> DEFINE more == IF stuck THEN <<Plain("user")>> ELSE <<>>
  <2>2. phase = "running" /\ phase' = "deciding" BY <1>9 DEF EndCalls
  <2>3. Pending.calls \in Nat
    <3>1. Len(messages) \in DOMAIN messages BY <1>0 DEF Sound
    <3> QED BY <1>0, <3>1, MessageFields DEF Pending
  <2>4. r \in Seq(Message) /\ NoneCut(r)
    <3>1. \A size \in {"short", "long"} : Result(size) \in Message /\ Result(size).size # "cut"
      <4>1. 1 \in 1..2 OBVIOUS
      <4> QED BY <4>1, CallTyped
    <3>2. \A i \in 1..Pending.calls : r[i] \in Message /\ r[i].size # "cut" BY <3>1
    <3>3. DOMAIN r = 1..Pending.calls /\ r = [i \in 1..Pending.calls |-> r[i]] OBVIOUS
    <3> HIDE DEF r
    <3>4. r \in [1..Pending.calls -> Message] BY <3>2, <3>3
    <3>5. r \in Seq(Message) BY <2>3, <3>4
    <3>6. NoneCut(r) BY <3>2, <3>3 DEF NoneCut
    <3> QED BY <3>5, <3>6
  <2>5. more \in Seq(Message) /\ NoneCut(more)
    <3>1. more \in Seq(Said) BY TextTyped DEF Forms
    <3> QED BY <3>1, SaidUncut
  <2>6. messages' = (messages \o r) \o more BY <2>1
  <2> HIDE DEF r, more
  <2>7. Intact(messages \o r) /\ messages \o r \in Seq(Message) BY <1>0, <2>4, IntactJoin
  <2>8. Intact(messages') BY <2>5, <2>6, <2>7, IntactJoin
  <2> QED BY <2>2, <2>8, CompactOther
<1>10. CASE BackendFails BY <1>0, <1>10, CompactOther DEF BackendFails, ToPrompt
<1>11. CASE SubAgentFails BY <1>0, <1>11, CompactOther DEF SubAgentFails, ToPrompt
<1>12. CASE Interrupt
  <2>1. TurnOk(turn) BY <1>0, <1>12 DEF Interrupt, Waiting, InTurn
  <2> QED BY <1>0, <1>12, <2>1, ForgottenIntact, CompactOther DEF Interrupt, ToPrompt
<1>13. CASE Clear
  <2>1. Len(messages') = 1 BY <1>13 DEF Clear
  <2> QED BY <1>13, <2>1, IntactShort, CompactOther DEF Clear, AtPrompt
<1>14. CASE CompactNow BY <1>0, <1>14, CompactedIntact, CompactOther DEF CompactNow, AtPrompt
<1>15. CASE Resume
  <2>1. Rows \in Seq(Message) /\ NoneCut(Rows) BY <1>0, RowsAddable, SaidUncut
  <2>2. <<Plain("system")>> \in Seq(Message) /\ Len(<<Plain("system")>>) = 1 BY PlainTyped
  <2>3. Intact(messages') BY <1>15, <2>1, <2>2, IntactShort, IntactJoin DEF Resume
  <2> QED BY <1>15, <2>3, CompactOther DEF Resume, AtPrompt
<1>16. CASE Exit BY <1>0, <1>16, CompactOther DEF Exit
<1>17. CASE Open
  <2>1. Len(messages') = 1 BY <1>17 DEF Open
  <2> QED BY <1>17, <2>1, IntactShort, CompactOther DEF Open
<1>18. CASE UNCHANGED vars BY <1>18 DEF vars, CompactInv, RestCompacted
<1> QED BY <1>1, <1>2, <1>3, <1>4, <1>5, <1>6, <1>7, <1>8, <1>9, <1>10, <1>11, <1>12, <1>13, <1>14,
           <1>15, <1>16, <1>17, <1>18 DEF Next, Reply

(* Compaction elides nothing of the exchange that ends a history, and of a       *)
(* prompt over the threshold everything else, as long as it keeps more than one *)
(* recent message, which the code does (ContextManager.compact,              *)
(* KEEP_RECENT_MESSAGES).                                                   *)
THEOREM CompactionSparesTheFresh ==
    ASSUME KeepRecent > 1 PROVE Spec => []CompactsAllButTheFresh
<1>1. HistInv /\ CompactInv => CompactsAllButTheFresh
  <2> SUFFICES ASSUME HistInv, CompactInv, phase = "asking" PROVE FreshIntact /\ RestCompacted
    BY DEF CompactsAllButTheFresh
  <2>1. RestCompacted BY DEF CompactInv
  <2>2. FreshIntact BY IntactShown DEF FreshIntact, HistInv, CompactInv
  <2> QED BY <2>1, <2>2
<1>2. Init => HistInv /\ CompactInv BY HistInit, CompactInit
<1>3. HistInv /\ CompactInv /\ [Next]_vars => HistInv' /\ CompactInv' BY HistNext, CompactNext
<1> QED BY <1>1, <1>2, <1>3, PTL DEF Spec

-----------------------------------------------------------------------------
(* The installation. *)

Tables        == {"none", "unstamped", "head"}
ServerStages  == {"down", "checked", "running"}
WorkerStages  == {"down", "starting", "up"}
MaybeKey      == AdminKeys \union {Unset}
MaybeDb       == Databases \union {Unset}
Chosen        == {Unset, Placeholder, OwnKey}
FilesRecords  == [other : Chosen, user : MaybeKey, host : BOOLEAN, production : BOOLEAN,
                  db : MaybeDb, legacy : MaybeDb]
KeyRecords    == [state : {"none", "active", "revoked"}, sealed : MaybeKey, old : BOOLEAN]
DbRecords     == [tables : Tables, account : BOOLEAN, key : KeyRecords]
ServerRecords == [stage : ServerStages, key : AdminKeys, open : BOOLEAN, multi : BOOLEAN,
                  skipped : BOOLEAN, changed : BOOLEAN, fresh : BOOLEAN]
WorkerRecords == [stage : WorkerStages, key : AdminKeys, db : Databases, seen : Tables, fresh : BOOLEAN]
Cookies       == [key : AdminKeys, old : BOOLEAN]

InstallTyped ==
    /\ files \in FilesRecords /\ files.user \in {Unset} \union 1..made /\ made \in 0..MaxKeys
    /\ db \in [Databases -> DbRecords]
    /\ server \in ServerRecords /\ worker \in [Workers -> WorkerRecords]
    /\ sessions \in SUBSET Cookies

LEMMA KeysAndDatabases ==
    /\ MaxKeys \in Nat /\ DefaultDb \in Databases /\ Unset \notin Databases /\ Unset \notin AdminKeys
    /\ Placeholder \in AdminKeys /\ OwnKey \in AdminKeys
    /\ \A n \in 0..MaxKeys : n \in AdminKeys
BY InstallationAssumption DEF AdminKeys, Placeholder, OwnKey

LEMMA FilesTyped ==
    ASSUME NEW f \in FilesRecords
    PROVE  /\ KeyOf(f) \in AdminKeys
           /\ \A k \in MaybeKey : [f EXCEPT !.user = k] \in FilesRecords
           /\ \A k \in Chosen : /\ [f EXCEPT !.other = k] \in FilesRecords
                              /\ [f EXCEPT !.other = k].user = f.user
           /\ \A d \in MaybeDb : /\ [f EXCEPT !.db = d] \in FilesRecords
                               /\ [f EXCEPT !.db = d].user = f.user
BY KeysAndDatabases DEF FilesRecords, Chosen, KeyOf, MaybeKey

LEMMA DbTyped ==
    ASSUME NEW r \in DbRecords
    PROVE  /\ \A t \in Tables : [r EXCEPT !.tables = t] \in DbRecords
           /\ \A b \in BOOLEAN : [r EXCEPT !.account = b] \in DbRecords
           /\ \A k \in KeyRecords : [r EXCEPT !.key = k] \in DbRecords
           /\ \A b \in BOOLEAN : [r EXCEPT !.key.old = b] \in DbRecords
           /\ r.tables \in Tables /\ r.key \in KeyRecords /\ r.key.old \in BOOLEAN /\ r.key.sealed \in MaybeKey
BY DEF DbRecords, KeyRecords

LEMMA ServerTyped ==
    ASSUME NEW r \in ServerRecords
    PROVE  /\ \A t \in ServerStages : [r EXCEPT !.stage = t] \in ServerRecords
           /\ [r EXCEPT !.stage = "running", !.skipped = TRUE] \in ServerRecords
           /\ \A b \in BOOLEAN : [r EXCEPT !.changed = TRUE, !.fresh = b] \in ServerRecords
BY DEF ServerRecords, ServerStages

LEMMA WorkerTyped ==
    ASSUME NEW r \in WorkerRecords
    PROVE  /\ \A t \in WorkerStages : [r EXCEPT !.stage = t] \in WorkerRecords
           /\ \A b \in BOOLEAN : [r EXCEPT !.fresh = b] \in WorkerRecords
BY DEF WorkerRecords, WorkerStages

LEMMA NobodyTyped == NoServer \in ServerRecords /\ NoWorker \in WorkerRecords /\ NoKey \in KeyRecords
BY KeysAndDatabases DEF NoServer, NoWorker, NoKey, ServerRecords, WorkerRecords, KeyRecords,
   ServerStages, WorkerStages, Tables, MaybeKey

LEMMA InstallTypedInit == InstallInit => InstallTyped
<1> SUFFICES ASSUME InstallInit PROVE InstallTyped
  OBVIOUS
<1>1. files \in FilesRecords /\ files.user = Unset
  BY KeysAndDatabases DEF InstallInit, FilesRecords, Chosen, MaybeKey, MaybeDb
<1>2. db \in [Databases -> DbRecords]
  <2>1. \A t \in {"none", "unstamped"} : [tables |-> t, account |-> FALSE, key |-> NoKey] \in DbRecords
    BY NobodyTyped DEF DbRecords, Tables
  <2> QED BY <2>1 DEF InstallInit
<1>3. server \in ServerRecords /\ worker \in [Workers -> WorkerRecords] /\ sessions \in SUBSET Cookies
  BY NobodyTyped DEF InstallInit
<1>4. made \in 0..MaxKeys BY KeysAndDatabases DEF InstallInit
<1> QED BY <1>1, <1>2, <1>3, <1>4 DEF InstallTyped

LEMMA DatabasesRead ==
    ASSUME InstallTyped
    PROVE  CliDb \in Databases /\ ServerDb \in Databases
BY KeysAndDatabases DEF InstallTyped, FilesRecords, MaybeDb, CliDb, ServerDb

(* A migration brings one database to the newest tables and no other data of   *)
(* any to change.                                                           *)
LEMMA MigrationTyped ==
    ASSUME InstallTyped, NEW d \in Databases
    PROVE  /\ Migrated(d) \in [Databases -> DbRecords]
           /\ Migrated(d)[d].tables = "head"
           /\ \A e \in Databases : /\ Migrated(d)[e].tables \in {db[e].tables, "head"}
                                   /\ Migrated(d)[e].key = db[e].key
<1>1. "head" \in Tables BY DEF Tables
<1>2. \A e \in Databases : db[e] \in DbRecords BY DEF InstallTyped
<1>3. \A e \in Databases : /\ [db[e] EXCEPT !.tables = "head"].tables = "head"
                           /\ [db[e] EXCEPT !.tables = "head"].key = db[e].key
  BY <1>2 DEF DbRecords
<1> QED BY <1>1, <1>2, <1>3, DbTyped DEF Migrated, InstallTyped

(* A process ensures that there is an admin key: it makes one only where       *)
(* there is none, and the placeholder is in its place.                       *)
LEMMA EnsuredKey ==
    ASSUME InstallTyped, MayMake(IF NeedsKey THEN 1 ELSE 0)
    PROVE  /\ Ensured \in FilesRecords /\ Ensured.user \in {Unset} \union 1..made' /\ made' \in 0..MaxKeys /\ made <= made'
           /\ Ensured.db = files.db /\ Ensured.legacy = files.legacy
           /\ KeyOf(Ensured) = KeyOf(files)
                \/ (KeyOf(files) = Placeholder /\ KeyOf(Ensured) = made + 1 /\ made' = made + 1)
<1>1. made \in Nat /\ MaxKeys \in Nat /\ files \in FilesRecords BY KeysAndDatabases DEF InstallTyped
<1>2. CASE NeedsKey
  <2>1. made + 1 <= MaxKeys /\ made' = made + 1 BY <1>2 DEF MayMake
  <2>2. made + 1 \in AdminKeys BY <1>1, <2>1, KeysAndDatabases
  <2>3. Ensured = [files EXCEPT !.user = made + 1] BY <1>2 DEF Ensured, WithNewKey
  <2>4. Ensured \in FilesRecords BY <2>2, <2>3, <1>1, FilesTyped DEF MaybeKey
  <2>5. Ensured.other = Unset /\ Ensured.user = made + 1 /\ Ensured.db = files.db /\ Ensured.legacy = files.legacy
    BY <1>1, <1>2, <2>3 DEF FilesRecords, NeedsKey
  <2>6. KeyOf(Ensured) = made + 1 /\ KeyOf(files) = Placeholder
    BY <2>2, <2>5, <1>2, KeysAndDatabases DEF KeyOf, NeedsKey
  <2>7. Ensured.user \in 1..made' BY <1>1, <2>1, <2>5
  <2> QED BY <1>1, <2>1, <2>4, <2>5, <2>6, <2>7
<1>3. CASE ~NeedsKey BY <1>1, <1>3 DEF Ensured, MayMake, InstallTyped
<1> QED BY <1>2, <1>3

(* When the owner replaces the admin key, everything made before is old; when  *)
(* the files change otherwise, what was old and is not made with the key they  *)
(* now hold. Keys, stages and tables are as they were, and the server has been *)
(* overtaken by the files.                                                  *)
LEMMA MarkTyped ==
    ASSUME InstallTyped, NEW dbs \in [Databases -> DbRecords], KeyReplaced(dbs) \/ KeyStays(dbs)
    PROVE  /\ db' \in [Databases -> DbRecords] /\ server' \in ServerRecords
           /\ worker' \in [Workers -> WorkerRecords] /\ sessions' \in SUBSET Cookies
<1> DEFINE still(age, key) == age /\ key # KeyOf(files')
<1>1. CASE KeyReplaced(dbs)
  <2>1. sessions' = {[s EXCEPT !.old = TRUE] : s \in sessions} BY <1>1 DEF KeyReplaced, Mark
  <2>2. worker' = [w \in Workers |-> [worker[w] EXCEPT !.fresh = FALSE]] BY <1>1 DEF KeyReplaced, Mark
  <2>3. db' = [d \in Databases |-> [dbs[d] EXCEPT !.key.old = (dbs[d].key.sealed # Unset)]]
    BY <1>1 DEF KeyReplaced, Mark
  <2>4. server' = [server EXCEPT !.changed = TRUE, !.fresh = FALSE] BY <1>1 DEF KeyReplaced, Mark
  <2>5. \A s \in Cookies : [s EXCEPT !.old = TRUE] \in Cookies BY DEF Cookies
  <2> QED BY <2>1, <2>2, <2>3, <2>4, <2>5, WorkerTyped, DbTyped, ServerTyped DEF InstallTyped
<1>2. CASE KeyStays(dbs)
  <2>1. sessions' = {[s EXCEPT !.old = still(s.old, s.key)] : s \in sessions} BY <1>2 DEF KeyStays, Mark
  <2>2. worker' = [w \in Workers |-> [worker[w] EXCEPT !.fresh = ~still(~worker[w].fresh, worker[w].key)]]
    BY <1>2 DEF KeyStays, Mark
  <2>3. db' = [d \in Databases |-> [dbs[d] EXCEPT !.key.old =
                    (dbs[d].key.sealed # Unset /\ still(dbs[d].key.old, dbs[d].key.sealed))]]
    BY <1>2 DEF KeyStays, Mark
  <2>4. server' = [server EXCEPT !.changed = TRUE, !.fresh = ~still(~server.fresh, server.key)]
    BY <1>2 DEF KeyStays, Mark
  <2>5. \A s \in Cookies, b \in BOOLEAN : [s EXCEPT !.old = b] \in Cookies BY DEF Cookies
  <2>6. \A age, key : still(age, key) \in BOOLEAN /\ (~still(age, key)) \in BOOLEAN OBVIOUS
  <2> HIDE DEF still
  <2> QED BY <2>1, <2>2, <2>3, <2>4, <2>5, <2>6, WorkerTyped, DbTyped, ServerTyped DEF InstallTyped
<1> QED BY <1>1, <1>2

LEMMA NewKeyTyped ==
    ASSUME InstallTyped, MayMake(1)
    PROVE  WithNewKey \in FilesRecords /\ WithNewKey.user = made + 1 /\ WithNewKey.other = files.other /\ made' \in 0..MaxKeys /\ made' = made + 1
<1>1. made + 1 \in AdminKeys /\ made' = made + 1 /\ made' \in 0..MaxKeys
  BY KeysAndDatabases DEF MayMake, InstallTyped
<1>2. WithNewKey.user = made + 1 /\ WithNewKey.other = files.other
  BY DEF WithNewKey, InstallTyped, FilesRecords
<1> QED BY <1>1, <1>2, FilesTyped DEF WithNewKey, MaybeKey, InstallTyped

LEMMA SealedTyped ==
    ASSUME NEW key \in AdminKeys
    PROVE  /\ Sealed(key) \in KeyRecords
           /\ \A b \in BOOLEAN : [Sealed(key) EXCEPT !.old = b] \in KeyRecords
BY DEF Sealed, KeyRecords, MaybeKey

LEMMA RevokedTyped == [NoKey EXCEPT !.state = "revoked"] \in KeyRecords
BY NobodyTyped DEF KeyRecords

(* What the owner changes in the files, and with them in everything made.    *)
LEMMA FilesChange ==
    ASSUME InstallTyped,
           \/ Rotate \/ InitForce \/ \E key \in Chosen : EditEnv(key)
           \/ \E d \in Databases : DbSetUrl(d) \/ UpdateDatabaseUrl(d)
    PROVE  \E dbs \in [Databases -> DbRecords] :
             /\ \A d \in Databases : dbs[d].key = db[d].key
             /\ files' \in FilesRecords /\ files'.user \in {Unset} \union 1..made' /\ made' \in 0..MaxKeys
             /\ \/ KeyReplaced(dbs) /\ KeyOf(files') = made + 1 /\ made' = made + 1
                \/ KeyStays(dbs) /\ made <= made'
<1>0. /\ files \in FilesRecords /\ files.user \in {Unset} \union 1..made /\ made \in 0..MaxKeys
      /\ db \in [Databases -> DbRecords] /\ MaxKeys \in Nat
  BY KeysAndDatabases DEF InstallTyped
<1>1. ASSUME MayMake(1), files' = WithNewKey
      PROVE  /\ files' \in FilesRecords /\ files'.user \in {Unset} \union 1..made' /\ made' \in 0..MaxKeys
             /\ made' = made + 1 /\ (files.other = Unset => KeyOf(files') = made + 1)
  <2>1. made + 1 \in 1..made' BY <1>0, <1>1, NewKeyTyped
  <2>2. made + 1 # Unset BY <1>0, <1>1, NewKeyTyped, KeysAndDatabases
  <2> QED BY <1>1, <2>1, <2>2, NewKeyTyped DEF KeyOf
<1>2. CASE Rotate BY <1>0, <1>1, <1>2 DEF Rotate, Rotates
<1>3. CASE InitForce
  <2>1. PICK dbs \in {db} \union (IF Loads(files') THEN {Migrated(CliDb)} ELSE {}) :
          IF files.other = Unset THEN KeyReplaced(dbs) ELSE KeyStays(dbs)
    BY <1>3 DEF InitForce
  <2>2. dbs \in [Databases -> DbRecords] /\ \A d \in Databases : dbs[d].key = db[d].key
    BY <1>0, <2>1, MigrationTyped, DatabasesRead
  <2>3. MayMake(1) /\ files' = WithNewKey BY <1>3 DEF InitForce
  <2> QED BY <1>0, <1>1, <2>1, <2>2, <2>3
<1>4. ASSUME NEW key \in Chosen, EditEnv(key)
      PROVE  files' \in FilesRecords /\ files'.user = files.user /\ KeyStays(db) /\ made' = made
  BY <1>0, <1>4, FilesTyped DEF EditEnv
<1>5. ASSUME NEW d \in Databases, DbSetUrl(d) \/ UpdateDatabaseUrl(d)
      PROVE  files' \in FilesRecords /\ files'.user = files.user /\ KeyStays(db) /\ made' = made
  <2>1. SaveUrl(d) BY <1>5 DEF DbSetUrl, UpdateDatabaseUrl
  <2>2. files' = [files EXCEPT !.db = d] /\ KeyStays(db) /\ made' = made BY <2>1 DEF SaveUrl
  <2>3. d \in MaybeDb BY DEF MaybeDb
  <2> QED BY <1>0, <2>2, <2>3, FilesTyped
<1> QED BY <1>0, <1>2, <1>3, <1>4, <1>5

(* What a command, a worker that starts or the dashboard does to the           *)
(* databases: tables are only brought to the newest ones, and the copy of a    *)
(* new key is sealed with the key the files hold, or that of a worker.        *)
Commands == FirstAccount \/ InitCommand \/ DbUpgrade \/ UsersCreate \/ UsersDelete \/ KeysCreate \/ KeysRevoke
Serving(w) == Lifespan(w) \/ CreateKey(w) \/ RevokeKey(w)

SealedAs(row, key, old) == row.sealed = key /\ row.old = old
DataMoves(row, was) ==
    \/ row = was \/ row.sealed = Unset
    \/ SealedAs(row, KeyOf(files), FALSE)
    \/ \E w \in Workers : worker[w].stage = "up" /\ SealedAs(row, worker[w].key, ~worker[w].fresh)

LEMMA DataRead ==
    ASSUME InstallTyped, NEW dbs \in {db, Migrated(CliDb)}
    PROVE  /\ dbs \in [Databases -> DbRecords]
           /\ \A e \in Databases : dbs[e].tables \in {db[e].tables, "head"} /\ dbs[e].key = db[e].key
BY MigrationTyped, DatabasesRead DEF InstallTyped

LEMMA AccountWritten ==
    ASSUME NEW dbs \in [Databases -> DbRecords], NEW d \in Databases, NEW b \in BOOLEAN
    PROVE  /\ [dbs EXCEPT ![d].account = b] \in [Databases -> DbRecords]
           /\ \A e \in Databases : /\ [dbs EXCEPT ![d].account = b][e].tables = dbs[e].tables
                                   /\ [dbs EXCEPT ![d].account = b][e].key = dbs[e].key
<1>1. ASSUME NEW r \in DbRecords
      PROVE  [r EXCEPT !.account = b].key = r.key /\ [r EXCEPT !.account = b].tables = r.tables
  BY DEF DbRecords
<1> QED BY <1>1, DbTyped

LEMMA KeyWritten ==
    ASSUME NEW dbs \in [Databases -> DbRecords], NEW d \in Databases, NEW row \in KeyRecords
    PROVE  /\ [dbs EXCEPT ![d].key = row] \in [Databases -> DbRecords]
           /\ \A e \in Databases : /\ [dbs EXCEPT ![d].key = row][e].tables = dbs[e].tables
                                   /\ [dbs EXCEPT ![d].key = row][e].key = IF e = d THEN row ELSE dbs[e].key
<1>1. ASSUME NEW r \in DbRecords
      PROVE  [r EXCEPT !.key = row].key = row /\ [r EXCEPT !.key = row].tables = r.tables
  BY DEF DbRecords
<1> QED BY <1>1, DbTyped

LEMMA DbMoves ==
    ASSUME InstallTyped, Commands \/ \E w \in Workers : Serving(w)
    PROVE  /\ db' \in [Databases -> DbRecords]
           /\ \A d \in Databases : db'[d].tables \in {db[d].tables, "head"}
                                   /\ DataMoves(db'[d].key, db[d].key)
<1> USE DatabasesRead, NobodyTyped
<1> DEFINE Goal == /\ db' \in [Databases -> DbRecords]
                   /\ \A d \in Databases : db'[d].tables \in {db[d].tables, "head"}
                                           /\ DataMoves(db'[d].key, db[d].key)
<1>1. ASSUME db' \in {db, Migrated(CliDb)} PROVE Goal
  <2>1. /\ db' \in [Databases -> DbRecords]
        /\ \A e \in Databases : db'[e].tables \in {db[e].tables, "head"} /\ db'[e].key = db[e].key
    BY <1>1, DataRead
  <2> QED BY <2>1 DEF DataMoves
<1>2. ASSUME NEW d \in Databases, NEW b \in BOOLEAN, NEW dbs \in {db, Migrated(CliDb)},
             db' = [dbs EXCEPT ![d].account = b]
      PROVE  Goal
  <2>1. dbs \in [Databases -> DbRecords]
        /\ \A e \in Databases : dbs[e].tables \in {db[e].tables, "head"} /\ dbs[e].key = db[e].key
    BY DataRead
  <2>2. /\ [dbs EXCEPT ![d].account = b] \in [Databases -> DbRecords]
        /\ \A e \in Databases : /\ [dbs EXCEPT ![d].account = b][e].tables = dbs[e].tables
                                /\ [dbs EXCEPT ![d].account = b][e].key = dbs[e].key
    BY <2>1, AccountWritten
  <2>3. \A e \in Databases : db'[e].key = db[e].key /\ db'[e].tables \in {db[e].tables, "head"}
    BY <1>2, <2>1, <2>2
  <2> QED BY <1>2, <2>2, <2>3 DEF DataMoves
<1>3. ASSUME NEW d \in Databases, NEW row \in KeyRecords, NEW dbs \in {db, Migrated(CliDb)},
             db' = [dbs EXCEPT ![d].key = row], DataMoves(row, db[d].key)
      PROVE  Goal
  <2>1. dbs \in [Databases -> DbRecords]
        /\ \A e \in Databases : dbs[e].tables \in {db[e].tables, "head"} /\ dbs[e].key = db[e].key
    BY DataRead
  <2>2. /\ [dbs EXCEPT ![d].key = row] \in [Databases -> DbRecords]
        /\ \A e \in Databases : /\ [dbs EXCEPT ![d].key = row][e].tables = dbs[e].tables
                                /\ [dbs EXCEPT ![d].key = row][e].key = IF e = d THEN row ELSE dbs[e].key
    BY <2>1, KeyWritten
  <2>3. \A e \in Databases : db'[e].tables \in {db[e].tables, "head"} BY <1>3, <2>1, <2>2
  <2>4. \A e \in Databases : (e = d /\ db'[e].key = row) \/ db'[e].key = db[e].key BY <1>3, <2>1, <2>2
  <2>5. \A e \in Databases : DataMoves(db'[e].key, db[e].key)
    <3> TAKE e \in Databases
    <3>1. CASE e = d /\ db'[e].key = row BY <1>3, <3>1
    <3>2. CASE db'[e].key = db[e].key BY <3>2 DEF DataMoves
    <3> QED BY <2>4, <3>1, <3>2
  <2> QED BY <1>3, <2>2, <2>3, <2>5
<1>4. ASSUME NEW d \in Databases, Revoked(d) PROVE Goal
  <2>1. DataMoves([NoKey EXCEPT !.state = "revoked"], db[d].key) BY DEF DataMoves, NoKey
  <2> QED BY <1>3, <1>4, <2>1, RevokedTyped DEF Revoked
<1>5. CASE FirstAccount
  <2>1. CASE \E b \in BOOLEAN : db' = [Migrated(CliDb) EXCEPT ![CliDb].account = @ \/ b]
    <3>1. PICK b \in BOOLEAN : db' = [Migrated(CliDb) EXCEPT ![CliDb].account = @ \/ b] BY <2>1
    <3>2. (Migrated(CliDb)[CliDb].account \/ b) \in BOOLEAN OBVIOUS
    <3> QED BY <1>2, <3>1, <3>2
  <2> QED BY <1>1, <1>5, <2>1 DEF FirstAccount
<1>6. CASE InitCommand \/ DbUpgrade BY <1>1, <1>6 DEF InitCommand, DbUpgrade
<1>7. CASE UsersCreate \/ UsersDelete BY <1>2, <1>7 DEF UsersCreate, UsersDelete
<1>8. CASE KeysCreate
  <2>1. KeyOf(files) \in AdminKeys BY FilesTyped DEF InstallTyped
  <2>2. Sealed(KeyOf(files)) \in KeyRecords BY <2>1, SealedTyped
  <2>3. DataMoves(Sealed(KeyOf(files)), db[CliDb].key) BY DEF DataMoves, Sealed, SealedAs
  <2> QED BY <1>3, <1>8, <2>2, <2>3 DEF KeysCreate
<1>9. CASE KeysRevoke BY <1>4, <1>9 DEF KeysRevoke
<1>10. ASSUME NEW w \in Workers, Serving(w) PROVE Goal
  <2>0. worker[w] \in WorkerRecords BY DEF InstallTyped
  <2>1. worker[w].db \in Databases /\ worker[w].key \in AdminKeys /\ worker[w].fresh \in BOOLEAN
    BY <2>0 DEF WorkerRecords
  <2>2. CASE Lifespan(w)
    <3>1. db' = Migrated(worker[w].db) BY <2>2 DEF Lifespan
    <3> QED BY <2>1, <3>1, MigrationTyped DEF DataMoves
  <2>3. CASE CreateKey(w)
    <3> DEFINE old == worker[w].key # Placeholder /\ ~worker[w].fresh
    <3> DEFINE row == [Sealed(worker[w].key) EXCEPT !.old = old]
    <3>1. row \in KeyRecords BY <2>1, SealedTyped
    <3>2. worker[w].stage = "up" BY <2>3 DEF CreateKey, Accepts
    <3>3. DataMoves(row, db[worker[w].db].key)
      <4>1. CASE worker[w].key = Placeholder BY <4>1 DEF DataMoves, Sealed
      <4>2. CASE worker[w].key # Placeholder BY <2>1, <3>2, <4>2 DEF DataMoves, Sealed, SealedAs
      <4> QED BY <4>1, <4>2
    <3>4. db' = [db EXCEPT ![worker[w].db].key = row] BY <2>3 DEF CreateKey
    <3> HIDE DEF row
    <3> QED BY <1>3, <2>1, <3>1, <3>3, <3>4
  <2>4. CASE RevokeKey(w) BY <1>4, <2>1, <2>4 DEF RevokeKey
  <2> QED BY <1>10, <2>2, <2>3, <2>4 DEF Serving
<1> QED BY <1>5, <1>6, <1>7, <1>8, <1>9, <1>10 DEF Commands

LEMMA ServeMoves ==
    ASSUME InstallTyped, NEW open \in BOOLEAN, NEW multi \in BOOLEAN, Serve(open, multi)
    PROVE  /\ server.stage = "down" /\ server' \in ServerRecords
           /\ \/ server' = server
              \/ /\ server'.stage = "checked" /\ server'.key = KeyOf(files') /\ server'.open = open
                 /\ (open => KeyOf(files') # Placeholder)
                 /\ ~server'.changed /\ ~server'.skipped /\ server'.fresh
<1>1. KeyOf(Ensured) \in AdminKeys
  <2>1. MayMake(IF NeedsKey THEN 1 ELSE 0) BY DEF Serve
  <2> QED BY <2>1, EnsuredKey, FilesTyped
<1>2. CASE server' = server BY <1>2 DEF Serve, InstallTyped
<1>3. CASE server' # server
  <2>1. /\ server' = [NoServer EXCEPT !.stage = "checked", !.key = KeyOf(Ensured), !.open = open, !.multi = multi]
        /\ ~Refuses(open, KeyOf(Ensured)) /\ files' = Ensured
    BY <1>3 DEF Serve
  <2>2. server' = [stage |-> "checked", key |-> KeyOf(Ensured), open |-> open, multi |-> multi,
                   skipped |-> FALSE, changed |-> FALSE, fresh |-> TRUE]
    BY <2>1 DEF NoServer
  <2>3. server' \in ServerRecords BY <1>1, <2>2 DEF ServerRecords, ServerStages
  <2>4. /\ server'.stage = "checked" /\ server'.key = KeyOf(files') /\ server'.open = open
        /\ ~server'.changed /\ ~server'.skipped /\ server'.fresh
    <3>1. server'.stage = "checked" BY <2>2
    <3>2. server'.key = KeyOf(files') BY <2>1, <2>2
    <3>3. server'.open = open BY <2>2, Zenon
    <3>4. server'.changed = FALSE /\ server'.skipped = FALSE /\ server'.fresh = TRUE BY <2>2
    <3> QED BY <3>1, <3>2, <3>3, <3>4
  <2>5. open => KeyOf(files') # Placeholder BY <2>1 DEF Refuses
  <2>6. server.stage = "down" BY DEF Serve
  <2> QED BY <2>3, <2>4, <2>5, <2>6
<1> QED BY <1>2, <1>3

LEMMA CreateAppMoves ==
    ASSUME InstallTyped, NEW w \in Workers, CreateApp(w)
    PROVE  /\ worker' = [worker EXCEPT ![w] = worker'[w]] /\ worker'[w] \in WorkerRecords
           /\ worker' \in [Workers -> WorkerRecords]
           /\ worker'[w].stage = "starting" /\ worker'[w].key = WorkerKey
           /\ worker'[w].seen = db[ServerDb].tables /\ worker'[w].fresh = (server.multi \/ server.fresh)
<1> DEFINE new == [stage |-> "starting", key |-> WorkerKey, db |-> ServerDb,
                   seen |-> db[ServerDb].tables, fresh |-> server.multi \/ server.fresh]
<1>1. worker' = [worker EXCEPT ![w] = new] /\ worker \in [Workers -> WorkerRecords]
  BY DEF CreateApp, InstallTyped
<1>2. WorkerKey \in AdminKeys BY FilesTyped DEF WorkerKey, InstallTyped, ServerRecords
<1>3. db[ServerDb].tables \in Tables /\ ServerDb \in Databases
  BY DatabasesRead, DbTyped DEF InstallTyped
<1>4. new \in WorkerRecords BY <1>2, <1>3 DEF WorkerRecords, WorkerStages
<1>5. worker'[w] = new BY <1>1
<1> QED BY <1>1, <1>4, <1>5

LEMMA ServingMoves ==
    ASSUME NEW w \in Workers, Serving(w)
    PROVE  /\ UNCHANGED <<files, made, server, sessions>>
           /\ worker' = worker \/ worker' = [worker EXCEPT ![w].stage = "up"]
<1>1. CASE Lifespan(w) BY <1>1 DEF Lifespan
<1>2. CASE CreateKey(w) BY <1>2 DEF CreateKey, Data
<1>3. CASE RevokeKey(w) BY <1>3 DEF RevokeKey, Revoked, Data
<1> QED BY <1>1, <1>2, <1>3 DEF Serving

LEMMA InstallTypedNext == InstallTyped /\ [InstallNext]_installVars => InstallTyped'
<1> SUFFICES ASSUME InstallTyped, [InstallNext]_installVars PROVE InstallTyped'
  OBVIOUS
<1> USE NobodyTyped
<1>0. /\ files \in FilesRecords /\ files.user \in {Unset} \union 1..made /\ made \in 0..MaxKeys
      /\ db \in [Databases -> DbRecords] /\ server \in ServerRecords
      /\ worker \in [Workers -> WorkerRecords] /\ sessions \in SUBSET Cookies
  BY DEF InstallTyped
<1>1. ASSUME NEW open \in BOOLEAN, NEW multi \in BOOLEAN, Serve(open, multi) PROVE InstallTyped'
  <2>1. MayMake(IF NeedsKey THEN 1 ELSE 0) /\ files' = Ensured BY <1>1 DEF Serve
  <2> QED BY <1>0, <1>1, <2>1, EnsuredKey, ServeMoves DEF Serve, InstallTyped
<1>2. CASE FirstAccount
  <2>1. db' \in [Databases -> DbRecords] BY <1>2, DbMoves DEF Commands
  <2>2. server' \in ServerRecords BY <1>0, <1>2, ServerTyped DEF FirstAccount, ServerStages
  <2> QED BY <1>0, <1>2, <2>1, <2>2 DEF FirstAccount, InstallTyped
<1>3. CASE Stop BY <1>0, <1>3 DEF Stop, InstallTyped
<1>4. ASSUME NEW w \in Workers, CreateApp(w) PROVE InstallTyped'
  BY <1>0, <1>4, CreateAppMoves DEF CreateApp, InstallTyped
<1>5. ASSUME NEW w \in Workers, Serving(w) PROVE InstallTyped'
  <2>1. db' \in [Databases -> DbRecords] BY <1>5, DbMoves
  <2>2. worker' \in [Workers -> WorkerRecords]
    <3>1. CASE worker' = [worker EXCEPT ![w].stage = "up"]
      <4>1. worker[w] \in WorkerRecords /\ "up" \in WorkerStages BY <1>0 DEF WorkerStages
      <4>2. [worker[w] EXCEPT !.stage = "up"] \in WorkerRecords BY <4>1, WorkerTyped
      <4> QED BY <1>0, <3>1, <4>2
    <3> QED BY <1>0, <1>5, <3>1, ServingMoves
  <2> QED BY <1>0, <1>5, <2>1, <2>2, ServingMoves DEF InstallTyped
<1>6. ASSUME NEW w \in Workers, WorkerDies(w) PROVE InstallTyped'
  BY <1>0, <1>6 DEF WorkerDies, InstallTyped
<1>7. ASSUME NEW w \in Workers, SignIn(w) PROVE InstallTyped'
  <2>1. worker[w].key \in AdminKeys BY <1>0 DEF WorkerRecords
  <2>2. [key |-> worker[w].key, old |-> ~worker[w].fresh] \in Cookies BY <2>1 DEF Cookies
  <2> QED BY <1>0, <1>7, <2>2 DEF SignIn, InstallTyped
<1>8. CASE \/ Rotate \/ InitForce \/ \E key \in Chosen : EditEnv(key)
           \/ \E d \in Databases : DbSetUrl(d) \/ UpdateDatabaseUrl(d)
  BY <1>8, FilesChange, MarkTyped DEF InstallTyped
<1>9. CASE InitCommand
  <2>1. MayMake(IF NeedsKey THEN 1 ELSE 0) /\ files' = Ensured BY <1>9 DEF InitCommand
  <2>2. db' \in [Databases -> DbRecords] BY <1>9, DbMoves DEF Commands
  <2> QED BY <1>0, <1>9, <2>1, <2>2, EnsuredKey DEF InitCommand, InstallTyped
<1>10. CASE DbUpgrade \/ UsersCreate \/ UsersDelete \/ KeysCreate \/ KeysRevoke
  <2>1. db' \in [Databases -> DbRecords] BY <1>10, DbMoves DEF Commands
  <2>2. Data BY <1>10 DEF DbUpgrade, UsersCreate, UsersDelete, KeysCreate, KeysRevoke, Revoked
  <2> QED BY <1>0, <2>1, <2>2 DEF Data, InstallTyped
<1>11. ASSUME NEW s \in sessions, SessionExpires(s) PROVE InstallTyped'
  BY <1>0, <1>11 DEF SessionExpires, InstallTyped
<1>12. CASE UNCHANGED installVars BY <1>0, <1>12 DEF installVars, InstallTyped
<1> QED BY <1>1, <1>2, <1>3, <1>4, <1>5, <1>6, <1>7, <1>8, <1>9, <1>10, <1>11, <1>12
        DEF InstallNext, Serving, Chosen

LEMMA MarkMoves ==
    ASSUME InstallTyped, NEW dbs, KeyReplaced(dbs) \/ KeyStays(dbs)
    PROVE  /\ server'.changed /\ server'.stage = server.stage /\ server'.key = server.key
           /\ \A w \in Workers : worker'[w].stage = worker[w].stage /\ worker'[w].key = worker[w].key
<1>1. \E f, g : /\ worker' = [w \in Workers |-> [worker[w] EXCEPT !.fresh = f[w]]]
                /\ server' = [server EXCEPT !.changed = TRUE, !.fresh = g]
  <2>1. CASE KeyReplaced(dbs)
    <3> DEFINE f == [w \in Workers |-> FALSE]
    <3>1. worker' = [w \in Workers |-> [worker[w] EXCEPT !.fresh = f[w]]]
      BY <2>1 DEF KeyReplaced, Mark
    <3>2. server' = [server EXCEPT !.changed = TRUE, !.fresh = FALSE] BY <2>1 DEF KeyReplaced, Mark
    <3> HIDE DEF f
    <3> QED BY <3>1, <3>2
  <2>2. CASE KeyStays(dbs)
    <3> DEFINE f == [w \in Workers |-> ~(~worker[w].fresh /\ worker[w].key # KeyOf(files'))]
    <3> DEFINE g == ~(~server.fresh /\ server.key # KeyOf(files'))
    <3>1. worker' = [w \in Workers |-> [worker[w] EXCEPT !.fresh = f[w]]]
      BY <2>2 DEF KeyStays, Mark
    <3>2. server' = [server EXCEPT !.changed = TRUE, !.fresh = g] BY <2>2 DEF KeyStays, Mark
    <3> HIDE DEF f, g
    <3> QED BY <3>1, <3>2
  <2> QED BY <2>1, <2>2
<1>2. PICK f, g : /\ worker' = [w \in Workers |-> [worker[w] EXCEPT !.fresh = f[w]]]
                  /\ server' = [server EXCEPT !.changed = TRUE, !.fresh = g]
  BY <1>1
<1>3. server \in ServerRecords /\ \A w \in Workers : worker[w] \in WorkerRecords BY DEF InstallTyped
<1>4. server'.changed /\ server'.stage = server.stage /\ server'.key = server.key
  BY <1>2, <1>3 DEF ServerRecords
<1>5. \A w \in Workers : worker'[w].stage = worker[w].stage /\ worker'[w].key = worker[w].key
  BY <1>2, <1>3 DEF WorkerRecords
<1> QED BY <1>4, <1>5

(* No worker lives without a server that runs. A server that listens on the    *)
(* network read a proper admin key, the files it read hold one still, unless    *)
(* they changed, and so each of its workers has one.                         *)
Attended == \A w \in Workers : worker[w].stage # "down" => server.stage = "running"
Proper ==
    server.open /\ ~server.changed =>
        /\ KeyOf(files) # Placeholder
        /\ server.stage # "down" => server.key # Placeholder
        /\ \A w \in Workers : worker[w].stage # "down" => worker[w].key # Placeholder
OpenInv == InstallTyped /\ Attended /\ Proper

LEMMA OpenInit == InstallInit => OpenInv
<1> SUFFICES ASSUME InstallInit PROVE OpenInv
  OBVIOUS
<1>1. server.open = FALSE /\ \A w \in Workers : worker[w].stage = "down"
  BY DEF InstallInit, NoServer, NoWorker
<1> QED BY <1>1, InstallTypedInit DEF OpenInv, Attended, Proper

LEMMA CommandsMoves ==
    ASSUME Commands
    PROVE  /\ UNCHANGED <<worker, sessions>>
           /\ \/ server.stage = "checked" /\ UNCHANGED <<files, made>>
                 /\ (\/ server' = [server EXCEPT !.stage = "running"]
                     \/ server' = [server EXCEPT !.stage = "running", !.skipped = TRUE])
              \/ UNCHANGED <<files, made, server>>
              \/ UNCHANGED server /\ files' = Ensured /\ MayMake(IF NeedsKey THEN 1 ELSE 0)
<1>1. CASE FirstAccount BY <1>1 DEF FirstAccount
<1>2. CASE InitCommand BY <1>2 DEF InitCommand
<1>3. CASE DbUpgrade \/ UsersCreate \/ UsersDelete \/ KeysCreate \/ KeysRevoke
  BY <1>3 DEF DbUpgrade, UsersCreate, UsersDelete, KeysCreate, KeysRevoke, Revoked, Data
<1> QED BY <1>1, <1>2, <1>3 DEF Commands

LEMMA OpenNext == OpenInv /\ [InstallNext]_installVars => OpenInv'
<1> SUFFICES ASSUME OpenInv, [InstallNext]_installVars PROVE OpenInv'
  OBVIOUS
<1>0. InstallTyped /\ InstallTyped' /\ Attended /\ Proper BY InstallTypedNext DEF OpenInv
<1> SUFFICES Attended' /\ Proper'
  BY <1>0 DEF OpenInv
<1> DEFINE Goal == Attended' /\ Proper'
<1>t. /\ server \in ServerRecords /\ worker \in [Workers -> WorkerRecords] /\ made \in Nat
      /\ \A w \in Workers : worker[w] \in WorkerRecords
  BY <1>0 DEF InstallTyped
<1>1. ASSUME NEW open \in BOOLEAN, NEW multi \in BOOLEAN, Serve(open, multi) PROVE Goal
  <2>1. MayMake(IF NeedsKey THEN 1 ELSE 0) /\ files' = Ensured /\ worker' = worker BY <1>1 DEF Serve
  <2>2. KeyOf(files) # Placeholder => KeyOf(files') # Placeholder
    BY <1>0, <1>t, <2>1, EnsuredKey DEF Placeholder
  <2>3. \A w \in Workers : worker[w].stage = "down" BY <1>0, <1>1, ServeMoves DEF Attended
  <2> QED BY <1>0, <1>1, <2>1, <2>2, <2>3, ServeMoves DEF Attended, Proper
<1>2. CASE Commands
  <2>1. MayMake(IF NeedsKey THEN 1 ELSE 0) /\ files' = Ensured =>
          (KeyOf(files) # Placeholder => KeyOf(files') # Placeholder)
    BY <1>0, <1>t, EnsuredKey DEF Placeholder
  <2>2. server'.open = server.open /\ server'.changed = server.changed /\ server'.key = server.key
        /\ (server'.stage = server.stage \/ server.stage = "checked")
    BY <1>2, <1>t, CommandsMoves DEF ServerRecords
  <2>3. KeyOf(files) # Placeholder => KeyOf(files') # Placeholder BY <1>2, <2>1, CommandsMoves
  <2>4. worker' = worker BY <1>2, CommandsMoves
  <2> QED BY <1>0, <2>2, <2>3, <2>4 DEF Attended, Proper
<1>3. CASE Stop
  <2>1. server' = NoServer /\ \A w \in Workers : worker'[w] = NoWorker BY <1>3 DEF Stop
  <2> QED BY <2>1 DEF Attended, Proper, NoServer, NoWorker
<1>4. ASSUME NEW w \in Workers, CreateApp(w) PROVE Goal
  <2>1. server.stage = "running" /\ UNCHANGED <<server, files>> BY <1>4 DEF CreateApp
  <2>2. \A v \in Workers : v # w => worker'[v] = worker[v] BY <1>0, <1>4, <1>t, CreateAppMoves
  <2>3. worker'[w].key = WorkerKey BY <1>0, <1>4, CreateAppMoves
  <2> QED BY <1>0, <2>1, <2>2, <2>3 DEF Attended, Proper, WorkerKey
<1>5. ASSUME NEW w \in Workers, Serving(w) PROVE Goal
  <2>1. UNCHANGED <<server, files>> BY <1>5, ServingMoves
  <2>2. worker[w].stage # "down"
    BY <1>5 DEF Serving, Lifespan, CreateKey, RevokeKey, Accepts
  <2>3. \A v \in Workers : worker'[v].key = worker[v].key /\ (worker'[v].stage = "down" <=> worker[v].stage = "down")
    <3>1. CASE worker' = [worker EXCEPT ![w].stage = "up"]
      <4> QED BY <1>t, <2>2, <3>1 DEF WorkerRecords
    <3> QED BY <1>5, <3>1, ServingMoves
  <2> QED BY <1>0, <2>1, <2>3 DEF Attended, Proper
<1>6. ASSUME NEW w \in Workers, WorkerDies(w) PROVE Goal
  <2>1. UNCHANGED <<server, files>> /\ \A v \in Workers : worker'[v] = worker[v] \/ worker'[v].stage = "down"
    BY <1>t, <1>6 DEF WorkerDies, NoWorker
  <2> QED BY <1>0, <2>1 DEF Attended, Proper
<1>7. ASSUME UNCHANGED <<files, server, worker>> PROVE Goal
  BY <1>0, <1>7 DEF Attended, Proper
<1>8. CASE \/ Rotate \/ InitForce \/ \E key \in Chosen : EditEnv(key)
           \/ \E d \in Databases : DbSetUrl(d) \/ UpdateDatabaseUrl(d)
  <2>1. PICK dbs : KeyReplaced(dbs) \/ KeyStays(dbs) BY <1>0, <1>8, FilesChange
  <2> QED BY <1>0, <2>1, MarkMoves DEF Attended, Proper
<1>9. ASSUME NEW w \in Workers, SignIn(w) PROVE Goal
  BY <1>7, <1>9 DEF SignIn
<1>10. ASSUME NEW s \in sessions, SessionExpires(s) PROVE Goal
  BY <1>7, <1>10 DEF SessionExpires
<1>11. CASE UNCHANGED installVars BY <1>7, <1>11 DEF installVars
<1> HIDE DEF Goal
<1> QED BY <1>1, <1>2, <1>3, <1>4, <1>5, <1>6, <1>8, <1>9, <1>10, <1>11
        DEF InstallNext, Commands, Serving, Chosen, Goal

(* No worker of a server that listens on the network has the placeholder as    *)
(* admin key, unless the owner changed the files under it: what `serve` looked  *)
(* at before it started stays true of every worker that starts or restarts     *)
(* later (serve, create_app, _ensure_admin_key).                             *)
THEOREM NobodyServesThePlaceholder == InstallSpec => []NeverOpenWithPlaceholder
<1>1. OpenInv => NeverOpenWithPlaceholder BY DEF OpenInv, Proper, NeverOpenWithPlaceholder
<1> QED BY <1>1, OpenInit, OpenNext, PTL DEF InstallSpec

(* The database of a server that runs is migrated before any worker looks at   *)
(* its tables, and no step takes a table back.                               *)
Ready ==
    server.stage = "running" /\ ~server.skipped /\ ~server.changed /\ ~LegacyOnly =>
        /\ db[ServerDb].tables = "head"
        /\ \A w \in Workers : worker[w].stage = "starting" => worker[w].seen = "head"
ReadyInv == OpenInv /\ Ready

LEMMA ReadyInit == InstallInit => ReadyInv
<1>1. InstallInit => server.stage = "down" BY DEF InstallInit, NoServer
<1> QED BY <1>1, OpenInit DEF ReadyInv, Ready

LEMMA FirstAccountMigrates ==
    ASSUME InstallTyped, FirstAccount, ~server'.skipped, ~LegacyOnly
    PROVE  db'[ServerDb].tables = "head"
<1>1. ServerDb = CliDb BY DEF LegacyOnly, ServerDb, CliDb
<1>2. PICK b \in BOOLEAN : db' = [Migrated(CliDb) EXCEPT ![CliDb].account = @ \/ b]
  <2>1. ~(server' = [server EXCEPT !.stage = "running", !.skipped = TRUE])
    BY DEF InstallTyped, ServerRecords
  <2> QED BY <2>1 DEF FirstAccount
<1>3. Migrated(CliDb) \in [Databases -> DbRecords] /\ CliDb \in Databases /\ Migrated(CliDb)[CliDb].tables = "head"
  BY MigrationTyped, DatabasesRead
<1>4. (Migrated(CliDb)[CliDb].account \/ b) \in BOOLEAN OBVIOUS
<1>5. db' = [Migrated(CliDb) EXCEPT ![CliDb].account = (Migrated(CliDb)[CliDb].account \/ b)] BY <1>2
<1> QED BY <1>1, <1>3, <1>4, <1>5, AccountWritten

LEMMA ReadyNext == ReadyInv /\ [InstallNext]_installVars => ReadyInv'
<1> SUFFICES ASSUME ReadyInv, [InstallNext]_installVars PROVE ReadyInv'
  OBVIOUS
<1>0. InstallTyped /\ InstallTyped' /\ OpenInv' /\ Attended /\ Ready
  BY OpenNext DEF ReadyInv, OpenInv
<1> SUFFICES Ready'
  BY <1>0 DEF ReadyInv
<1>t. /\ server \in ServerRecords /\ worker \in [Workers -> WorkerRecords] /\ ServerDb \in Databases
      /\ files \in FilesRecords
  BY <1>0, DatabasesRead DEF InstallTyped
<1>a. ASSUME \/ UNCHANGED files
             \/ files' = Ensured /\ MayMake(IF NeedsKey THEN 1 ELSE 0)
      PROVE  (LegacyOnly' <=> LegacyOnly) /\ ServerDb' = ServerDb
  BY <1>0, <1>a, EnsuredKey DEF LegacyOnly, ServerDb
<1>1. ASSUME NEW open \in BOOLEAN, NEW multi \in BOOLEAN, Serve(open, multi) PROVE Ready'
  <2>1. server'.stage # "running" BY <1>0, <1>1, ServeMoves
  <2> QED BY <2>1 DEF Ready
<1>2. CASE Commands /\ ~FirstAccount
  <2>1. /\ UNCHANGED <<worker, server>>
        /\ (LegacyOnly' <=> LegacyOnly) /\ ServerDb' = ServerDb
    <3>1. UNCHANGED <<worker, server>>
      BY <1>2 DEF Commands, InitCommand, DbUpgrade, UsersCreate, UsersDelete, KeysCreate, KeysRevoke, Revoked, Data
    <3>2. UNCHANGED files \/ (files' = Ensured /\ MayMake(IF NeedsKey THEN 1 ELSE 0))
      BY <1>2, CommandsMoves
    <3> QED BY <3>1, <3>2, <1>a
  <2>2. db'[ServerDb].tables \in {db[ServerDb].tables, "head"} BY <1>0, <1>2, <1>t, DbMoves
  <2> QED BY <1>0, <2>1, <2>2 DEF Ready
<1>3. CASE FirstAccount
  <2>1. server.stage = "checked" /\ UNCHANGED <<files, worker>> BY <1>3 DEF FirstAccount
  <2>2. \A w \in Workers : worker'[w].stage = "down" BY <1>0, <2>1 DEF Attended
  <2>3. (LegacyOnly' <=> LegacyOnly) /\ ServerDb' = ServerDb BY <1>a, <2>1
  <2>4. ~server'.skipped /\ ~LegacyOnly' => db'[ServerDb'].tables = "head"
    BY <1>0, <1>3, <2>3, FirstAccountMigrates
  <2> QED BY <2>2, <2>4 DEF Ready
<1>4. CASE Stop BY <1>4 DEF Stop, NoServer, Ready
<1>5. ASSUME NEW w \in Workers, CreateApp(w) PROVE Ready'
  <2>1. UNCHANGED <<server, files, db>> BY <1>5 DEF CreateApp
  <2>2. worker'[w].seen = db[ServerDb].tables /\ \A v \in Workers : v # w => worker'[v] = worker[v]
    BY <1>0, <1>5, <1>t, CreateAppMoves
  <2>3. (LegacyOnly' <=> LegacyOnly) /\ ServerDb' = ServerDb BY <1>a, <2>1
  <2> QED BY <1>0, <2>1, <2>2, <2>3 DEF Ready
<1>6. ASSUME NEW w \in Workers, Serving(w) PROVE Ready'
  <2>1. UNCHANGED <<server, files>> BY <1>6, ServingMoves
  <2>2. db'[ServerDb].tables \in {db[ServerDb].tables, "head"} BY <1>0, <1>6, <1>t, DbMoves
  <2>3. \A v \in Workers : worker'[v].stage = "starting" => worker'[v] = worker[v]
    BY <1>6, <1>t, ServingMoves DEF WorkerRecords
  <2>4. (LegacyOnly' <=> LegacyOnly) /\ ServerDb' = ServerDb BY <1>a, <2>1
  <2> QED BY <1>0, <2>1, <2>2, <2>3, <2>4 DEF Ready
<1>7. ASSUME NEW w \in Workers, WorkerDies(w) PROVE Ready'
  <2>1. UNCHANGED <<server, files, db>> BY <1>7 DEF WorkerDies
  <2>2. \A v \in Workers : worker'[v].stage = "starting" => worker'[v] = worker[v]
    BY <1>7, <1>t DEF WorkerDies, NoWorker
  <2>3. (LegacyOnly' <=> LegacyOnly) /\ ServerDb' = ServerDb BY <1>a, <2>1
  <2> QED BY <1>0, <2>1, <2>2, <2>3 DEF Ready
<1>8. ASSUME UNCHANGED <<server, files, db, worker>> PROVE Ready'
  BY <1>0, <1>8 DEF Ready, LegacyOnly, ServerDb
<1>9. CASE \/ Rotate \/ InitForce \/ \E key \in Chosen : EditEnv(key)
           \/ \E d \in Databases : DbSetUrl(d) \/ UpdateDatabaseUrl(d)
  <2>1. PICK dbs : KeyReplaced(dbs) \/ KeyStays(dbs) BY <1>0, <1>9, FilesChange
  <2> QED BY <1>0, <2>1, MarkMoves DEF Ready
<1>10. ASSUME NEW w \in Workers, SignIn(w) PROVE Ready'
  BY <1>8, <1>10 DEF SignIn
<1>11. ASSUME NEW s \in sessions, SessionExpires(s) PROVE Ready'
  BY <1>8, <1>11 DEF SessionExpires
<1>12. CASE UNCHANGED installVars BY <1>8, <1>12 DEF installVars
<1> QED BY <1>1, <1>2, <1>3, <1>4, <1>5, <1>6, <1>7, <1>9, <1>10, <1>11, <1>12
        DEF InstallNext, Commands, Serving, Chosen

(* No two processes migrate a database against each other: the one of a server  *)
(* is migrated before its workers start, unless that failed, the files changed  *)
(* since, or only the legacy file names a database (_first_account_setup,      *)
(* init_models, resolve_database_url).                                      *)
THEOREM WorkersFindItMigrated == InstallSpec => []NoCollision
<1>1. ReadyInv => NoCollision
  BY DEF ReadyInv, OpenInv, Attended, Ready, NoCollision, Collides
<1> QED BY <1>1, ReadyInit, ReadyNext, PTL DEF InstallSpec

(* Which keys something in use is signed, sealed or served with: a cookie, a    *)
(* worker, the server or a sealed copy, made before the admin key was replaced  *)
(* or since. No key is in both, the one the files hold is not an old one, and   *)
(* none is beyond those that were made.                                       *)
OldCookie(k) == \E s \in sessions : s.key = k /\ s.old
OldWorker(k) == \E w \in Workers : worker[w].stage # "down" /\ worker[w].key = k /\ ~worker[w].fresh
OldServer(k) == server.stage # "down" /\ server.key = k /\ ~server.fresh
OldCopy(k)   == \E d \in Databases : db[d].key.sealed = k /\ db[d].key.old
Old(k) == OldCookie(k) \/ OldWorker(k) \/ OldServer(k) \/ OldCopy(k)

NewCookie(k) == \E s \in sessions : s.key = k /\ ~s.old
NewWorker(k) == \E w \in Workers : worker[w].stage # "down" /\ worker[w].key = k /\ worker[w].fresh
NewServer(k) == server.stage # "down" /\ server.key = k /\ server.fresh
NewCopy(k)   == \E d \in Databases : db[d].key.sealed = k /\ ~db[d].key.old
New(k) == NewCookie(k) \/ NewWorker(k) \/ NewServer(k) \/ NewCopy(k)

Aged ==
    \A k \in AdminKeys : /\ Old(k) => ~New(k) /\ k # KeyOf(files)
                         /\ Old(k) \/ New(k) => k <= made
AgedInv == OpenInv /\ Aged

LEMMA KeyIsMade ==
    ASSUME NEW f \in FilesRecords, NEW n \in Nat, f.user \in {Unset} \union 1..n
    PROVE  KeyOf(f) <= n
<1>1. f.other \in {Unset, Placeholder, OwnKey} BY DEF FilesRecords, Chosen
<1> QED BY <1>1 DEF KeyOf, Placeholder, OwnKey

LEMMA AgedInit == InstallInit => AgedInv
<1> SUFFICES ASSUME InstallInit PROVE Aged
  BY OpenInit DEF AgedInv
<1>1. \A k \in AdminKeys : ~OldCookie(k) /\ ~NewCookie(k) BY DEF InstallInit, OldCookie, NewCookie
<1>2. \A k \in AdminKeys : ~OldWorker(k) /\ ~NewWorker(k)
  BY DEF InstallInit, NoWorker, OldWorker, NewWorker
<1>3. \A k \in AdminKeys : ~OldServer(k) /\ ~NewServer(k)
  BY DEF InstallInit, NoServer, OldServer, NewServer
<1>4. \A k \in AdminKeys : ~OldCopy(k) /\ ~NewCopy(k)
  <2>1. \A d \in Databases : db[d].key = NoKey BY DEF InstallInit
  <2> QED BY <2>1, KeysAndDatabases DEF NoKey, OldCopy, NewCopy
<1> QED BY <1>1, <1>2, <1>3, <1>4 DEF Aged, Old, New

(* A step that makes nothing old: what is new in use has the files' key. *)
LEMMA AgedKeeps ==
    ASSUME InstallTyped, InstallTyped', Aged, made <= made',
           \/ KeyOf(files') = KeyOf(files)
           \/ KeyOf(files') = made + 1,
           \A k \in AdminKeys : /\ Old(k)' => Old(k)
                                /\ New(k)' => New(k) \/ k = KeyOf(files) \/ k = KeyOf(files')
    PROVE  Aged'
<1>1. KeyOf(files) <= made /\ KeyOf(files') <= made' /\ made \in Nat /\ made' \in Nat
  <2>1. /\ files \in FilesRecords /\ files.user \in {Unset} \union 1..made /\ made \in Nat
        /\ files' \in FilesRecords /\ files'.user \in {Unset} \union 1..made' /\ made' \in Nat
    BY DEF InstallTyped
  <2> QED BY <2>1, KeyIsMade
<1>2. ASSUME NEW k \in AdminKeys, Old(k)'
      PROVE  ~New(k)' /\ k # KeyOf(files') /\ k <= made'
  <2>1. k \in Int BY DEF AdminKeys
  <2>2. Old(k) /\ ~New(k) /\ k # KeyOf(files) /\ k <= made BY <1>2 DEF Aged
  <2>3. k # KeyOf(files') BY <1>1, <2>1, <2>2
  <2> QED BY <1>1, <2>1, <2>2, <2>3
<1>3. ASSUME NEW k \in AdminKeys, New(k)' PROVE k <= made'
  <2>1. k \in Int BY DEF AdminKeys
  <2> QED BY <1>1, <1>3, <2>1 DEF Aged
<1> QED BY <1>2, <1>3 DEF Aged

(* What becomes of the ages when the owner changes the files. *)
LEMMA AgesReplaced ==
    ASSUME InstallTyped, NEW dbs \in [Databases -> DbRecords], KeyReplaced(dbs),
           \A d \in Databases : dbs[d].key = db[d].key, NEW k \in AdminKeys
    PROVE  ~New(k)' /\ (Old(k)' => Old(k) \/ New(k))
<1>0. /\ server \in ServerRecords /\ \A w \in Workers : worker[w] \in WorkerRecords
      /\ \A s \in sessions : s \in Cookies
      /\ \A d \in Databases : dbs[d] \in DbRecords
  BY DEF InstallTyped
<1>1. ~NewCookie(k)' /\ (OldCookie(k)' => OldCookie(k) \/ NewCookie(k))
  <2>1. sessions' = {[s EXCEPT !.old = TRUE] : s \in sessions} BY DEF KeyReplaced, Mark
  <2> QED BY <1>0, <2>1 DEF OldCookie, NewCookie, Cookies
<1>2. ~NewWorker(k)' /\ (OldWorker(k)' => OldWorker(k) \/ NewWorker(k))
  <2>1. worker' = [w \in Workers |-> [worker[w] EXCEPT !.fresh = FALSE]] BY DEF KeyReplaced, Mark
  <2>2. \A w \in Workers : /\ worker'[w].fresh = FALSE /\ worker'[w].key = worker[w].key
                           /\ worker'[w].stage = worker[w].stage
    BY <1>0, <2>1 DEF WorkerRecords
  <2> QED BY <2>2 DEF OldWorker, NewWorker
<1>3. ~NewServer(k)' /\ (OldServer(k)' => OldServer(k) \/ NewServer(k))
  <2>1. server' = [server EXCEPT !.changed = TRUE, !.fresh = FALSE] BY DEF KeyReplaced, Mark
  <2> QED BY <1>0, <2>1 DEF OldServer, NewServer, ServerRecords
<1>4. ~NewCopy(k)' /\ (OldCopy(k)' => OldCopy(k) \/ NewCopy(k))
  <2>1. db' = [d \in Databases |-> [dbs[d] EXCEPT !.key.old = (dbs[d].key.sealed # Unset)]]
    BY DEF KeyReplaced, Mark
  <2>2. \A d \in Databases : /\ db'[d].key.old <=> dbs[d].key.sealed # Unset
                             /\ db'[d].key.sealed = dbs[d].key.sealed
    BY <1>0, <2>1 DEF DbRecords, KeyRecords
  <2>3. \A d \in Databases : /\ db'[d].key.sealed = k => db'[d].key.old
                             /\ db'[d].key.sealed = db[d].key.sealed
    BY <2>2, KeysAndDatabases
  <2>4. ~NewCopy(k)' BY <2>3 DEF NewCopy
  <2>5. OldCopy(k)' => OldCopy(k) \/ NewCopy(k) BY <2>3 DEF OldCopy, NewCopy
  <2> QED BY <2>4, <2>5
<1> QED BY <1>1, <1>2, <1>3, <1>4 DEF Old, New

LEMMA AgesStay ==
    ASSUME InstallTyped, NEW dbs \in [Databases -> DbRecords], KeyStays(dbs),
           \A d \in Databases : dbs[d].key = db[d].key, NEW k \in AdminKeys
    PROVE  /\ Old(k)' => Old(k) /\ k # KeyOf(files')
           /\ New(k)' => New(k) \/ k = KeyOf(files')
<1> DEFINE still(age, key) == age /\ key # KeyOf(files')
<1>0. /\ server \in ServerRecords /\ \A w \in Workers : worker[w] \in WorkerRecords
      /\ \A s \in sessions : s \in Cookies
      /\ \A d \in Databases : dbs[d] \in DbRecords
  BY DEF InstallTyped
<1>1. (OldCookie(k)' => OldCookie(k) /\ k # KeyOf(files')) /\ (NewCookie(k)' => NewCookie(k) \/ k = KeyOf(files'))
  <2>1. sessions' = {[s EXCEPT !.old = still(s.old, s.key)] : s \in sessions} BY DEF KeyStays, Mark
  <2>2. \A s \in sessions, b \in BOOLEAN : [s EXCEPT !.old = b].key = s.key /\ [s EXCEPT !.old = b].old = b
    BY <1>0 DEF Cookies
  <2>3. \A t \in sessions' : \E s \in sessions : t.key = s.key /\ (t.old <=> still(s.old, s.key))
    <3>1. \A age, key : still(age, key) \in BOOLEAN OBVIOUS
    <3> HIDE DEF still
    <3>2. \A s \in sessions : /\ [s EXCEPT !.old = still(s.old, s.key)].key = s.key
                              /\ [s EXCEPT !.old = still(s.old, s.key)].old <=> still(s.old, s.key)
      BY <2>2, <3>1
    <3> TAKE t \in sessions'
    <3>3. PICK s \in sessions : t = [s EXCEPT !.old = still(s.old, s.key)] BY <2>1
    <3>4. t.key = s.key BY <3>2, <3>3
    <3>5. t.old <=> still(s.old, s.key) BY <3>2, <3>3, Zenon
    <3> QED BY <3>4, <3>5
  <2> QED BY <2>3 DEF OldCookie, NewCookie
<1>2. (OldWorker(k)' => OldWorker(k) /\ k # KeyOf(files')) /\ (NewWorker(k)' => NewWorker(k) \/ k = KeyOf(files'))
  <2>1. worker' = [w \in Workers |-> [worker[w] EXCEPT !.fresh = ~still(~worker[w].fresh, worker[w].key)]]
    BY DEF KeyStays, Mark
  <2>2. \A w \in Workers : /\ worker'[w].fresh <=> ~still(~worker[w].fresh, worker[w].key)
                           /\ worker'[w].key = worker[w].key /\ worker'[w].stage = worker[w].stage
    BY <1>0, <2>1 DEF WorkerRecords
  <2> QED BY <2>2 DEF OldWorker, NewWorker
<1>3. (OldServer(k)' => OldServer(k) /\ k # KeyOf(files')) /\ (NewServer(k)' => NewServer(k) \/ k = KeyOf(files'))
  <2>1. server' = [server EXCEPT !.changed = TRUE, !.fresh = ~still(~server.fresh, server.key)]
    BY DEF KeyStays, Mark
  <2>2. /\ server'.fresh <=> ~still(~server.fresh, server.key)
        /\ server'.key = server.key /\ server'.stage = server.stage
    BY <1>0, <2>1 DEF ServerRecords
  <2> QED BY <2>2 DEF OldServer, NewServer
<1>4. (OldCopy(k)' => OldCopy(k) /\ k # KeyOf(files')) /\ (NewCopy(k)' => NewCopy(k) \/ k = KeyOf(files'))
  <2>1. db' = [d \in Databases |-> [dbs[d] EXCEPT !.key.old =
                    (dbs[d].key.sealed # Unset /\ still(dbs[d].key.old, dbs[d].key.sealed))]]
    BY DEF KeyStays, Mark
  <2>2. \A d \in Databases : /\ db'[d].key.old <=> dbs[d].key.sealed # Unset /\ still(dbs[d].key.old, dbs[d].key.sealed)
                             /\ db'[d].key.sealed = db[d].key.sealed
    BY <1>0, <2>1 DEF DbRecords, KeyRecords
  <2> QED BY <1>0, <2>2, KeysAndDatabases DEF OldCopy, NewCopy
<1> QED BY <1>1, <1>2, <1>3, <1>4 DEF Old, New

(* What a step leaves in use, of each kind. *)
LEMMA CopiesMove ==
    ASSUME InstallTyped, Commands \/ \E w \in Workers : Serving(w), NEW k \in AdminKeys
    PROVE  /\ OldCopy(k)' => Old(k)
           /\ NewCopy(k)' => New(k) \/ k = KeyOf(files)
<1>1. ASSUME NEW d \in Databases, db'[d].key.sealed = k
      PROVE  /\ db'[d].key.old => Old(k)
             /\ ~db'[d].key.old => New(k) \/ k = KeyOf(files)
  <2>1. DataMoves(db'[d].key, db[d].key) BY DbMoves
  <2>2. CASE db'[d].key = db[d].key BY <1>1, <2>2 DEF Old, New, OldCopy, NewCopy
  <2>3. CASE db'[d].key.sealed = Unset BY <1>1, <2>3, KeysAndDatabases
  <2>4. CASE SealedAs(db'[d].key, KeyOf(files), FALSE) BY <1>1, <2>4 DEF SealedAs
  <2>5. ASSUME NEW w \in Workers, worker[w].stage = "up",
               SealedAs(db'[d].key, worker[w].key, ~worker[w].fresh)
        PROVE  /\ db'[d].key.old => Old(k)
               /\ ~db'[d].key.old => New(k) \/ k = KeyOf(files)
    <3>1. worker[w].key = k /\ worker[w].stage # "down" BY <1>1, <2>5 DEF SealedAs
    <3>2. db'[d].key.old <=> ~worker[w].fresh BY <2>5, Zenon DEF SealedAs
    <3> QED BY <3>1, <3>2 DEF Old, New, OldWorker, NewWorker
  <2> QED BY <2>1, <2>2, <2>3, <2>4, <2>5 DEF DataMoves
<1> QED BY <1>1 DEF OldCopy, NewCopy

LEMMA OthersStay ==
    ASSUME NEW k
    PROVE  /\ UNCHANGED sessions => (OldCookie(k)' <=> OldCookie(k)) /\ (NewCookie(k)' <=> NewCookie(k))
           /\ UNCHANGED worker => (OldWorker(k)' <=> OldWorker(k)) /\ (NewWorker(k)' <=> NewWorker(k))
           /\ UNCHANGED server => (OldServer(k)' <=> OldServer(k)) /\ (NewServer(k)' <=> NewServer(k))
           /\ UNCHANGED db => (OldCopy(k)' <=> OldCopy(k)) /\ (NewCopy(k)' <=> NewCopy(k))
BY DEF OldCookie, NewCookie, OldWorker, NewWorker, OldServer, NewServer, OldCopy, NewCopy

LEMMA AgedNext == AgedInv /\ [InstallNext]_installVars => AgedInv'
<1> SUFFICES ASSUME AgedInv, [InstallNext]_installVars PROVE AgedInv'
  OBVIOUS
<1>0. InstallTyped /\ InstallTyped' /\ OpenInv' /\ Attended /\ Aged
  BY OpenNext DEF AgedInv, OpenInv
<1> SUFFICES Aged'
  BY <1>0 DEF AgedInv
<1>t. /\ server \in ServerRecords /\ worker \in [Workers -> WorkerRecords] /\ made \in Nat /\ made' \in Nat
      /\ \A w \in Workers : worker[w] \in WorkerRecords
      /\ files' \in FilesRecords /\ files'.user \in {Unset} \union 1..made'
  BY <1>0 DEF InstallTyped
<1> DEFINE Calm == \A k \in AdminKeys : /\ Old(k)' => Old(k)
                                        /\ New(k)' => New(k) \/ k = KeyOf(files) \/ k = KeyOf(files')
<1>a. ASSUME Calm, (UNCHANGED <<files, made>>) \/ (files' = Ensured /\ MayMake(IF NeedsKey THEN 1 ELSE 0))
      PROVE  Aged'
  <2>1. made <= made' /\ (KeyOf(files') = KeyOf(files) \/ KeyOf(files') = made + 1)
    BY <1>0, <1>a, <1>t, EnsuredKey
  <2> QED BY <1>0, <1>a, <2>1, AgedKeeps
<1>1. ASSUME NEW open \in BOOLEAN, NEW multi \in BOOLEAN, Serve(open, multi) PROVE Aged'
  <2>1. files' = Ensured /\ MayMake(IF NeedsKey THEN 1 ELSE 0) /\ UNCHANGED <<db, worker, sessions>>
    BY <1>1 DEF Serve
  <2>2. \A k \in AdminKeys : /\ OldServer(k)' => OldServer(k)
                             /\ NewServer(k)' => NewServer(k) \/ k = KeyOf(files')
    BY <1>0, <1>1, ServeMoves DEF OldServer, NewServer
  <2>3. Calm BY <2>1, <2>2, OthersStay DEF Old, New
  <2> QED BY <1>a, <2>1, <2>3
<1>2. CASE Commands
  <2>1. \A k \in AdminKeys : (OldServer(k)' <=> OldServer(k)) /\ (NewServer(k)' <=> NewServer(k))
    <3>1. /\ server'.key = server.key /\ (server'.fresh <=> server.fresh)
          /\ (server'.stage = "down" <=> server.stage = "down")
      BY <1>2, <1>t, CommandsMoves DEF ServerRecords
    <3> QED BY <3>1 DEF OldServer, NewServer
  <2>2. Calm BY <1>0, <1>2, <2>1, CommandsMoves, CopiesMove, OthersStay DEF Old, New
  <2> QED BY <1>2, <1>a, <2>2, CommandsMoves
<1>3. CASE Stop
  <2>1. server' = NoServer /\ (\A w \in Workers : worker'[w] = NoWorker) /\ UNCHANGED <<files, made, db, sessions>>
    BY <1>3 DEF Stop
  <2>2. \A k \in AdminKeys : ~OldServer(k)' /\ ~NewServer(k)' /\ ~OldWorker(k)' /\ ~NewWorker(k)'
    BY <2>1 DEF OldServer, NewServer, OldWorker, NewWorker, NoServer, NoWorker
  <2>3. Calm BY <2>1, <2>2, OthersStay DEF Old, New
  <2> QED BY <1>a, <2>1, <2>3
<1>4. ASSUME NEW w \in Workers, CreateApp(w) PROVE Aged'
  <2>1. server.stage = "running" /\ UNCHANGED <<files, made, db, server, sessions>> BY <1>4 DEF CreateApp
  <2>2. \A v \in Workers : v # w => worker'[v] = worker[v] BY <1>0, <1>4, <1>t, CreateAppMoves
  <2>3. worker'[w].key = (IF server.multi THEN KeyOf(files) ELSE server.key)
        /\ (worker'[w].fresh <=> server.multi \/ server.fresh)
    BY <1>0, <1>4, CreateAppMoves DEF WorkerKey
  <2>4. \A k \in AdminKeys : /\ OldWorker(k)' => OldWorker(k) \/ OldServer(k)
                             /\ NewWorker(k)' => NewWorker(k) \/ NewServer(k) \/ k = KeyOf(files)
    BY <2>1, <2>2, <2>3 DEF OldWorker, NewWorker, OldServer, NewServer
  <2>5. Calm BY <2>1, <2>4, OthersStay DEF Old, New
  <2> QED BY <1>a, <2>1, <2>5
<1>5. ASSUME NEW w \in Workers, Serving(w) PROVE Aged'
  <2>1. UNCHANGED <<server, files, made, sessions>> BY <1>5, ServingMoves
  <2>2. worker[w].stage # "down"
    BY <1>5 DEF Serving, Lifespan, CreateKey, RevokeKey, Accepts
  <2>3. \A v \in Workers : /\ worker'[v].key = worker[v].key /\ (worker'[v].fresh <=> worker[v].fresh)
                           /\ (worker'[v].stage = "down" <=> worker[v].stage = "down")
    <3>1. CASE worker' = [worker EXCEPT ![w].stage = "up"]
      BY <1>t, <2>2, <3>1 DEF WorkerRecords
    <3> QED BY <1>5, <3>1, ServingMoves
  <2>4. \A k \in AdminKeys : (OldWorker(k)' => OldWorker(k)) /\ (NewWorker(k)' => NewWorker(k))
    BY <2>3 DEF OldWorker, NewWorker
  <2>5. Calm BY <1>0, <1>5, <2>1, <2>4, CopiesMove, OthersStay DEF Old, New
  <2> QED BY <1>a, <2>1, <2>5
<1>6. ASSUME NEW w \in Workers, WorkerDies(w) PROVE Aged'
  <2>1. UNCHANGED <<files, made, db, server, sessions>> BY <1>6 DEF WorkerDies
  <2>2. \A v \in Workers : worker'[v] = worker[v] \/ worker'[v].stage = "down"
    BY <1>6, <1>t DEF WorkerDies, NoWorker
  <2>3. \A k \in AdminKeys : (OldWorker(k)' => OldWorker(k)) /\ (NewWorker(k)' => NewWorker(k))
    BY <2>2 DEF OldWorker, NewWorker
  <2>4. Calm BY <2>1, <2>3, OthersStay DEF Old, New
  <2> QED BY <1>a, <2>1, <2>4
<1>7. ASSUME NEW w \in Workers, SignIn(w) PROVE Aged'
  <2>1. /\ UNCHANGED <<files, made, db, server, worker>> /\ worker[w].stage = "up"
        /\ sessions' = sessions \union {[key |-> worker[w].key, old |-> ~worker[w].fresh]}
    BY <1>7 DEF SignIn
  <2>2. \A k \in AdminKeys : /\ OldCookie(k)' => OldCookie(k) \/ OldWorker(k)
                             /\ NewCookie(k)' => NewCookie(k) \/ NewWorker(k)
    <3> TAKE k \in AdminKeys
    <3>1. ASSUME NEW s \in sessions', s \notin sessions
          PROVE  s.key = worker[w].key /\ (s.old <=> ~worker[w].fresh)
      <4>1. s = [key |-> worker[w].key, old |-> ~worker[w].fresh] BY <2>1, <3>1
      <4>2. s.old = ~worker[w].fresh BY <4>1, Zenon
      <4> QED BY <4>1, <4>2
    <3> QED BY <2>1, <3>1 DEF OldCookie, NewCookie, OldWorker, NewWorker
  <2>3. Calm BY <2>1, <2>2, OthersStay DEF Old, New
  <2> QED BY <1>a, <2>1, <2>3
<1>8. CASE \/ Rotate \/ InitForce \/ \E key \in Chosen : EditEnv(key)
           \/ \E d \in Databases : DbSetUrl(d) \/ UpdateDatabaseUrl(d)
  <2>1. PICK dbs \in [Databases -> DbRecords] :
             /\ \A d \in Databases : dbs[d].key = db[d].key
             /\ \/ KeyReplaced(dbs) /\ KeyOf(files') = made + 1 /\ made' = made + 1
                \/ KeyStays(dbs) /\ made <= made'
    BY <1>0, <1>8, FilesChange
  <2>2. \A k \in AdminKeys : k \in Int BY DEF AdminKeys
  <2>3. CASE KeyReplaced(dbs) /\ KeyOf(files') = made + 1 /\ made' = made + 1
    <3>1. \A k \in AdminKeys : ~New(k)' /\ (Old(k)' => Old(k) \/ New(k)) BY <1>0, <2>1, <2>3, AgesReplaced
    <3>2. \A k \in AdminKeys : Old(k)' => k <= made BY <1>0, <3>1 DEF Aged
    <3>3. \A k \in AdminKeys : Old(k)' => k # KeyOf(files') /\ k <= made'
      BY <1>t, <2>2, <2>3, <3>2
    <3> QED BY <3>1, <3>3 DEF Aged
  <2>4. CASE KeyStays(dbs) /\ made <= made'
    <3>1. \A k \in AdminKeys : /\ Old(k)' => Old(k) /\ k # KeyOf(files')
                               /\ New(k)' => New(k) \/ k = KeyOf(files')
      BY <1>0, <2>1, <2>4, AgesStay
    <3>2. KeyOf(files') <= made' BY <1>t, KeyIsMade
    <3>3. \A k \in AdminKeys : Old(k)' \/ New(k)' => k <= made'
      BY <1>0, <1>t, <2>2, <2>4, <3>1, <3>2 DEF Aged
    <3>4. \A k \in AdminKeys : Old(k)' => ~New(k)' /\ k # KeyOf(files')
      BY <1>0, <3>1 DEF Aged
    <3> QED BY <3>3, <3>4 DEF Aged
  <2> QED BY <2>1, <2>3, <2>4
<1>9. ASSUME NEW s \in sessions, SessionExpires(s) PROVE Aged'
  <2>1. UNCHANGED <<files, made, db, server, worker>> /\ sessions' \subseteq sessions
    BY <1>9 DEF SessionExpires
  <2>2. \A k \in AdminKeys : (OldCookie(k)' => OldCookie(k)) /\ (NewCookie(k)' => NewCookie(k))
    BY <2>1 DEF OldCookie, NewCookie
  <2>3. Calm BY <2>1, <2>2, OthersStay DEF Old, New
  <2> QED BY <1>a, <2>1, <2>3
<1>10. CASE UNCHANGED installVars
  <2>1. UNCHANGED <<files, made, db, server, worker, sessions>> BY <1>10 DEF installVars
  <2>2. Calm BY <2>1, OthersStay DEF Old, New
  <2> QED BY <1>a, <2>1, <2>2
<1> HIDE DEF Calm
<1> QED BY <1>1, <1>2, <1>3, <1>4, <1>5, <1>6, <1>7, <1>8, <1>9, <1>10
        DEF InstallNext, Commands, Serving, Chosen

(* Once the admin key is replaced and the server restarted, no session from    *)
(* before is accepted and no sealed copy from before is revealed: what is in   *)
(* use under a key is all from before its replacement or all from since        *)
(* (admin-key --rotate, init --force, require_admin, unseal).                *)
THEOREM OldSecretsDie == InstallSpec => []OldSecretsAreDead
<1>1. AgedInv => OldSecretsAreDead
  <2> SUFFICES ASSUME AgedInv, NEW w \in Workers, worker[w].fresh
               PROVE  /\ \A s \in sessions : s.old => ~Accepts(w, s)
                      /\ db[worker[w].db].key.old => ~Reveals(w)
    BY DEF OldSecretsAreDead
  <2>1. worker[w] \in WorkerRecords /\ Aged BY DEF AgedInv, OpenInv, InstallTyped
  <2>2. worker[w].key \in AdminKeys /\ worker[w].db \in Databases BY <2>1 DEF WorkerRecords
  <2>3. worker[w].stage = "up" => New(worker[w].key) BY <2>2 DEF New, NewWorker
  <2>4. worker[w].stage = "up" => ~Old(worker[w].key) BY <2>1, <2>2, <2>3 DEF Aged
  <2>5. \A s \in sessions : s.old => ~Accepts(w, s)
    BY <2>4 DEF Accepts, Old, OldCookie
  <2>6. db[worker[w].db].key.old => ~Reveals(w)
    BY <2>2, <2>4 DEF Reveals, Old, OldCopy
  <2> QED BY <2>5, <2>6
<1> QED BY <1>1, AgedInit, AgedNext, PTL DEF InstallSpec

=============================================================================
