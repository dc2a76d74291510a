---------------------------- MODULE ChatTurnProofs ----------------------------
(***************************************************************************)
(* A turn gives its slot back and is billed once, whatever fails and whenever *)
(* its client hangs up: the proofs, for any requests, backends and routes;     *)
(* and a stream that is read to its end is the whole reply, for any of them.   *)
(***************************************************************************)
EXTENDS ChatTurn, Replies, FiniteSetTheorems, SequenceTheorems, TLAPS

(* What the proofs need of the types; how far a route goes is immaterial.      *)
TurnTyped ==
  /\ stage \in [Request -> TurnPlace]
  /\ current \in [Request -> Nat]
  /\ text \in [Request -> Nat]
  /\ writing \subseteq Request
  /\ billed \in [Request -> Nat]

(* A lease is the one on the current target, and there is one only where a     *)
(* generator or a call may still be at work.                                 *)
Working == {"ready", "connecting", "reading", "sending", "failing", "finishing",
            "abandoned", "calling"}

HeldWhereWorking ==
  \A h \in held : /\ h[1] \in Request /\ h = <<h[1], current[h[1]]>>
                  /\ stage[h[1]] \in Working

(* A generator that has not started is at its first target: the BackgroundTask *)
(* of its response knows only that lease.                                    *)
FirstTargetFirst ==
  \A r \in Request :
    /\ stage[r] = "away" => current[r] = 1
    /\ stage[r] \in {"asking", "ready"} /\ r \in Streamed => current[r] = 1
    /\ stage[r] = "ready" => r \in Streamed
    /\ stage[r] = "calling" => r \notin Streamed

(* Nothing is billed before the end, and only one of the two ways to bill is   *)
(* taken then.                                                              *)
BilledAtTheEnd ==
  \A r \in Request :
    /\ stage[r] # "over" => billed[r] = 0 /\ r \notin writing
    /\ billed[r] <= 1 /\ (r \in writing => billed[r] = 0)

(* There is no text before the first chunk or the whole answer.               *)
NoTextYet ==
  \A r \in Request :
    stage[r] \in {"away", "asking", "ready", "connecting", "switching", "calling"} => text[r] = 0

TurnInv == TurnTyped /\ HeldWhereWorking /\ FirstTargetFirst /\ BilledAtTheEnd /\ NoTextYet

-----------------------------------------------------------------------------

LEMMA InitTurnInv == TurnInit => TurnInv
BY DEF TurnInit, TurnInv, TurnTyped, TurnPlace, HeldWhereWorking, FirstTargetFirst,
       BilledAtTheEnd, NoTextYet

(* A turn moves on, perhaps with more text or billed in a way that is allowed, *)
(* and keeps what it holds or gives it back.                                 *)
LEMMA TurnMoves ==
  ASSUME TurnInv, NEW r \in Request, NEW place \in TurnPlace, NEW length \in Nat,
         stage' = [stage EXCEPT ![r] = place],
         text' = [text EXCEPT ![r] = length],
         UNCHANGED current,
         held' \subseteq held,
         <<r, current[r]>> \in held' => place \in Working,
         place # "away", place \notin {"asking", "calling"} \/ place = stage[r],
         place = "ready" => stage[r] = "ready",
         place \in {"asking", "ready", "connecting", "switching", "calling"} => length = 0,
         writing' \subseteq Request, billed' \in [Request -> Nat],
         \A q \in Request \ {r} : billed'[q] = billed[q] /\ (q \in writing' <=> q \in writing),
         place # "over" => billed'[r] = 0 /\ r \notin writing',
         billed'[r] <= 1 /\ (r \in writing' => billed'[r] = 0)
  PROVE  TurnInv'
<1> USE DEF TurnInv
<1>1. /\ stage'[r] = place /\ text'[r] = length
      /\ \A q \in Request \ {r} : stage'[q] = stage[q] /\ text'[q] = text[q]
  BY DEF TurnTyped
<1>2. TurnTyped'
  BY DEF TurnTyped
<1>3. HeldWhereWorking'
  BY <1>1 DEF HeldWhereWorking
<1>4. FirstTargetFirst'
  BY <1>1 DEF FirstTargetFirst
<1>5. BilledAtTheEnd'
  BY <1>1 DEF BilledAtTheEnd
<1>6. NoTextYet'
  BY <1>1 DEF NoTextYet
<1> QED
  BY <1>2, <1>3, <1>4, <1>5, <1>6

(* A turn asks for a backend's slot, gets it or is refused it.                 *)
LEMMA TurnAsks ==
  ASSUME TurnInv, NEW r \in Request,
         Arrive(r) \/ CacheHit(r) \/ TakeSlot(r) \/ RefuseSlot(r) \/ Switch(r) \/ CallNext(r)
  PROVE  TurnInv'
<1> USE DEF TurnInv, TurnTyped, HeldWhereWorking, FirstTargetFirst, BilledAtTheEnd, NoTextYet,
            Working, TurnPlace, TurnGoto
<1>1. CASE Arrive(r)
  BY <1>1 DEF Arrive
<1>2. CASE CacheHit(r)
  BY <1>2 DEF CacheHit
<1>3. CASE TakeSlot(r)
  BY <1>3 DEF TakeSlot
<1>4. CASE RefuseSlot(r)
  BY <1>4 DEF RefuseSlot
<1>5. CASE Switch(r)
  BY <1>5 DEF Switch, Released
<1>6. CASE CallNext(r)
  BY <1>6 DEF CallNext, Released
<1> QED
  BY <1>1, <1>2, <1>3, <1>4, <1>5, <1>6

(* The upstream answers, or fails, and the client is sent what it said.        *)
LEMMA TurnReplies ==
  ASSUME TurnInv, NEW r \in Request,
         \/ Begin(r) \/ Chunk(r) \/ Sent(r) \/ UpstreamFails(r) \/ UpstreamEnds(r)
         \/ Answer(r) \/ CallEnds(r)
  PROVE  TurnInv'
<1> USE DEF TurnInv, TurnTyped, FirstTargetFirst, BilledAtTheEnd, NoTextYet,
            Working, TurnPlace, TurnGoto, HeldWhereWorking
<1>1. CASE Begin(r)
  BY <1>1, TurnMoves DEF Begin
<1>2. CASE Chunk(r)
  <2>1. PICK n \in {0, 1} : text' = [text EXCEPT ![r] = @ + n]
    BY <1>2 DEF Chunk
  <2>2. text[r] + n \in Nat /\ text' = [text EXCEPT ![r] = text[r] + n]
    BY <2>1
  <2> QED
    BY <1>2, <2>2, TurnMoves DEF Chunk
<1>3. CASE Sent(r)
  BY <1>3, TurnMoves DEF Sent
<1>4. CASE UpstreamFails(r)
  BY <1>4, TurnMoves DEF UpstreamFails
<1>5. CASE UpstreamEnds(r)
  BY <1>5, TurnMoves DEF UpstreamEnds
<1>6. CASE Answer(r)
  BY <1>6, TurnMoves DEF Answer, Released
<1>7. CASE CallEnds(r)
  BY <1>7, TurnMoves DEF CallEnds, Released
<1> QED
  BY <1>1, <1>2, <1>3, <1>4, <1>5, <1>6, <1>7

(* What was left to a task of its own is billed.                              *)
LEMMA WriteEnds ==
  ASSUME TurnInv, NEW r \in Request, WriteDone(r)
  PROVE  TurnInv'
<1>1. stage[r] = "over" /\ billed[r] = 0
  BY DEF WriteDone, TurnInv, BilledAtTheEnd
<1>2. billed' = [billed EXCEPT ![r] = 1] /\ writing' = writing \ {r}
  BY <1>1 DEF WriteDone
<1>3. TurnTyped' /\ BilledAtTheEnd'
  BY <1>1, <1>2 DEF WriteDone, TurnInv, TurnTyped, BilledAtTheEnd
<1>4. HeldWhereWorking' /\ FirstTargetFirst' /\ NoTextYet'
  BY DEF WriteDone, TurnInv, HeldWhereWorking, FirstTargetFirst, NoTextYet
<1> QED
  BY <1>3, <1>4 DEF TurnInv

(* A turn is billed by the generator or the handler itself.                    *)
LEMMA RecordingEnds ==
  ASSUME TurnInv, NEW r \in Request, Recorded(r)
  PROVE  TurnInv'
<1>1. billed[r] = 0 /\ r \notin writing
  BY DEF Recorded, TurnInv, BilledAtTheEnd
<1>2. billed' = [billed EXCEPT ![r] = 1] /\ stage' = [stage EXCEPT ![r] = "over"]
  BY <1>1 DEF Recorded, TurnGoto
<1>3. TurnTyped'
  BY <1>2 DEF Recorded, TurnInv, TurnTyped, TurnPlace
<1>4. BilledAtTheEnd'
  BY <1>1, <1>2 DEF Recorded, TurnInv, TurnTyped, BilledAtTheEnd
<1>5. stage[r] \notin Working
  BY DEF Recorded, Working
<1>6. HeldWhereWorking' /\ FirstTargetFirst' /\ NoTextYet'
  BY <1>2, <1>5 DEF Recorded, TurnInv, TurnTyped, HeldWhereWorking, FirstTargetFirst, NoTextYet
<1> QED
  BY <1>3, <1>4, <1>6 DEF TurnInv

(* A turn ends: it is recorded, cut by its client, or closed by the event loop. *)
LEMMA TurnEnds ==
  ASSUME TurnInv, NEW r \in Request,
         \/ FailureSent(r) \/ DoneSent(r) \/ Recorded(r) \/ WriteDone(r)
         \/ Cut(r) \/ Finalise(r) \/ HangUp(r)
  PROVE  TurnInv'
<1> USE DEF TurnInv, TurnTyped, FirstTargetFirst, BilledAtTheEnd, NoTextYet,
            Working, TurnPlace, TurnGoto, HeldWhereWorking
<1>1. CASE FailureSent(r)
  BY <1>1, TurnMoves DEF FailureSent, Unwound, Released
<1>2. CASE DoneSent(r)
  BY <1>2, TurnMoves DEF DoneSent, Released
<1>3. CASE Recorded(r)
  BY <1>3, RecordingEnds
<1>4. CASE WriteDone(r)
  BY <1>4, WriteEnds
<1>5. CASE CutBeforeStart(r)
  BY <1>5, TurnMoves DEF CutBeforeStart, Released
<1>6. CASE CutInside(r)
  BY <1>6, TurnMoves DEF CutInside, Unwound, Released
<1>7. CASE CutAtYield(r)
  BY <1>7, TurnMoves DEF CutAtYield, Released
<1>8. CASE CutRecording(r)
  BY <1>8, TurnMoves DEF CutRecording, Released
<1>9. CASE Finalise(r)
  BY <1>9, TurnMoves DEF Finalise, Unwound, Released
<1>10. CASE HangUp(r)
  BY <1>10 DEF HangUp
<1> QED
  BY <1>1, <1>2, <1>3, <1>4, <1>5, <1>6, <1>7, <1>8, <1>9, <1>10 DEF Cut

(* Every step keeps the invariant.                                           *)
LEMMA TurnStep == TurnInv /\ [TurnNext]_turnVars => TurnInv'
<1> SUFFICES ASSUME TurnInv, [TurnNext]_turnVars PROVE TurnInv'
  OBVIOUS
<1>1. ASSUME NEW r \in Request,
             Arrive(r) \/ CacheHit(r) \/ TakeSlot(r) \/ RefuseSlot(r) \/ Proceed(r)
               \/ WriteDone(r) \/ HangUp(r)
      PROVE  TurnInv'
  BY <1>1, TurnAsks, TurnReplies, TurnEnds DEF Proceed
<1>2. CASE UNCHANGED turnVars
  BY <1>2 DEF turnVars, TurnInv, TurnTyped, HeldWhereWorking, FirstTargetFirst,
              BilledAtTheEnd, NoTextYet
<1> QED
  BY <1>1, <1>2 DEF TurnNext

LEMMA AlwaysTurnInv == TurnSpec => []TurnInv
BY InitTurnInv, TurnStep, PTL DEF TurnSpec
-----------------------------------------------------------------------------
(* The theorems. *)

(* However a turn fails over, fails or is hung up, it holds at most one slot,   *)
(* none while it asks for one, and none once it is over (chat.py, Lease).      *)
THEOREM SlotsGoBack == TurnSpec => []SlotsFollowTheTurn
<1>1. TurnInv => SlotsFollowTheTurn
  BY DEF TurnInv, HeldWhereWorking, Working, SlotsFollowTheTurn
<1> QED
  BY <1>1, AlwaysTurnInv, PTL

(* No turn is billed twice, or billed and still to be billed (record(),        *)
(* _pending_writes).                                                        *)
THEOREM TurnsAreBilledOnce == TurnSpec => []BilledOnce
<1>1. ASSUME TurnInv, NEW r \in Request
      PROVE  billed[r] + Cardinality({r} \cap writing)
               + (IF stage[r] \in {"recording", "noting"} THEN 1 ELSE 0) <= 1
  <2>1. CASE r \in writing
    <3>1. {r} \cap writing = {r}
      BY <2>1
    <3>2. stage[r] = "over" /\ billed[r] = 0
      BY <1>1, <2>1 DEF TurnInv, BilledAtTheEnd
    <3>3. Cardinality({r} \cap writing) = 1
      BY <3>1, FS_Singleton
    <3> QED
      BY <3>2, <3>3
  <2>2. CASE r \notin writing
    <3>1. {r} \cap writing = {}
      BY <2>2
    <3>2. billed[r] \in {0, 1} /\ (stage[r] # "over" => billed[r] = 0)
      BY <1>1 DEF TurnInv, TurnTyped, BilledAtTheEnd
    <3>3. Cardinality({r} \cap writing) = 0
      BY <3>1, FS_EmptySet
    <3> QED
      BY <3>2, <3>3
  <2> QED
    BY <2>1, <2>2
<1>2. TurnInv => BilledOnce
  BY <1>1 DEF BilledOnce
<1> QED
  BY <1>2, AlwaysTurnInv, PTL

(* A turn with text ends unbilled in one way only: its client hangs up while    *)
(* the finished turn is being recorded (chat.py:423).                         *)
THEOREM OnlyTheRecordingIsLost == TurnSpec => OnlyRecordingIsCutUnbilled
<1> DEFINE EndsBilled(r) == stage[r] # "over" /\ stage'[r] = "over" /\ text'[r] > 0
                            => Billing(r)' \/ (stage[r] = "recording" /\ gone[r])
<1>1. ASSUME TurnInv, NEW q \in Request, NEW r \in Request,
             Arrive(q) \/ CacheHit(q) \/ TakeSlot(q) \/ RefuseSlot(q) \/ Proceed(q)
               \/ WriteDone(q) \/ HangUp(q)
      PROVE  EndsBilled(r)
  <2> USE <1>1 DEF TurnInv, TurnTyped, NoTextYet, TurnGoto, Billing
  <2>1. CASE Arrive(q) \/ CacheHit(q) \/ TakeSlot(q) \/ RefuseSlot(q)
    BY <2>1 DEF Arrive, CacheHit, TakeSlot, RefuseSlot
  <2>2. CASE Begin(q) \/ Chunk(q) \/ Sent(q) \/ Switch(q) \/ UpstreamFails(q) \/ UpstreamEnds(q)
    BY <2>2 DEF Begin, Chunk, Sent, Switch, UpstreamFails, UpstreamEnds
  <2>3. CASE DoneSent(q) \/ Answer(q) \/ CallNext(q) \/ CallEnds(q)
    BY <2>3 DEF DoneSent, Answer, CallNext, CallEnds
  <2>4. CASE FailureSent(q) \/ CutInside(q) \/ Finalise(q)
    BY <2>4 DEF FailureSent, CutInside, Finalise, Unwound
  <2>5. CASE Recorded(q)
    BY <2>5 DEF Recorded
  <2>6. CASE CutBeforeStart(q) \/ CutAtYield(q) \/ CutRecording(q)
    BY <2>6 DEF CutBeforeStart, CutAtYield, CutRecording
  <2>7. CASE WriteDone(q) \/ HangUp(q)
    BY <2>7 DEF WriteDone, HangUp
  <2> QED
    BY <2>1, <2>2, <2>3, <2>4, <2>5, <2>6, <2>7 DEF Proceed, Cut
<1>2. TurnInv /\ [TurnNext]_turnVars => [\A r \in Request : EndsBilled(r)]_turnVars
  BY <1>1 DEF TurnNext
<1> QED
  BY <1>2, AlwaysTurnInv, PTL DEF TurnSpec, OnlyRecordingIsCutUnbilled

-----------------------------------------------------------------------------
(* Replies: what a reader has of a stream is what the server has sent of it, so  *)
(* far as it goes.                                                         *)

(* What has been read is what was sent: of the text a beginning, of each call   *)
(* that was begun a beginning under its place, from 0 on. A server that sends  *)
(* calls whole has sent the first toolIndex of them.                         *)
Begun == {i \in Calls : sent.calls[i] > 0}
RepliesTyped ==
    /\ reply \in Answers /\ native \in BOOLEAN /\ toolIndex \in Nat
    /\ sent \in [text : 0..Len(reply.text), calls : [Calls -> Nat]]
    /\ \A i \in Calls : sent.calls[i] <= Len(reply.calls[i])
    /\ collected = [text |-> collected.text, calls |-> collected.calls]
CallsCollected ==
    /\ DOMAIN collected.calls = {i - 1 : i \in Begun}
    /\ \A i \in Begun : collected.calls[i - 1] = SubSeq(reply.calls[i], 1, sent.calls[i])
SentInOrder ==
    native => /\ toolIndex <= Len(reply.calls)
              /\ \A i \in Calls : sent.calls[i] = IF i <= toolIndex THEN Len(reply.calls[i]) ELSE 0
EndsWhole == reading = "ended" => sent = All /\ finish = FinishReason(reply.calls # <<>>)
RepliesInv ==
    /\ RepliesTyped
    /\ ~spoiled => /\ collected.text = SubSeq(reply.text, 1, sent.text)
                   /\ reading # "stopped" => CallsCollected /\ SentInOrder
                   /\ EndsWhole

-----------------------------------------------------------------------------
LEMMA RepliesAre ==
    ASSUME NEW a \in Answers
    PROVE  /\ a.text \in Seq(Tokens) /\ Len(a.text) \in Nat
           /\ Len(a.calls) \in Nat /\ DOMAIN a.calls = 1..Len(a.calls)
           /\ \A i \in DOMAIN a.calls : a.calls[i] \in Seq(Tokens) /\ Len(a.calls[i]) \in Nat \ {0}
           /\ a.calls # <<>> <=> Len(a.calls) > 0
<1>1. a.text \in Seq(Tokens) /\ a.calls \in Seq(Seq(Tokens) \ {<<>>}) BY RepliesAssumption
<1>2. Len(a.text) \in Nat BY <1>1, LenProperties
<1>3. Len(a.calls) \in Nat /\ DOMAIN a.calls = 1..Len(a.calls)
      /\ \A i \in DOMAIN a.calls : a.calls[i] \in Seq(Tokens) \ {<<>>}
  BY <1>1, LenProperties
<1>4. \A s \in Seq(Tokens) \ {<<>>} : Len(s) \in Nat \ {0} BY EmptySeq, LenProperties
<1>5. a.calls # <<>> <=> Len(a.calls) > 0 BY <1>1, <1>3, EmptySeq
<1> QED BY <1>1, <1>2, <1>3, <1>4, <1>5

(* Every frame is of what was not sent yet.                                  *)
LEMMA FramesAdvance ==
    ASSUME RepliesInv, NEW f \in Frames \union {sent}
    PROVE  /\ f \in [text : 0..Len(reply.text), calls : [Calls -> Nat]]
           /\ sent.text <= f.text
           /\ \A i \in Calls : sent.calls[i] <= f.calls[i] /\ f.calls[i] <= Len(reply.calls[i])
<1>1. /\ reply \in Answers /\ sent \in [text : 0..Len(reply.text), calls : [Calls -> Nat]]
      /\ \A i \in Calls : sent.calls[i] <= Len(reply.calls[i])
  BY DEF RepliesInv, RepliesTyped
<1>2. \A i \in Calls : Len(reply.calls[i]) \in Nat /\ sent.calls[i] \in Nat BY <1>1, RepliesAre DEF Calls
<1>3. Len(reply.text) \in Nat /\ sent.text \in 0..Len(reply.text) BY <1>1, RepliesAre
<1>4. CASE f = sent BY <1>1, <1>2, <1>3, <1>4
<1>5. CASE f \in Frames
  <2>1. PICK n \in sent.text..Len(reply.text), parts \in NextParts : f = [text |-> n, calls |-> parts]
    BY <1>5 DEF Frames
  <2>2. parts \in [Calls -> Nat] /\ \A i \in Calls : sent.calls[i] <= parts[i] /\ parts[i] <= Len(reply.calls[i])
    <3>1. CASE native
      <4>1. PICK last \in {0} \union Unsent :
                    parts = [i \in Calls |-> IF i <= last THEN Len(reply.calls[i]) ELSE sent.calls[i]]
        BY <3>1 DEF NextParts
      <4> QED BY <1>1, <1>2, <4>1
    <3>2. CASE ~native
      <4>1. PICK one \in {0} \union Unsent : parts = [i \in Calls |-> sent.calls[i] + (IF i = one THEN 1 ELSE 0)]
        BY <3>2 DEF NextParts
      <4>2. \A i \in Calls : i = one => sent.calls[i] < Len(reply.calls[i])
        <5>1. 0 \notin Calls BY <1>1, RepliesAre DEF Calls
        <5> QED BY <4>1, <5>1 DEF Unsent
      <4>3. ASSUME NEW i \in Calls PROVE parts[i] \in Nat /\ sent.calls[i] <= parts[i] /\ parts[i] <= Len(reply.calls[i])
        <5>1. CASE i = one
          <6>1. parts[i] = sent.calls[i] + 1 /\ sent.calls[i] < Len(reply.calls[i]) BY <4>1, <4>2, <5>1
          <6> QED BY <1>2, <6>1
        <5>2. CASE i # one
          <6>1. parts[i] = sent.calls[i] BY <1>2, <4>1, <5>2
          <6> QED BY <1>1, <1>2, <6>1
        <5> QED BY <5>1, <5>2
      <4> QED BY <4>1, <4>3
    <3> QED BY <3>1, <3>2
  <2>3. n \in 0..Len(reply.text) /\ sent.text <= n BY <1>3, <2>1
  <2> QED BY <2>1, <2>2, <2>3
<1> QED BY <1>4, <1>5

(* A native frame carries the next calls, one after the other.                 *)
LEMMA NativeFrame ==
    ASSUME RepliesInv, SentInOrder, native, NEW f \in Frames \union {sent}
    PROVE  \E last \in toolIndex..Len(reply.calls) :
              /\ \A i \in Calls : f.calls[i] = IF i <= last THEN Len(reply.calls[i]) ELSE 0
              /\ Parts(f) = (toolIndex + 1)..last
<1>1. /\ reply \in Answers /\ toolIndex \in Nat /\ toolIndex <= Len(reply.calls)
      /\ \A i \in Calls : sent.calls[i] = IF i <= toolIndex THEN Len(reply.calls[i]) ELSE 0
  BY DEF RepliesInv, RepliesTyped, SentInOrder
<1>2. /\ Len(reply.calls) \in Nat /\ Calls = 1..Len(reply.calls)
      /\ \A i \in Calls : Len(reply.calls[i]) \in Nat \ {0}
  BY <1>1, RepliesAre DEF Calls
<1>3. ASSUME NEW last \in toolIndex..Len(reply.calls),
             \A i \in Calls : f.calls[i] = IF i <= last THEN Len(reply.calls[i]) ELSE 0
      PROVE  Parts(f) = (toolIndex + 1)..last
  <2>1. \A i \in Calls : f.calls[i] # sent.calls[i] <=> toolIndex < i /\ i <= last BY <1>1, <1>2, <1>3
  <2>2. \A i : i \in (toolIndex + 1)..last <=> i \in Calls /\ toolIndex < i /\ i <= last BY <1>1, <1>2
  <2> QED BY <2>1, <2>2 DEF Parts
<1>4. CASE f = sent
  <2>1. toolIndex \in toolIndex..Len(reply.calls) BY <1>1, <1>2
  <2> QED BY <1>1, <1>3, <1>4, <2>1
<1>5. CASE f \in Frames
  <2>1. PICK n \in sent.text..Len(reply.text), parts \in NextParts : f = [text |-> n, calls |-> parts]
    BY <1>5 DEF Frames
  <2>2. PICK last \in {0} \union Unsent :
                parts = [i \in Calls |-> IF i <= last THEN Len(reply.calls[i]) ELSE sent.calls[i]]
    BY <2>1 DEF NextParts
  <2>3. f.calls = parts BY <2>1
  <2>4. CASE last = 0
    <3>1. toolIndex \in toolIndex..Len(reply.calls) BY <1>1, <1>2
    <3>2. \A i \in Calls : f.calls[i] = sent.calls[i] BY <1>2, <2>2, <2>3, <2>4
    <3> QED BY <1>1, <1>3, <3>1, <3>2
  <2>5. CASE last \in Unsent
    <3>1. last \in Calls /\ sent.calls[last] < Len(reply.calls[last]) BY <2>5 DEF Unsent
    <3>2. last \in toolIndex..Len(reply.calls) BY <1>1, <1>2, <3>1
    <3>3. \A i \in Calls : f.calls[i] = IF i <= last THEN Len(reply.calls[i]) ELSE 0
      BY <1>1, <1>2, <2>2, <2>3, <3>2
    <3> QED BY <1>3, <3>2, <3>3
  <2> QED BY <2>2, <2>4, <2>5
<1> QED BY <1>4, <1>5

LEMMA BeforeIs ==
    ASSUME NEW a \in Nat, NEW b \in Int, NEW n \in a..b
    PROVE  Before(a..b, n) = n - a
<1>1. {m \in a..b : m < n} = a..(n - 1) OBVIOUS
<1>2. n - 1 \in Int /\ (a > n - 1 <=> n = a) OBVIOUS
<1>3. Cardinality(a..(n - 1)) = n - a
  <2>1. Cardinality(a..(n - 1)) = IF a > n - 1 THEN 0 ELSE (n - 1) - a + 1 BY <1>2, FS_Interval
  <2> QED BY <1>2, <2>1
<1> QED BY <1>1, <1>3 DEF Before

(* So every fragment has the place of its call for a number.                    *)
LEMMA NumbersAre ==
    ASSUME RepliesInv, SentInOrder, NEW f \in Frames \union {sent}
    PROVE  /\ \A i \in Parts(f) : Number(f, i) = i - 1
           /\ native => /\ Advanced(f) \in toolIndex..Len(reply.calls)
                        /\ \A i \in Calls : f.calls[i] = IF i <= Advanced(f) THEN Len(reply.calls[i]) ELSE 0
<1>1. CASE ~native BY <1>1 DEF Number
<1>2. CASE native
  <2>1. PICK last \in toolIndex..Len(reply.calls) :
              /\ \A i \in Calls : f.calls[i] = IF i <= last THEN Len(reply.calls[i]) ELSE 0
              /\ Parts(f) = (toolIndex + 1)..last
    BY <1>2, NativeFrame
  <2>2. toolIndex \in Nat /\ Len(reply.calls) \in Nat BY RepliesAre DEF RepliesInv, RepliesTyped
  <2>3. ASSUME NEW i \in Parts(f) PROVE Before(Parts(f), i) = i - (toolIndex + 1)
    <3>1. toolIndex + 1 \in Nat /\ last \in Int /\ i \in (toolIndex + 1)..last BY <2>1, <2>2
    <3>2. Before((toolIndex + 1)..last, i) = i - (toolIndex + 1) BY <3>1, BeforeIs
    <3> QED BY <2>1, <3>2
  <2>4. \A i \in Parts(f) : Number(f, i) = i - 1 BY <1>2, <2>1, <2>2, <2>3 DEF Number
  <2>5. Cardinality(Parts(f)) = last - toolIndex
    <3>1. toolIndex + 1 \in Int /\ last \in Int BY <2>2
    <3>2. Cardinality((toolIndex + 1)..last) = IF toolIndex + 1 > last THEN 0 ELSE last - (toolIndex + 1) + 1
      BY <3>1, FS_Interval
    <3> QED BY <2>1, <2>2, <3>2
  <2>6. Advanced(f) = last BY <1>2, <2>1, <2>2, <2>5 DEF Advanced
  <2> QED BY <2>1, <2>4, <2>6
<1> QED BY <1>1, <1>2

LEMMA TextCollected ==
    ASSUME RepliesInv, collected.text = SubSeq(reply.text, 1, sent.text), NEW f \in Frames \union {sent}
    PROVE  collected.text \o Delta(f).text = SubSeq(reply.text, 1, f.text)
<1>1. reply \in Answers /\ sent.text \in 0..Len(reply.text) BY DEF RepliesInv, RepliesTyped
<1>2. reply.text \in Seq(Tokens) /\ Len(reply.text) \in Nat BY <1>1, RepliesAre
<1>3. f.text \in sent.text..Len(reply.text) BY <1>1, <1>2, FramesAdvance
<1>4. 1 \in 1..(Len(reply.text) + 1) /\ sent.text \in (1 - 1)..Len(reply.text) BY <1>1, <1>2
<1>5. SubSeq(reply.text, 1, sent.text) \o SubSeq(reply.text, sent.text + 1, f.text) = SubSeq(reply.text, 1, f.text)
  BY <1>2, <1>3, <1>4, ConcatAdjacentSubSeq
<1> QED BY <1>5 DEF Delta

(* The fragments of a frame go behind what their calls have so far.             *)
LEMMA CallsJoin ==
    ASSUME RepliesInv, SentInOrder, CallsCollected, NEW f \in Frames \union {sent}
    PROVE  LET calls == Collect(Delta(f)).calls
               Begins == {i \in Calls : f.calls[i] > 0}
           IN /\ DOMAIN calls = {i - 1 : i \in Begins}
              /\ \A i \in Begins : calls[i - 1] = SubSeq(reply.calls[i], 1, f.calls[i])
<1> DEFINE calls == Collect(Delta(f)).calls
           Begins == {i \in Calls : f.calls[i] > 0}
           part(i) == SubSeq(reply.calls[i], sent.calls[i] + 1, f.calls[i])
           brought == {[index |-> i - 1, part |-> part(i)] : i \in Parts(f)}
<1>1. /\ reply \in Answers /\ f.calls \in [Calls -> Nat] /\ sent.calls \in [Calls -> Nat]
      /\ \A i \in Calls : sent.calls[i] <= f.calls[i] /\ f.calls[i] <= Len(reply.calls[i])
  BY FramesAdvance DEF RepliesInv, RepliesTyped
<1>2. Calls \subseteq Int /\ \A i \in Calls : reply.calls[i] \in Seq(Tokens) /\ Len(reply.calls[i]) \in Nat
  BY <1>1, RepliesAre DEF Calls
<1>3. Delta(f).calls = brought
  <2> DEFINE said(i) == [index |-> Number(f, i), part |-> part(i)]
             placed(i) == [index |-> i - 1, part |-> part(i)]
  <2>1. Delta(f).calls = {said(i) : i \in Parts(f)} BY DEF Delta
  <2>2. \A i \in Parts(f) : said(i) = placed(i) BY NumbersAre
  <2>3. brought = {placed(i) : i \in Parts(f)} OBVIOUS
  <2> HIDE DEF said, placed, brought
  <2>4. \A x : x \in {said(i) : i \in Parts(f)} <=> x \in {placed(i) : i \in Parts(f)} BY <2>2
  <2>5. {said(i) : i \in Parts(f)} = {placed(i) : i \in Parts(f)} BY <2>4, Zenon
  <2> QED BY <2>1, <2>3, <2>5
<1>4. {call.index : call \in brought} = {i - 1 : i \in Parts(f)}
  <2>1. ASSUME NEW i \in Parts(f) PROVE \E call \in brought : call.index = i - 1
    <3>1. [index |-> i - 1, part |-> part(i)] \in brought OBVIOUS
    <3> QED BY <3>1
  <2>2. ASSUME NEW call \in brought PROVE \E i \in Parts(f) : call.index = i - 1
    <3>1. PICK i \in Parts(f) : call = [index |-> i - 1, part |-> part(i)] OBVIOUS
    <3> QED BY <3>1
  <2> HIDE DEF brought
  <2> QED BY <2>1, <2>2
<1>5. Begins = Begun \union Parts(f) BY <1>1 DEF Begun, Parts
<1> HIDE DEF brought
<1>6. calls = [n \in DOMAIN collected.calls \union {call.index : call \in brought} |->
                 IF \E call \in brought : call.index = n
                 THEN SoFar(n) \o (CHOOSE call \in brought : call.index = n).part ELSE SoFar(n)]
  BY <1>3 DEF Collect
<1> HIDE DEF calls
<1>7. DOMAIN calls = {i - 1 : i \in Begins}
  <2>1. DOMAIN calls = {i - 1 : i \in Begun} \union {i - 1 : i \in Parts(f)} BY <1>4, <1>6 DEF CallsCollected
  <2> QED BY <1>5, <2>1
<1>8. ASSUME NEW i \in Begins PROVE calls[i - 1] = SubSeq(reply.calls[i], 1, f.calls[i])
  <2>1. i \in Calls /\ i - 1 \in DOMAIN calls BY <1>7
  <2>2. SoFar(i - 1) = SubSeq(reply.calls[i], 1, sent.calls[i])
    <3>1. CASE i \in Begun
      BY <3>1 DEF SoFar, CallsCollected
    <3>2. CASE i \notin Begun
      <4>1. sent.calls[i] = 0 BY <1>1, <2>1, <3>2 DEF Begun
      <4>2. i - 1 \notin DOMAIN collected.calls
        <5>1. \A j \in Begun : j - 1 # i - 1 BY <1>2, <2>1, <3>2 DEF Begun
        <5> QED BY <5>1 DEF CallsCollected
      <4>3. SubSeq(reply.calls[i], 1, 0) = <<>> BY SubSeqEmpty
      <4> QED BY <4>1, <4>2, <4>3 DEF SoFar
    <3> QED BY <3>1, <3>2
  <2>3. CASE i \in Parts(f)
    <3>1. [index |-> i - 1, part |-> part(i)] \in brought BY <2>3 DEF brought
    <3>2. \A call \in brought : call.index = i - 1 => call.part = part(i)
      <4> SUFFICES ASSUME NEW call \in brought, call.index = i - 1 PROVE call.part = part(i)
        OBVIOUS
      <4>1. PICK j \in Parts(f) : call = [index |-> j - 1, part |-> part(j)] BY DEF brought
      <4>2. j \in Calls /\ j - 1 = i - 1 BY <4>1 DEF Parts
      <4>3. j = i BY <1>2, <2>1, <4>2
      <4> QED BY <4>1, <4>3
    <3>3. \E call \in brought : call.index = i - 1 BY <3>1
    <3>4. (CHOOSE call \in brought : call.index = i - 1).part = part(i)
      <4> DEFINE chosen == CHOOSE call \in brought : call.index = i - 1
      <4>1. chosen \in brought /\ chosen.index = i - 1 BY <3>3
      <4> HIDE DEF chosen
      <4>2. chosen.part = part(i) BY <3>2, <4>1
      <4> QED BY <4>2 DEF chosen
    <3>5. calls[i - 1] = SoFar(i - 1) \o part(i) BY <1>6, <1>7, <2>1, <3>3, <3>4
    <3>6. 1 \in 1..(Len(reply.calls[i]) + 1) /\ sent.calls[i] \in (1 - 1)..Len(reply.calls[i])
          /\ f.calls[i] \in sent.calls[i]..Len(reply.calls[i])
      BY <1>1, <1>2, <2>1
    <3>7. SubSeq(reply.calls[i], 1, sent.calls[i]) \o SubSeq(reply.calls[i], sent.calls[i] + 1, f.calls[i])
          = SubSeq(reply.calls[i], 1, f.calls[i])
      BY <1>2, <2>1, <3>6, ConcatAdjacentSubSeq
    <3> QED BY <2>2, <3>5, <3>7
  <2>4. CASE i \notin Parts(f)
    <3>1. f.calls[i] = sent.calls[i] BY <2>1, <2>4 DEF Parts
    <3>2. ~\E call \in brought : call.index = i - 1
      <4> SUFFICES ASSUME NEW j \in Parts(f), j - 1 = i - 1 PROVE FALSE
        BY DEF brought
      <4>1. j \in Calls BY DEF Parts
      <4> QED BY <1>2, <2>1, <2>4, <4>1
    <3>3. calls[i - 1] = SoFar(i - 1) BY <1>6, <1>7, <2>1, <3>2
    <3> QED BY <2>2, <3>1, <3>3
  <2> QED BY <2>3, <2>4
<1> QED BY <1>7, <1>8 DEF calls

-----------------------------------------------------------------------------
LEMMA RepliesFromTheStart == RepliesInit => RepliesInv
<1> SUFFICES ASSUME RepliesInit PROVE RepliesInv
  OBVIOUS
<1>1. /\ reply \in Answers /\ native \in BOOLEAN /\ toolIndex = 0 /\ sent = [text |-> 0, calls |-> [i \in Calls |-> 0]]
      /\ collected = [text |-> <<>>, calls |-> <<>>] /\ reading = "open"
  BY DEF RepliesInit
<1>2. /\ Len(reply.text) \in Nat /\ Len(reply.calls) \in Nat /\ Calls = 1..Len(reply.calls)
      /\ \A i \in Calls : Len(reply.calls[i]) \in Nat
  BY <1>1, RepliesAre DEF Calls
<1>3. sent.text = 0 /\ \A i \in Calls : sent.calls[i] = 0 BY <1>1
<1>4. RepliesTyped BY <1>1, <1>2 DEF RepliesTyped
<1>5. collected.text = SubSeq(reply.text, 1, sent.text)
  <2>1. SubSeq(reply.text, 1, 0) = <<>> BY SubSeqEmpty
  <2> QED BY <1>1, <1>3, <2>1
<1>6. CallsCollected
  <2>1. Begun = {} BY <1>3 DEF Begun
  <2>2. DOMAIN collected.calls = {} BY <1>1
  <2> QED BY <2>1, <2>2 DEF CallsCollected
<1>7. SentInOrder BY <1>1, <1>2, <1>3 DEF SentInOrder
<1> QED BY <1>1, <1>4, <1>5, <1>6, <1>7 DEF RepliesInv, EndsWhole

(* What a frame that is read makes of all that.                               *)
LEMMA ReadKeeps ==
    ASSUME RepliesInv, NEW f \in Frames \union {sent}, Read(f)
    PROVE  /\ RepliesTyped' /\ UNCHANGED <<reply, native, spoiled>>
           /\ ~spoiled => /\ collected'.text = SubSeq(reply'.text, 1, sent'.text)
                          /\ CallsCollected' /\ SentInOrder'
<1>1. /\ reading = "open" /\ sent' = f /\ toolIndex' = Advanced(f) /\ collected' = Collect(Delta(f))
      /\ UNCHANGED <<reply, native, spoiled>>
  BY DEF Read
<1>2. reply \in Answers /\ native \in BOOLEAN /\ toolIndex \in Nat BY DEF RepliesInv, RepliesTyped
<1>3. Calls' = Calls BY <1>1 DEF Calls
<1>4. Advanced(f) \in Nat
  <2>1. IsFiniteSet(Parts(f))
    <3>1. Len(reply.calls) \in Nat /\ Calls = 1..Len(reply.calls) BY <1>2, RepliesAre DEF Calls
    <3>2. IsFiniteSet(Calls) BY <3>1, FS_Interval
    <3>3. Parts(f) \subseteq Calls BY DEF Parts
    <3> QED BY <3>2, <3>3, FS_Subset
  <2>2. Cardinality(Parts(f)) \in Nat BY <2>1, FS_CardinalityType
  <2> QED BY <1>2, <2>2 DEF Advanced
<1>5. collected' = [text |-> collected'.text, calls |-> collected'.calls] BY <1>1 DEF Collect
<1>6. RepliesTyped' BY <1>1, <1>2, <1>3, <1>4, <1>5, FramesAdvance DEF RepliesTyped
<1>7. ASSUME ~spoiled
      PROVE  collected'.text = SubSeq(reply'.text, 1, sent'.text) /\ CallsCollected' /\ SentInOrder'
  <2>1. collected.text = SubSeq(reply.text, 1, sent.text) /\ CallsCollected /\ SentInOrder
    BY <1>1, <1>7 DEF RepliesInv
  <2>2. collected'.text = collected.text \o Delta(f).text BY <1>1 DEF Collect
  <2>3. collected'.text = SubSeq(reply'.text, 1, sent'.text) BY <1>1, <2>1, <2>2, TextCollected
  <2>4. CallsCollected'
    <3>1. Begun' = {i \in Calls : f.calls[i] > 0} BY <1>1, <1>3 DEF Begun
    <3> QED BY <1>1, <2>1, <3>1, CallsJoin DEF CallsCollected
  <2>5. SentInOrder'
    <3>1. native => /\ Advanced(f) \in toolIndex..Len(reply.calls)
                    /\ \A i \in Calls : f.calls[i] = IF i <= Advanced(f) THEN Len(reply.calls[i]) ELSE 0
      BY <2>1, NumbersAre
    <3>2. Len(reply.calls) \in Nat BY <1>2, RepliesAre
    <3> QED BY <1>1, <1>2, <1>3, <3>1, <3>2 DEF SentInOrder
  <2> QED BY <2>3, <2>4, <2>5
<1> QED BY <1>1, <1>6, <1>7

LEMMA LastMoves ==
    ASSUME RepliesInv, LastFrame
    PROVE  RepliesInv'
<1>1. All \in Frames \union {sent} /\ Read(All) /\ reading' = "ended"
      /\ finish' = FinishReason(IF native THEN toolIndex' > 0 ELSE Calls # {})
  BY DEF LastFrame
<1>2. /\ RepliesTyped' /\ UNCHANGED <<reply, native, spoiled>> /\ sent' = All
      /\ ~spoiled => /\ collected'.text = SubSeq(reply'.text, 1, sent'.text)
                     /\ CallsCollected' /\ SentInOrder'
  BY <1>1, ReadKeeps DEF Read
<1>3. All' = All /\ Calls' = Calls BY <1>2 DEF All, Calls
<1>4. /\ Len(reply.calls) \in Nat /\ Calls = 1..Len(reply.calls)
      /\ \A i \in Calls : Len(reply.calls[i]) \in Nat \ {0}
      /\ reply.calls # <<>> <=> Len(reply.calls) > 0
  BY RepliesAre DEF RepliesInv, RepliesTyped, Calls
<1>5. ASSUME ~spoiled PROVE EndsWhole'
  <2>1. CASE ~native
    <3>1. Calls # {} <=> reply.calls # <<>> BY <1>4
    <3> QED BY <1>1, <1>2, <1>3, <2>1, <3>1 DEF EndsWhole, FinishReason
  <2>2. CASE native
    <3>1. /\ toolIndex' \in Nat /\ toolIndex' <= Len(reply.calls)
          /\ \A i \in Calls : sent'.calls[i] = IF i <= toolIndex' THEN Len(reply.calls[i]) ELSE 0
      BY <1>2, <1>3, <1>5, <2>2 DEF SentInOrder, RepliesTyped
    <3>2. \A i \in Calls : sent'.calls[i] = Len(reply.calls[i]) BY <1>2 DEF All
    <3>3. Len(reply.calls) > 0 => toolIndex' > 0
      <4> SUFFICES ASSUME Len(reply.calls) > 0 PROVE toolIndex' >= 1
        BY <3>1
      <4>1. 1 \in Calls BY <1>4
      <4>2. Len(reply.calls[1]) # 0 BY <1>4, <4>1
      <4> QED BY <3>1, <3>2, <4>1, <4>2
    <3>4. toolIndex' > 0 <=> reply.calls # <<>> BY <1>4, <3>1, <3>3
    <3> QED BY <1>1, <1>2, <1>3, <2>2, <3>4 DEF EndsWhole, FinishReason
  <2> QED BY <2>1, <2>2
<1> QED BY <1>1, <1>2, <1>5 DEF RepliesInv

LEMMA FrameMoves ==
    ASSUME RepliesInv, NEW f \in Frames, Frame(f)
    PROVE  RepliesInv'
<1>1. Read(f) /\ reading = "open" /\ UNCHANGED <<reading, finish>> BY DEF Frame, Read
<1>2. /\ RepliesTyped' /\ UNCHANGED spoiled
      /\ ~spoiled => /\ collected'.text = SubSeq(reply'.text, 1, sent'.text)
                     /\ CallsCollected' /\ SentInOrder'
  BY <1>1, ReadKeeps
<1> QED BY <1>1, <1>2 DEF RepliesInv, EndsWhole

LEMMA OtherRepliesMove ==
    ASSUME RepliesInv, SkipFrame \/ StreamFails \/ StopEarly
    PROVE  RepliesInv'
<1>1. reply \in Answers /\ native \in BOOLEAN /\ toolIndex \in Nat BY DEF RepliesInv, RepliesTyped
<1>2. /\ Len(reply.text) \in Nat /\ Len(reply.calls) \in Nat /\ Calls = 1..Len(reply.calls)
      /\ \A i \in Calls : Len(reply.calls[i]) \in Nat
  BY <1>1, RepliesAre DEF Calls
<1>3. CASE SkipFrame
  <2>1. PICK f \in Frames \union {All} : sent' = f BY <1>3 DEF SkipFrame
  <2>2. f \in [text : 0..Len(reply.text), calls : [Calls -> Nat]] /\ \A i \in Calls : f.calls[i] <= Len(reply.calls[i])
    <3>1. CASE f \in Frames BY <3>1, FramesAdvance
    <3>2. CASE f = All BY <1>2, <3>2 DEF All
    <3> QED BY <3>1, <3>2
  <2>3. UNCHANGED <<reply, native, toolIndex, collected>> /\ spoiled' BY <1>3 DEF SkipFrame
  <2>4. Calls' = Calls BY <2>3 DEF Calls
  <2>5. RepliesTyped' BY <2>1, <2>2, <2>3, <2>4 DEF RepliesInv, RepliesTyped
  <2> QED BY <2>3, <2>5 DEF RepliesInv
<1>4. CASE StreamFails
  <2>1. UNCHANGED <<reply, native, sent, toolIndex, collected, spoiled>> /\ reading = "open" /\ reading' = "failed"
    BY <1>4 DEF StreamFails
  <2> QED BY <2>1 DEF RepliesInv, RepliesTyped, CallsCollected, SentInOrder, EndsWhole, Begun, Calls
<1>5. CASE StopEarly
  <2>1. PICK f \in Frames : sent' = f /\ toolIndex' = Advanced(f)
                            /\ collected' = [collected EXCEPT !.text = @ \o Delta(f).text]
    BY <1>5 DEF StopEarly
  <2>2. UNCHANGED <<reply, native, spoiled>> /\ reading = "open" /\ reading' = "stopped" BY <1>5 DEF StopEarly
  <2>3. Calls' = Calls BY <2>2 DEF Calls
  <2>4. Advanced(f) \in Nat
    <3>1. IsFiniteSet(Calls) BY <1>2, FS_Interval
    <3>2. IsFiniteSet(Parts(f)) BY <3>1, FS_Subset DEF Parts
    <3>3. Cardinality(Parts(f)) \in Nat BY <3>2, FS_CardinalityType
    <3> QED BY <1>1, <3>3 DEF Advanced
  <2>5. collected = [text |-> collected.text, calls |-> collected.calls] BY DEF RepliesInv, RepliesTyped
  <2>6. collected'.text = collected.text \o Delta(f).text
        /\ collected' = [text |-> collected'.text, calls |-> collected'.calls]
    BY <2>1, <2>5
  <2>7. RepliesTyped' BY <1>1, <2>1, <2>2, <2>3, <2>4, <2>6, FramesAdvance DEF RepliesTyped
  <2>8. ~spoiled => collected'.text = SubSeq(reply'.text, 1, sent'.text)
    BY <2>1, <2>2, <2>6, TextCollected DEF RepliesInv
  <2> QED BY <2>2, <2>7, <2>8 DEF RepliesInv, EndsWhole
<1> QED BY <1>3, <1>4, <1>5

LEMMA RepliesStep == RepliesInv /\ [RepliesNext]_replyVars => RepliesInv'
<1> SUFFICES ASSUME RepliesInv, [RepliesNext]_replyVars PROVE RepliesInv'
  OBVIOUS
<1>1. CASE UNCHANGED replyVars
  BY <1>1 DEF replyVars, RepliesInv, RepliesTyped, CallsCollected, SentInOrder, EndsWhole, Begun, Calls, All, FinishReason
<1>2. CASE RepliesNext
  BY <1>2, FrameMoves, LastMoves, OtherRepliesMove DEF RepliesNext
<1> QED BY <1>1, <1>2

(* When all was sent and collected, the message is the reply.                    *)
LEMMA MessageIsWhole ==
    ASSUME RepliesInv, CallsCollected, sent = All, collected.text = SubSeq(reply.text, 1, sent.text)
    PROVE  Message(collected) = FromNativeResponse
<1> DEFINE n == Len(reply.calls)
           D == 0..(n - 1)
<1>1. /\ reply \in Answers BY DEF RepliesInv, RepliesTyped
<1>2. /\ reply.text \in Seq(Tokens) /\ n \in Nat /\ Calls = 1..n /\ DOMAIN reply.calls = 1..n
      /\ \A i \in Calls : reply.calls[i] \in Seq(Tokens) /\ Len(reply.calls[i]) \in Nat \ {0}
  BY <1>1, RepliesAre DEF Calls
<1> HIDE DEF n
<1>3. sent.text = Len(reply.text) /\ \A i \in Calls : sent.calls[i] = Len(reply.calls[i]) BY DEF All
<1>4. collected.text = reply.text BY <1>2, <1>3, SubSeqFull
<1>5. Begun = 1..n BY <1>2, <1>3 DEF Begun
<1>6. DOMAIN collected.calls = D
  <2>1. {i - 1 : i \in 1..n} = D
    <3>1. \A m : m \in D => m + 1 \in 1..n /\ (m + 1) - 1 = m BY <1>2
    <3>2. \A i \in 1..n : i - 1 \in D BY <1>2
    <3> QED BY <3>1, <3>2
  <2> QED BY <1>5, <2>1 DEF CallsCollected
<1>7. Cardinality(D) = n
  <2>1. Cardinality(D) = IF 0 > n - 1 THEN 0 ELSE (n - 1) - 0 + 1 BY <1>2, FS_Interval
  <2> QED BY <1>2, <2>1
<1>8. ASSUME NEW place \in 1..n
      PROVE  collected.calls[CHOOSE m \in D : Before(D, m) = place - 1] = reply.calls[place]
  <2>1. \A m \in D : Before(D, m) = m
    <3> TAKE m \in D
    <3>1. n - 1 \in Int /\ 0 \in Nat /\ m - 0 = m BY <1>2
    <3> QED BY <3>1, BeforeIs
  <2>2. place - 1 \in D BY <1>2
  <2>3. (CHOOSE m \in D : Before(D, m) = place - 1) = place - 1
    <3> HIDE DEF D
    <3> QED BY <2>1, <2>2
  <2>4. collected.calls[place - 1] = SubSeq(reply.calls[place], 1, Len(reply.calls[place]))
    BY <1>2, <1>3, <1>5 DEF CallsCollected
  <2> QED BY <1>2, <2>3, <2>4, SubSeqFull
<1>9. [place \in 1..n |-> collected.calls[CHOOSE m \in D : Before(D, m) = place - 1]] = reply.calls
  <2>1. reply.calls = [i \in 1..n |-> reply.calls[i]]
    <3>1. reply.calls \in Seq(Seq(Tokens) \ {<<>>}) BY <1>1, RepliesAssumption
    <3> QED BY <1>2, <3>1
  <2> HIDE DEF D
  <2> QED BY <1>8, <2>1
<1>10. Message(collected) =
          [text |-> collected.text,
           calls |-> [place \in 1..Cardinality(D) |-> collected.calls[CHOOSE m \in D : Before(D, m) = place - 1]]]
  <2> DEFINE E == DOMAIN collected.calls
             whole(S) == [text |-> collected.text,
                          calls |-> [place \in 1..Cardinality(S) |->
                                       collected.calls[CHOOSE m \in S : Before(S, m) = place - 1]]]
  <2>1. Message(collected) = whole(E) BY DEF Message
  <2>2. E = D BY <1>6
  <2> HIDE DEF E, D
  <2>3. whole(E) = whole(D) BY <2>2
  <2> QED BY <2>1, <2>3
<1> HIDE DEF D
<1> QED BY <1>4, <1>7, <1>9, <1>10 DEF FromNativeResponse

(* However its server cuts it into frames, a reply that was streamed to its end  *)
(* is the one that would have come in one piece (chat_stream of both backends,  *)
(* _stream_completion): for any replies.                                      *)
THEOREM StreamsAreWhole == RepliesSpec => []StreamedAsWhole
<1>1. RepliesInv => StreamedAsWhole
  <2> SUFFICES ASSUME RepliesInv, ~spoiled
               PROVE  /\ IsPrefix(collected.text, reply.text)
                      /\ reading = "ended" => Message(collected) = FromNativeResponse
                                            /\ finish = FinishReason(reply.calls # <<>>)
    BY DEF StreamedAsWhole
  <2>1. /\ collected.text = SubSeq(reply.text, 1, sent.text) /\ EndsWhole
        /\ reading = "ended" => CallsCollected
        /\ reply \in Answers /\ sent.text \in 0..Len(reply.text)
    BY DEF RepliesInv, RepliesTyped
  <2>2. IsPrefix(collected.text, reply.text)
    <3>1. reply.text \in Seq(Tokens) /\ Len(reply.text) \in Nat BY <2>1, RepliesAre
    <3>2. collected.text \in Seq(Tokens) /\ Len(collected.text) = sent.text
      <4>1. \A i \in 1..sent.text : reply.text[i] \in Tokens BY <2>1, <3>1
      <4>2. sent.text \in Int /\ 1 \in Int BY <2>1
      <4>3. collected.text \in Seq(Tokens) /\ Len(collected.text) = IF 1 <= sent.text THEN sent.text - 1 + 1 ELSE 0
        BY <2>1, <4>1, <4>2, SubSeqProperties
      <4> QED BY <2>1, <4>3
    <3>3. SubSeq(collected.text, 1, Len(collected.text)) = collected.text BY <3>2, SubSeqFull
    <3> QED BY <2>1, <3>1, <3>2, <3>3 DEF IsPrefix
  <2>3. reading = "ended" => Message(collected) = FromNativeResponse /\ finish = FinishReason(reply.calls # <<>>)
    BY <2>1, MessageIsWhole DEF EndsWhole
  <2> QED BY <2>2, <2>3
<1> QED
  BY <1>1, RepliesFromTheStart, RepliesStep, PTL DEF RepliesSpec
=============================================================================
