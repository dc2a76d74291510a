------------------------------- MODULE ChatTurn -------------------------------
(***************************************************************************)
(* One turn of /v1/chat/completions (src/localgate/api/chat.py), streamed  *)
(* or not, from the moment its handler asks for a slot until its response  *)
(* and everything it left behind is over: failover between backends        *)
(* (core/backend_pool.py), the client hanging up at any moment, the slot,  *)
(* the response cache and the billing of the turn.                         *)
(*                                                                         *)
(* The queue in front of each backend (Scheduler.tla) appears as what      *)
(* SlotPool.tla promises of it: a slot is handed out when one is free, and *)
(* nobody who can be served is passed over for ever.                       *)
(*                                                                         *)
(* A streamed reply is an async generator run by Starlette's               *)
(* StreamingResponse, which is outside the repository.  It watches for the *)
(* client's disconnect and then cancels the task that iterates the         *)
(* generator.  If that task is inside the generator, at one of its awaits, *)
(* the generator is unwound there and then; if the generator is suspended  *)
(* at a yield, it is left behind and finalised later by the event loop.    *)
(* Either way the response's BackgroundTask runs after the cancellation.   *)
(*                                                                         *)
(* Definitions marked "variant" are slips a change to this code could      *)
(* make; see Scheduler.tla.                                                *)
(*                                                                         *)
(* Left out: memory, web search and request validation before the slot is  *)
(* asked for; a _record_turn that raises; the shutdown of the process.     *)
(***************************************************************************)
EXTENDS Integers, Sequences, FiniteSets

CONSTANTS
  Request,     \* chat requests
  Streamed,    \* those with "stream": true
  Backend,     \* the pool's members that serve the model
  Slots,       \* max_concurrent of each backend
  Prompt,      \* cache keys: what requests of one key with one payload share
  PromptOf,    \* the cache key of each request
  MaxText      \* bound: text chunks in one reply

ASSUME ChatTurnAssumption ==
  /\ IsFiniteSet(Request) /\ Streamed \subseteq Request
  /\ IsFiniteSet(Backend) /\ Backend # {}
  /\ Slots \in [Backend -> Nat \ {0}]
  /\ PromptOf \in [Request -> Prompt]
  /\ MaxText \in Nat \ {0}

VARIABLES
  stage,          \* where the request is
  targets,     \* route's answer: the backends to try, best first
  current,     \* index into targets
  held,        \* <<r, i>>: r's lease on its i-th target is not released
  text,        \* chunks of text in assistant_text
  gone,        \* the client hung up
  cache,       \* prompts with a cached reply
  writing,     \* _pending_writes: turns recorded by a task of their own
  billed       \* usage records written for the request

turnVars == <<stage, targets, current, held, text, gone, cache, writing, billed>>

(***************************************************************************)
(*   away        not arrived                                               *)
(*   asking      the handler awaits acquire                                *)
(*   ready       StreamingResponse returned, generator not started         *)
(*   connecting  awaiting the upstream's first chunk                       *)
(*   reading     awaiting a further chunk                                  *)
(*   sending     suspended at the yield of a chunk                         *)
(*   switching   the generator awaits acquire for the next backend         *)
(*   failing     suspended at the yield of the error event or its DONE     *)
(*   finishing   suspended at the yield of DONE after a whole reply        *)
(*   recording   the generator awaits record()                             *)
(*   abandoned   left suspended at a yield, its response over              *)
(*   calling     not streamed: awaiting the backend's whole answer         *)
(*   noting      the handler awaits _record_turn                           *)
(*   over        nothing of the request's task is left                     *)
(***************************************************************************)
TurnPlace ==
  {"away", "asking", "ready", "connecting", "reading", "sending", "switching",
   "failing", "finishing", "recording", "abandoned", "calling", "noting", "over"}

\* Orders in which route may offer backends.
Routes == {s \in UNION {[1..n -> Backend] : n \in 1..Cardinality(Backend)} :
             \A i, j \in DOMAIN s : s[i] = s[j] => i = j}

Target(r) == targets[r][current[r]]

MoreTargets(r) == current[r] < Len(targets[r])

Busy(b) == {h \in held : targets[h[1]][h[2]] = b}

TurnGoto(r, place) == stage' = [stage EXCEPT ![r] = place]

\* Lease.release of the leases in S; releasing again does nothing.
Released(S) == held' = held \ S

-----------------------------------------------------------------------------

TurnInit ==
  /\ stage = [r \in Request |-> "away"]
  /\ targets = [r \in Request |-> <<>>]
  /\ current = [r \in Request |-> 1]
  /\ held = {}
  /\ text = [r \in Request |-> 0]
  /\ gone = [r \in Request |-> FALSE]
  /\ cache = {}
  /\ writing = {}
  /\ billed = [r \in Request |-> 0]

\* The handler up to acquire: the route is chosen before the wait.
Arrive(r) ==
  /\ stage[r] = "away"
  /\ PromptOf[r] \notin cache
  /\ \E route \in Routes : targets' = [targets EXCEPT ![r] = route]
  /\ TurnGoto(r, "asking")
  /\ UNCHANGED <<current, held, text, gone, cache, writing, billed>>

\* A cached reply needs no slot, but is recorded like any other turn.
CacheHit(r) ==
  /\ stage[r] = "away"
  /\ PromptOf[r] \in cache
  /\ \E n \in {0, 1} : text' = [text EXCEPT ![r] = n]
  /\ TurnGoto(r, "noting")
  /\ UNCHANGED <<targets, current, held, gone, cache, writing, billed>>

\* acquire returns: in the handler, or in a stream that moved on to this backend.
TakeSlot(r) ==
  /\ stage[r] \in {"asking", "switching"}
  /\ Cardinality(Busy(Target(r))) < Slots[Target(r)]
  /\ held' = held \cup {<<r, current[r]>>}
  /\ TurnGoto(r, CASE stage[r] = "switching" -> "connecting"
               [] stage[r] = "asking" /\ r \in Streamed -> "ready"
               [] OTHER -> "calling")
  /\ UNCHANGED <<targets, current, text, gone, cache, writing, billed>>

\* acquire raises ServiceBusyError: a 503, or an error event within the stream.
RefuseSlot(r) ==
  /\ stage[r] \in {"asking", "switching"}
  /\ TurnGoto(r, IF stage[r] = "switching" THEN "failing" ELSE "over")
  /\ UNCHANGED <<targets, current, held, text, gone, cache, writing, billed>>

-----------------------------------------------------------------------------
(* _stream_and_record.                                                      *)

Begin(r) ==
  /\ stage[r] = "ready"
  /\ TurnGoto(r, "connecting")
  /\ UNCHANGED <<targets, current, held, text, gone, cache, writing, billed>>

\* A chunk arrives, with text or (a role, a finish reason) without, and is yielded.
Chunk(r) ==
  /\ stage[r] \in {"connecting", "reading"}
  /\ text[r] < MaxText
  /\ \E n \in {0, 1} : text' = [text EXCEPT ![r] = @ + n]
  /\ TurnGoto(r, "sending")
  /\ UNCHANGED <<targets, current, held, gone, cache, writing, billed>>

Sent(r) ==
  /\ stage[r] = "sending"
  /\ TurnGoto(r, "reading")
  /\ UNCHANGED <<targets, current, held, text, gone, cache, writing, billed>>

\* The upstream cannot be reached (FAILOVER_ERRORS) and another backend is left.
SwitchPastLast(r) ==  \* variant: one backend too many
  /\ stage[r] = "connecting"
  /\ text[r] = 0 /\ current[r] <= Len(targets[r])
  /\ Released({<<r, current[r]>>})
  /\ current' = [current EXCEPT ![r] = @ + 1]
  /\ TurnGoto(r, "switching")
  /\ UNCHANGED <<targets, text, gone, cache, writing, billed>>

SwitchHoldingOn(r) ==  \* variant: the old lease is kept during the wait
  /\ stage[r] = "connecting"
  /\ text[r] = 0 /\ MoreTargets(r)
  /\ current' = [current EXCEPT ![r] = @ + 1]
  /\ TurnGoto(r, "switching")
  /\ UNCHANGED <<targets, held, text, gone, cache, writing, billed>>

Switch(r) ==
  /\ stage[r] = "connecting"
  /\ text[r] = 0 /\ MoreTargets(r)
  /\ Released({<<r, current[r]>>})
  /\ current' = [current EXCEPT ![r] = @ + 1]
  /\ TurnGoto(r, "switching")
  /\ UNCHANGED <<targets, text, gone, cache, writing, billed>>

\* Unreachable with nobody left to try, or any other failure of the upstream.
UpstreamFails(r) ==
  /\ stage[r] \in {"connecting", "reading"}
  /\ TurnGoto(r, "failing")
  /\ UNCHANGED <<targets, current, held, text, gone, cache, writing, billed>>

UpstreamEnds(r) ==
  /\ stage[r] \in {"connecting", "reading"}
  /\ TurnGoto(r, "finishing")
  /\ UNCHANGED <<targets, current, held, text, gone, cache, writing, billed>>

\* The finally block of a stream cut short: the current lease is released, and
\* what was generated is billed by a task of its own.
UnwoundUnbilled(r) ==  \* variant: no background write
  /\ Released({<<r, 1>>, <<r, current[r]>>})
  /\ UNCHANGED writing

Unwound(r) ==
  /\ Released({<<r, 1>>, <<r, current[r]>>})
  /\ writing' = IF text[r] > 0 THEN writing \cup {r} ELSE writing

\* The error event and DONE are out; the generator returns through its finally,
\* the response ends and its BackgroundTask runs.
FailureSent(r) ==
  /\ stage[r] = "failing"
  /\ Unwound(r)
  /\ TurnGoto(r, "over")
  /\ UNCHANGED <<targets, current, text, gone, cache, billed>>

\* DONE is out: finished is set, the finally block releases, the reply is cached.
DoneSentUnfinished(r) ==  \* variant: finished is not set
  /\ stage[r] = "finishing"
  /\ Unwound(r)
  /\ cache' = IF text[r] > 0 THEN cache \cup {PromptOf[r]} ELSE cache
  /\ TurnGoto(r, "recording")
  /\ UNCHANGED <<targets, current, text, gone, billed>>

DoneSent(r) ==
  /\ stage[r] = "finishing"
  /\ Released({<<r, current[r]>>})
  /\ cache' = IF text[r] > 0 THEN cache \cup {PromptOf[r]} ELSE cache
  /\ TurnGoto(r, "recording")
  /\ UNCHANGED <<targets, current, text, gone, writing, billed>>

\* record() or _record_turn returns; the response ends.
Recorded(r) ==
  /\ stage[r] \in {"recording", "noting"}
  /\ billed' = [billed EXCEPT ![r] = @ + 1]
  /\ TurnGoto(r, "over")
  /\ UNCHANGED <<targets, current, held, text, gone, cache, writing>>

\* A background write of _pending_writes completes.
WriteDone(r) ==
  /\ r \in writing
  /\ writing' = writing \ {r}
  /\ billed' = [billed EXCEPT ![r] = @ + 1]
  /\ UNCHANGED <<stage, targets, current, held, text, gone, cache>>

-----------------------------------------------------------------------------
(* call_with_failover and until_disconnected.                               *)

\* The whole answer arrived: the lease is released, the reply is cached, then
\* recorded.  A reply without text is cached too.
Answer(r) ==
  /\ stage[r] = "calling"
  /\ \E n \in {0, 1} : text' = [text EXCEPT ![r] = n]
  /\ Released({<<r, current[r]>>})
  /\ cache' = cache \cup {PromptOf[r]}
  /\ TurnGoto(r, "noting")
  /\ UNCHANGED <<targets, current, gone, writing, billed>>

\* Unreachable: the slot goes back before the next backend's is asked for.
CallNext(r) ==
  /\ stage[r] = "calling"
  /\ MoreTargets(r)
  /\ Released({<<r, current[r]>>})
  /\ current' = [current EXCEPT ![r] = @ + 1]
  /\ TurnGoto(r, "asking")
  /\ UNCHANGED <<targets, text, gone, cache, writing, billed>>

\* A 502, or a poll that sees the client gone (499).
CallEnds(r) ==
  /\ stage[r] = "calling"
  /\ Released({<<r, current[r]>>})
  /\ TurnGoto(r, "over")
  /\ UNCHANGED <<targets, current, text, gone, cache, writing, billed>>

-----------------------------------------------------------------------------
(* The client and StreamingResponse.                                        *)

\* A stream's client goes away.  A client that waits for a whole answer is seen
\* gone by CallEnds only, and by nothing before or after the call.
HangUp(r) ==
  /\ r \in Streamed /\ stage[r] \notin {"away", "noting", "over"}
  /\ ~gone[r]
  /\ gone' = [gone EXCEPT ![r] = TRUE]
  /\ UNCHANGED <<stage, targets, current, held, text, cache, writing, billed>>

\* The generator has not run: only the BackgroundTask frees the slot.
CutBeforeStartLeaks(r) ==  \* variant: a response without BackgroundTask
  /\ gone[r] /\ stage[r] = "ready"
  /\ TurnGoto(r, "over")
  /\ UNCHANGED <<targets, current, held, text, gone, cache, writing, billed>>

CutBeforeStart(r) ==
  /\ gone[r] /\ stage[r] = "ready"
  /\ Released({<<r, 1>>})
  /\ TurnGoto(r, "over")
  /\ UNCHANGED <<targets, current, text, gone, cache, writing, billed>>

\* Cancelled inside the generator: unwound there, then the BackgroundTask runs.
\* A wait for the next backend's slot leaves that queue (Scheduler's Cancel).
CutInside(r) ==
  /\ gone[r] /\ stage[r] \in {"connecting", "reading", "switching"}
  /\ Unwound(r)
  /\ TurnGoto(r, "over")
  /\ UNCHANGED <<targets, current, text, gone, cache, billed>>

\* Cancelled while the generator is suspended at a yield.
CutAtYield(r) ==
  /\ gone[r] /\ stage[r] \in {"sending", "failing", "finishing"}
  /\ Released({<<r, 1>>})
  /\ TurnGoto(r, "abandoned")
  /\ UNCHANGED <<targets, current, text, gone, cache, writing, billed>>

\* The event loop closes the generator it was left with.
Finalise(r) ==
  /\ stage[r] = "abandoned"
  /\ Unwound(r)
  /\ TurnGoto(r, "over")
  /\ UNCHANGED <<targets, current, text, gone, cache, billed>>

\* Cancelled inside record(): the finally block is past and finished is set.
CutRecording(r) ==
  /\ gone[r] /\ stage[r] = "recording"
  /\ Released({<<r, 1>>})
  /\ TurnGoto(r, "over")
  /\ UNCHANGED <<targets, current, text, gone, cache, writing, billed>>

Cut(r) == CutBeforeStart(r) \/ CutInside(r) \/ CutAtYield(r) \/ CutRecording(r)

-----------------------------------------------------------------------------

\* What the request's own code does once it is not waiting for a slot.
Proceed(r) ==
  \/ Begin(r)
  \/ Chunk(r)
  \/ Sent(r)
  \/ Switch(r)
  \/ UpstreamFails(r)
  \/ UpstreamEnds(r)
  \/ FailureSent(r)
  \/ DoneSent(r)
  \/ Recorded(r)
  \/ Answer(r)
  \/ CallNext(r)
  \/ CallEnds(r)
  \/ Cut(r)
  \/ Finalise(r)

TurnNext ==
  \E r \in Request :
    Arrive(r) \/ CacheHit(r) \/ TakeSlot(r) \/ RefuseSlot(r) \/ Proceed(r)
      \/ WriteDone(r) \/ HangUp(r)

TurnSpec == TurnInit /\ [][TurnNext]_turnVars

(***************************************************************************)
(* Fairness.  A reply ends and its client reads or hangs up: assumptions   *)
(* about backends and clients, since backend_timeout bounds one read only. *)
(* TakeSlot is strongly fair because Scheduler.tla has no starvation.      *)
(* Refusals are not assumed: no turn needs a queue_timeout to end.         *)
(***************************************************************************)
Ending(r) ==
  \/ Begin(r) \/ Sent(r) \/ FailureSent(r) \/ DoneSent(r) \/ Recorded(r)
  \/ CutBeforeStart(r) \/ CutAtYield(r) \/ CutRecording(r) \/ Finalise(r)

TurnFairness ==
  \A r \in Request :
    /\ WF_turnVars(Ending(r))
    /\ SF_turnVars(UpstreamEnds(r)) /\ WF_turnVars(CallEnds(r))
    /\ WF_turnVars(WriteDone(r))
    /\ SF_turnVars(TakeSlot(r))

TurnFairSpec == TurnSpec /\ TurnFairness

-----------------------------------------------------------------------------
(***************************************************************************)
(* Correctness                                                             *)
(***************************************************************************)

TurnTypeOK ==
  /\ stage \in [Request -> TurnPlace]
  /\ targets \in [Request -> Routes \cup {<<>>}]
  /\ current \in [Request -> 1..Cardinality(Backend)]
  /\ \A r \in Request : targets[r] # <<>> => current[r] \in DOMAIN targets[r]
  /\ held \subseteq Request \X (1..Cardinality(Backend))
  /\ text \in [Request -> 0..MaxText]
  /\ gone \in [Request -> BOOLEAN]
  /\ cache \subseteq Prompt
  /\ writing \subseteq Request
  /\ billed \in [Request -> Nat]

\* A turn holds one slot at most: none while it waits for another backend's, so
\* that failovers in opposite directions cannot block each other, and none once it
\* is over, whatever happened to the client and at whatever moment (Switch and
\* CallNext release before they ask; "every exit path may call" Lease.release).
SlotsFollowTheTurn ==
  \A r \in Request :
    LET slots == {h \in held : h[1] = r}
    IN /\ \A h, g \in slots : h = g
       /\ stage[r] \in {"asking", "switching", "over", "recording", "noting"} => slots = {}

\* A turn is billed at most once, although its generator has two places that
\* record it (the finally block and the end) and _pending_writes outlives it.
BilledOnce ==
  \A r \in Request :
    billed[r] + Cardinality({r} \cap writing)
      + (IF stage[r] \in {"recording", "noting"} THEN 1 ELSE 0) <= 1

Billing(r) == billed[r] > 0 \/ r \in writing

\* A turn that produced text does not end unbilled, unless its client hung up
\* while the finished turn was being recorded (see RepliesAreBilled).
OnlyRecordingIsCutUnbilled ==
  [][\A r \in Request :
       stage[r] # "over" /\ stage'[r] = "over" /\ text'[r] > 0
         => Billing(r)' \/ (stage[r] = "recording" /\ gone[r])
    ]_turnVars

\* "the tokens produced so far are still counted" (docs/sharing.md), with no
\* exception: _stream_and_record's docstring says the same.
RepliesAreBilled ==
  \A r \in Request : stage[r] = "over" /\ text[r] > 0 => Billing(r)

\* Every turn that asks for a slot comes to its end, and no slot is left in use
\* then, without any client or timeout having to give up.
TurnsEnd ==
  \A r \in Request : stage[r] = "asking" ~> stage[r] = "over" /\ r \notin writing

=============================================================================
