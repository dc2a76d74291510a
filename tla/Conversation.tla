---------------------------- MODULE Conversation ----------------------------
(***************************************************************************)
(* The conversation of one `localgate code` session: the message history   *)
(* and its ledger (agent/context.py), the loop of a turn (AgentSession.send *)
(* in agent/loop.py), and the shell around it that runs turns, takes lines  *)
(* typed ahead, interrupts, compacts, clears and resumes (agent/repl.py,    *)
(* agent/interrupt.py, agent/memory.py).                                    *)
(*                                                                         *)
(* A message is who speaks, how many tools it calls, whether its text is   *)
(* long enough to be cut down by compaction, which requests of the user    *)
(* its text still shows and whether it presents them as already handled.   *)
(* What the calls do to files is in AgentWrites.                           *)
(***************************************************************************)
EXTENDS Integers, SequencesExt, FiniteSetsExt

CONSTANTS MaxRequests,  \* bound: requests the user makes
          MaxSteps,     \* bound: replies of the model and commands at the prompt
          MaxTurns,     \* max_turns: replies taken in one turn
          KeepRecent,   \* keep_recent: messages of the protected tail
          CompactAt,    \* usage beyond which a prompt is compacted
          CompactTo,    \* usage compaction stops at
          Long,         \* what a long message weighs; a short one weighs 1
          Room          \* requests the first 1000 characters of a message show

ASSUME ConversationAssumption ==
    /\ {MaxRequests, MaxSteps, MaxTurns, KeepRecent, CompactAt, Long} \subseteq Nat \ {0}
    /\ CompactTo \in 0..CompactAt /\ Room \in Nat

VARIABLES
    messages,     \* session.messages
    ledger,       \* session.ledger: goal, current task, anything from the model
    phase,        \* where the shell is (Phases)
    turn,         \* locals of send() and run_turn(), the task facts
    queue,        \* queued: lines typed ahead
    asked,        \* requests made so far
    spent,        \* replies and commands so far (MaxSteps)
    stored,       \* the conversation rows of this session
    storedLedger, \* its ledger row
    excused       \* history: a cut turn may have left a call unanswered

vars == <<messages, ledger, phase, turn, queue, asked, spent, stored, storedLedger, excused>>

Phases  == {"prompt", "deciding", "folding", "asking", "running", "closed"}
Request == 1..MaxRequests
None    == 0
Nudges  == {"malformed", "evidence", "empty", "claim", "salvage", "act"}
Forms   == {"prose", "promise", "code", "empty", "malformed"}
\* What became of the task's files: nothing tried, a change refused or declined,
\* one that failed, one made, one that left a file broken.
Work    == {"none", "refused", "failed", "changed", "broken"}

Plain(role)       == [role |-> role, calls |-> 0, size |-> "short", asks |-> <<>>, handled |-> FALSE]
Says(requests)    == [Plain("user") EXCEPT !.asks = requests]
Calling(n, size)  == [Plain("assistant") EXCEPT !.calls = n, !.size = size]
Result(size)      == [Plain("tool") EXCEPT !.size = size]
Is(m, role)       == m.role = role

NoTurn == [request |-> None, edit |-> FALSE, before |-> 0, start |-> 0, left |-> 0,
           called |-> FALSE, work |-> "none", nudged |-> {}, compacted |-> FALSE]
Empty  == [goal |-> None, task |-> None, notes |-> FALSE]

-----------------------------------------------------------------------------
(* The context manager: what a history weighs and how it is compacted.      *)

IsEmpty(l) == l.goal = None /\ ~l.notes
Usage(h, l) ==
    Len(h) + (Long - 1) * Cardinality({i \in DOMAIN h : h[i].size = "long"})
           + (IF IsEmpty(l) THEN 0 ELSE 1)

\* variant: the ledger keeps the first task it was told
ObserveUserOnce(l, r) == IF l.goal = None THEN [l EXCEPT !.goal = r, !.task = r] ELSE l
ObserveUser(l, r) == [l EXCEPT !.goal = IF @ = None THEN r ELSE @, !.task = r]
MergeModelUpdate(l) == [l EXCEPT !.notes = TRUE]

\* What a ledger is after the model was asked to update it: an answer that is
\* an error, no JSON or nothing new leaves it as it was.
LedgerUpdates(l) == {l, MergeModelUpdate(l)}

\* First index that is kept whole: the latest assistant message, or the end.
LastExchange(h) ==
    LET at == {i \in 2..Len(h) : Is(h[i], "assistant")}
    IN IF at = {} THEN Len(h) + 1 ELSE Max(at)

\* First index of the tail; it never begins with a tool result.
TailStart(h) ==
    LET first == Max({2, Len(h) - KeepRecent + 1})
    IN Max({i \in 2..first : i = 2 \/ ~Is(h[i], "tool")})

CutDown(h, role, end) ==
    [i \in DOMAIN h |-> IF i \in 2..(end - 1) /\ Is(h[i], role) /\ h[i].size = "long"
                        THEN [h[i] EXCEPT !.size = "cut"] ELSE h[i]]
ElideToolResults(h, end) == CutDown(h, "tool", end)
ShrinkAssistantMessages(h, end) == CutDown(h, "assistant", end)

\* What the fold keeps of a user message: its first 1000 characters. A long
\* one is the first of the session, which opens with the project overview.
Clipped(m) == IF m.size = "long" THEN <<>> ELSE SubSeq(m.asks, 1, Min({Room, Len(m.asks)}))

\* variant: the fold ends wherever half of the old region does
FoldEndSplitting(h, tail, force) == IF force THEN tail ELSE Max({2, (tail \div 2) + 1})

\* First index that survives the fold: half of what precedes the tail goes
\* (all of it for /compact), and never a call without its results.
FoldEnd(h, tail, force) ==
    LET half == IF force THEN tail ELSE Max({2, (tail \div 2) + 1})
    IN Min({i \in half..tail : i = tail \/ ~Is(h[i], "tool")})

Fold(h, end) ==
    LET folded == SubSeq(h, 2, end - 1)
        users  == {i \in DOMAIN folded : Is(folded[i], "user")}
        words  == FlattenSeq([i \in DOMAIN folded |-> IF i \in users THEN Clipped(folded[i]) ELSE <<>>])
        merged == IF users = {} THEN <<>>
                  ELSE <<[Says(words) EXCEPT !.handled = TRUE], Plain("assistant")>>
    IN <<h[1]>> \o merged \o SubSeq(h, end, Len(h))

\* variant: the steps spare nothing
StepsAll(h) ==
    LET s1 == ElideToolResults(h, Len(h) + 1)
        s2 == ShrinkAssistantMessages(s1, Len(h) + 1)
    IN <<s1, s2, s2, s2>>

\* The cheap steps in the order they are tried, over the old region first and
\* then over everything but the latest exchange.
Steps(h) ==
    LET tail == TailStart(h)
        last == LastExchange(h)
        s1   == ElideToolResults(h, tail)
        s2   == ShrinkAssistantMessages(s1, tail)
        s3   == ElideToolResults(s2, last)
    IN <<s1, s2, s3, ShrinkAssistantMessages(s3, last)>>

Nothing(h, l, force) == Len(h) <= 2 \/ (~force /\ Usage(h, l) <= CompactTo)
Enough(steps, l, force) == {i \in 1..4 : ~force /\ Usage(steps[i], l) <= CompactTo}

\* Whether compacting h gets as far as asking the model to fold its oldest part.
Folds(h, l, force) ==
    LET steps == Steps(h)
    IN /\ ~Nothing(h, l, force) /\ FoldEnd(h, TailStart(h), force) > 2
       /\ Enough(steps, l, force) = {}
Compacted(h, l, force) ==
    LET steps  == Steps(h)
        enough == Enough(steps, l, force)
    IN IF Nothing(h, l, force) THEN h
       ELSE IF enough # {} THEN steps[Min(enough)]
       ELSE Fold(steps[4], FoldEnd(h, TailStart(h), force))

NeedsCompaction == Usage(messages, ledger) > CompactAt

-----------------------------------------------------------------------------
Init ==
    /\ messages = <<Plain("system")>> /\ ledger = Empty
    /\ phase = "prompt" /\ turn = NoTurn /\ queue = <<>> /\ asked = 0 /\ spent = 0
    /\ stored = <<>> /\ storedLedger = Empty /\ excused = FALSE

ToPrompt == phase' = "prompt" /\ turn' = NoTurn
Kept == UNCHANGED <<stored, storedLedger, excused>>
Spends == spent < MaxSteps /\ spent' = spent + 1

(* send() up to its loop. The first message of a history carries the overview *)
(* of the project, after a read of its first file, if there is any file.     *)
AutoRead(project) == IF project THEN <<Calling(1, "short"), Result("long")>> ELSE <<>>
WithOverview(m, project) == IF project THEN [m EXCEPT !.size = "long"] ELSE m

StartTurn(r, edit, files) ==
    LET project == files /\ Len(messages) = 1
        h == messages \o AutoRead(project) \o <<WithOverview(Says(<<r>>), project)>>
    IN /\ messages' = h /\ ledger' = ObserveUser(ledger, r)
       /\ turn' = [NoTurn EXCEPT !.request = r, !.edit = edit, !.before = Len(messages),
                                 !.start = Len(h), !.left = MaxTurns]
       /\ phase' = "deciding" /\ UNCHANGED spent /\ Kept

Ask == /\ phase = "prompt" /\ queue = <<>> /\ asked < MaxRequests
       /\ asked' = asked + 1 /\ UNCHANGED queue
       /\ \E edit, files \in BOOLEAN : StartTurn(asked', edit, files)

RunQueued == /\ phase = "prompt" /\ queue # <<>>
             /\ queue' = Tail(queue) /\ UNCHANGED asked
             /\ \E edit, files \in BOOLEAN : StartTurn(Head(queue), edit, files)

(* Keys are read while the turn waits: for the ledger updater, for a reply   *)
(* or for its tools. A line entered then goes into the queue.                *)
Waiting == phase \in {"folding", "asking", "running"}
Submit == /\ Waiting /\ asked < MaxRequests
          /\ asked' = asked + 1 /\ queue' = Append(queue, asked')
          /\ UNCHANGED <<messages, ledger, phase, turn, spent>> /\ Kept

-----------------------------------------------------------------------------
(* One round of the loop: compact if needed, ask, act on the reply.         *)

Stays  == UNCHANGED <<queue, asked, spent>> /\ Kept
Replies == Spends /\ UNCHANGED <<queue, asked>>

OutOfTurns ==
    /\ phase = "deciding" /\ turn.left = 0
    /\ ToPrompt /\ UNCHANGED <<messages, ledger>> /\ Stays

Decide ==
    /\ phase = "deciding" /\ turn.left > 0
    /\ IF NeedsCompaction /\ Folds(messages, ledger, FALSE)
       THEN phase' = "folding" /\ UNCHANGED <<messages, turn>>
       ELSE /\ messages' = IF NeedsCompaction THEN Compacted(messages, ledger, FALSE) ELSE messages
            /\ turn' = [turn EXCEPT !.compacted = Len(messages') # Len(messages) \/ @]
            /\ phase' = "asking"
    /\ UNCHANGED ledger /\ Stays

(* The ledger updater answers, or fails, in which case only words are lost. *)
EndFold ==
    /\ phase = "folding"
    /\ messages' = Compacted(messages, ledger, FALSE)
    /\ ledger' \in LedgerUpdates(ledger)
    /\ turn' = [turn EXCEPT !.compacted = Len(messages') # Len(messages) \/ @]
    /\ phase' = "asking" /\ Stays

Spend(t) == [t EXCEPT !.left = @ - 1]

(* The calls a reply makes. Native ones arrive as such; a call can also be    *)
(* written as text: one JSON call anywhere in it (in JSON mode the whole     *)
(* reply), or code blocks, each an edit or a file named with it.             *)
NativeCalls == {Calling(1, "short"), Calling(2, "short"), Calling(1, "long")}
JsonCalls   == {Calling(1, "short"), Calling(1, "long")}
CodeBlocks  == {Calling(n, "long") : n \in 1..2}
Calls       == NativeCalls \union JsonCalls \union CodeBlocks

ReplyCalls ==
    /\ phase = "asking"
    /\ \E call \in Calls : messages' = Append(messages, call)
    /\ turn' = Spend(turn) /\ phase' = "running"
    /\ UNCHANGED ledger /\ Replies /\ Kept

(* What is wrong with ending the task on this reply (_unfinished_work).     *)
Untouched(t) == t.work \in {"none", "refused", "failed"}
Unfinished(t, form) ==
    \/ t.work = "broken"
    \/ t.edit /\ (form = "promise" \/ t.work = "none")
    \/ Untouched(t) /\ (form = "code" \/ t.work = "failed")

\* The nudge a reply without calls gets, each at most once in a turn.
Due(t, form) ==
    IF form = "malformed" /\ "malformed" \notin t.nudged THEN "malformed"
    ELSE IF t.edit /\ ~t.called THEN "evidence"
    ELSE IF form = "empty" /\ t.called /\ "empty" \notin t.nudged THEN "empty"
    ELSE IF Unfinished(t, form) /\ "claim" \notin t.nudged THEN "claim"
    ELSE "none"

TextReply(form) == IF form = "code" THEN [Plain("assistant") EXCEPT !.size = "long"]
                   ELSE Plain("assistant")

Nudge(form) ==
    LET kind == Due(turn, form)
    IN /\ phase = "asking" /\ kind # "none" /\ kind \notin turn.nudged
       /\ messages' = messages \o <<TextReply(form), Plain("user")>>
       /\ turn' = [Spend(turn) EXCEPT !.nudged = @ \union {kind}]
       /\ phase' = "deciding" /\ UNCHANGED ledger /\ Replies /\ Kept

\* Prose twice where tools were required: the error nobody catches ends the shell.
GiveUp(form) ==
    /\ phase = "asking" /\ Due(turn, form) = "evidence" /\ "evidence" \in turn.nudged
    /\ messages' = Append(messages, TextReply(form))
    /\ phase' = "closed" /\ turn' = NoTurn /\ queue' = <<>>
    /\ Spends /\ UNCHANGED <<ledger, asked>> /\ Kept

\* Code this turn put into the chat, as far as the slice from turn_start shows it.
Salvageable(h, t) ==
    \E i \in (t.start + 1)..Len(h) : Is(h[i], "assistant") /\ h[i].calls = 0 /\ h[i].size = "long"
TriesSalvage(t) == t.edit /\ Untouched(t) /\ "salvage" \notin t.nudged

Salvage(form) ==
    LET h == Append(messages, TextReply(form))
    IN /\ phase = "asking" /\ Due(turn, form) = "none"
       /\ TriesSalvage(turn) /\ Salvageable(h, turn)
       /\ messages' = Append(h, Calling(1, "long"))
       /\ turn' = [Spend(turn) EXCEPT !.nudged = @ \union {"salvage"}]
       /\ phase' = "running" /\ UNCHANGED ledger /\ Replies /\ Kept

\* The last word, after a salvage that found nothing: act now, or accept it.
DescribedOnly(t) == t.edit /\ t.work = "none"
ActNow(form) ==
    /\ phase = "asking" /\ Due(turn, form) = "none"
    /\ DescribedOnly(turn) /\ "act" \notin turn.nudged
    /\ messages' = messages \o <<TextReply(form), Plain("user")>>
    /\ turn' = [Spend(turn) EXCEPT !.nudged = @ \union {"act", "salvage"}]
    /\ phase' = "deciding" /\ UNCHANGED ledger /\ Replies /\ Kept

Accept(form) ==
    /\ phase = "asking" /\ Due(turn, form) = "none"
    /\ ~(DescribedOnly(turn) /\ "act" \notin turn.nudged)
    /\ messages' = Append(messages, TextReply(form))
    /\ stored' = Append(stored, [request |-> turn.request, answered |-> form # "empty"])
    /\ storedLedger' = ledger
    /\ ToPrompt /\ Replies /\ UNCHANGED <<ledger, excused>>

ReplyText(form) == Nudge(form) \/ GiveUp(form) \/ Salvage(form) \/ ActNow(form) \/ Accept(form)

Pending == messages[Len(messages)]
Writes  == Pending.size = "long"

\* A change, once made, is not undone by a later attempt that fails.
After(work, did) == IF work \in {"changed", "broken"} /\ did \notin {"changed", "broken"}
                    THEN work ELSE IF did = "refused" /\ work = "failed" THEN work ELSE did

(* All calls of the reply have run: their results are appended together, and *)
(* a model that repeats itself or only fails is told so (is_stuck_loop wants *)
(* three calls, so two replies). A write is a long call with a short result, *)
(* what reads, searches or runs a command a short call with a long one.      *)
EndCalls ==
    /\ phase = "running"
    /\ \E did \in Work, stuck \in BOOLEAN :
        /\ stuck => turn.left <= MaxTurns - 2
        /\ Writes <=> did # "none"
        /\ messages' = messages
              \o [i \in 1..Pending.calls |-> Result(IF i = 1 /\ ~Writes THEN "long" ELSE "short")]
              \o (IF stuck THEN <<Plain("user")>> ELSE <<>>)
        /\ turn' = [turn EXCEPT !.called = TRUE, !.work = IF Writes THEN After(@, did) ELSE @]
    /\ phase' = "deciding" /\ UNCHANGED ledger /\ Stays

-----------------------------------------------------------------------------
(* How a turn is cut short.                                                 *)

\* variant: the queue is emptied when a turn ends badly
BackendFailsDropping ==
    /\ phase = "asking"
    /\ ToPrompt /\ queue' = <<>> /\ UNCHANGED <<messages, ledger, asked, spent>> /\ Kept

\* The backend fails: the shell reports it and the history stays as it is.
BackendFails ==
    /\ phase = "asking"
    /\ ToPrompt /\ UNCHANGED <<messages, ledger>> /\ Stays

\* A sub-agent's backend call fails: the same handler, with a call unanswered.
SubAgentFails ==
    /\ phase = "running"
    /\ ToPrompt /\ excused' = TRUE
    /\ UNCHANGED <<messages, ledger, queue, asked, spent, stored, storedLedger>>

\* _forget_interrupted_turn: cut the history back to its length at the start.
Forgotten(h, t) ==
    LET cut == SubSeq(h, 1, Min({t.before, Len(h)}))
    IN IF t.before <= 1 THEN cut ELSE cut \o <<Says(<<t.request>>), Plain("assistant")>>

Interrupt ==
    /\ Waiting
    /\ messages' = Forgotten(messages, turn)
    /\ excused' = (excused \/ turn.compacted)
    /\ ToPrompt /\ UNCHANGED <<ledger, queue, asked, spent, stored, storedLedger>>

-----------------------------------------------------------------------------
(* Commands at the prompt.                                                  *)

AtPrompt == phase = "prompt" /\ queue = <<>> /\ Spends /\ UNCHANGED <<queue, asked, turn>>

Clear == /\ AtPrompt /\ messages' = <<Plain("system")>> /\ ledger' = Empty
         /\ excused' = FALSE /\ UNCHANGED <<phase, stored, storedLedger>>

CompactNow ==
    /\ AtPrompt /\ messages' = Compacted(messages, ledger, TRUE)
    /\ ledger' \in (IF Folds(messages, ledger, TRUE) THEN LedgerUpdates(ledger) ELSE {ledger})
    /\ UNCHANGED phase /\ Kept

\* The rows of the finished turns, as load_history gives them back.
Rows == FlattenSeq([i \in DOMAIN stored |->
            <<Says(<<stored[i].request>>)>>
            \o (IF stored[i].answered THEN <<Plain("assistant")>> ELSE <<>>)])
Resume == /\ AtPrompt /\ messages' = <<Plain("system")>> \o Rows /\ ledger' = storedLedger
          /\ excused' = FALSE /\ UNCHANGED <<phase, stored, storedLedger>>

Exit == AtPrompt /\ phase' = "closed" /\ UNCHANGED <<messages, ledger>> /\ Kept

\* `localgate code` again: a new history, and the ledger this project left.
Open == /\ phase = "closed" /\ phase' = "prompt"
        /\ messages' = <<Plain("system")>> /\ ledger' = storedLedger /\ excused' = FALSE
        /\ Spends /\ UNCHANGED <<turn, queue, asked, stored, storedLedger>>

-----------------------------------------------------------------------------
Reply == ReplyCalls \/ \E form \in Forms : ReplyText(form)
Next ==
    \/ Ask \/ RunQueued \/ Submit
    \/ OutOfTurns \/ Decide \/ EndFold \/ Reply \/ EndCalls
    \/ BackendFails \/ SubAgentFails \/ Interrupt
    \/ Clear \/ CompactNow \/ Resume \/ Exit \/ Open

Spec == Init /\ [][Next]_vars
-----------------------------------------------------------------------------
(* Properties. *)

Message == [role : {"system", "user", "assistant", "tool"}, calls : 0..2,
            size : {"short", "long", "cut"}, asks : Seq(Request), handled : BOOLEAN]

(* Every variable holds a value the code can give it: one system prompt, at  *)
(* the head of the history (SessionLedger, AgentSession, run_repl).          *)
TypeOK ==
    /\ messages \in Seq(Message) /\ messages # <<>>
    /\ {i \in DOMAIN messages : Is(messages[i], "system")} = {1}
    /\ ledger \in [goal : Request \union {None}, task : Request \union {None}, notes : BOOLEAN]
    /\ phase \in Phases /\ (phase \in {"prompt", "closed"} <=> turn.request = None)
    /\ turn.left \in 0..MaxTurns /\ turn.nudged \subseteq Nudges /\ turn.work \in Work
    /\ queue \in Seq(Request) /\ asked \in 0..MaxRequests
    /\ phase = "running" => Pending.calls > 0

Answers(h, i, j) == j \in DOMAIN h /\ j > i /\ h[i].calls >= j - i
                    /\ \A k \in (i + 1)..j : Is(h[k], "tool")
Orphan(h, j) == Is(h[j], "tool") /\ ~\E i \in 1..(j - 1) : Answers(h, i, j)
Unanswered(h, i) == h[i].calls > 0 /\ ~Answers(h, i, i + h[i].calls)

(* Whatever was compacted, interrupted, injected or salvaged, a history that  *)
(* is sent or left for the next request has no tool result without the call  *)
(* it answers, and no call without its results, unless a turn was cut short  *)
(* after its history had been compacted under it, or a sub-agent's backend   *)
(* failed (ContextManager.compact, _tail_start, _forget_interrupted_turn,    *)
(* _run_delegated_task).                                                     *)
ResultsFollowTheirCalls ==
    phase # "running" =>
        /\ \A j \in DOMAIN messages : ~Orphan(messages, j)
        /\ (\E i \in DOMAIN messages : Unanswered(messages, i)) => excused

(* Every prompt shows the model the request it is working on, in a message   *)
(* that does not say it was handled already or in the ledger, however long   *)
(* the chain of calls and however often it was folded (SessionLedger).       *)
RequestInSight ==
    phase = "asking" =>
        \/ ledger.task = turn.request
        \/ \E i \in DOMAIN messages :
              ~messages[i].handled /\ turn.request \in Range(messages[i].asks)

(* The results the model is waiting for reach it whole: compaction never     *)
(* elides those of the exchange that ends the history, whether or not a      *)
(* progress check follows them. And it spares nothing else: of a prompt over *)
(* the threshold everything before that exchange has been elided and         *)
(* shortened (compact, _last_exchange_start, _tail_start).                   *)
FreshIntact ==
    LET fresh == (LastExchange(messages) + 1)..Len(messages)
    IN (\A i \in fresh : Is(messages[i], "tool") \/ i = Len(messages)) =>
           \A i \in fresh : messages[i].size # "cut"
RestCompacted ==
    Usage(messages, ledger) > CompactAt =>
        \A i \in 2..(LastExchange(messages) - 1) :
            Is(messages[i], "user") \/ messages[i].size # "long"
CompactsAllButTheFresh == phase = "asking" => FreshIntact /\ RestCompacted

(* A line typed ahead leaves the queue only to be run, first come first run, *)
(* whatever becomes of the turns before it; only the end of the shell drops  *)
(* it (run_repl, InterruptWatcher).                                          *)
TypedAheadIsRun ==
    [][\A r \in Range(queue) :
         \/ r \in Range(queue') \/ phase' = "closed"
         \/ turn'.request = r /\ r = Head(queue)]_vars
=============================================================================
