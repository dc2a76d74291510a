------------------------------- MODULE Memory -------------------------------
(***************************************************************************)
(* The conversation memory of one session (api/chat.py _record_turn,        *)
(* memory/summarizer.py, db/repositories/conversations.py): requests that    *)
(* end together write their two messages each, and each then may fold the    *)
(* older messages into a rolling summary. Every database call is a step, and *)
(* the model writes the summary in between.                                 *)
(*                                                                         *)
(* A message is its created_at, taken from the clock before its INSERT and   *)
(* seen by others once it is committed; no two are the same. A summary is    *)
(* the messages it tells of, and how far it says it reaches. The embedded    *)
(* chunks are only ever searched and are left out.                          *)
(***************************************************************************)
EXTENDS Integers, FiniteSetsExt

CONSTANTS Turns,       \* the requests being recorded
          Threshold,   \* summarize_after_messages
          KeepRecent   \* KEEP_RECENT_MESSAGES

ASSUME MemoryAssumption ==
    Threshold \in Nat \ {0} /\ KeepRecent \in Nat \ {0}

VARIABLES
    clock,      \* the last created_at given out
    messages,   \* the committed messages; late: one of a later time was committed first
    summaries,  \* the committed summaries
    turn        \* the task of each request

memoryVars == <<clock, messages, summaries, turn>>

NoSummary == [covers |-> 0, content |-> {}]
Summaries == [covers : Nat, content : SUBSET Nat]
Steps     == {"user", "user written", "assistant", "assistant written",
              "embedded", "asked", "summarised", "ended"}
\* at: created_at of the message being written; draft: what latest() gave, then
\* the summary being made of it.
NewTurn == [step |-> "user", at |-> 0, draft |-> NoSummary]

MemoryInit ==
    /\ clock = 0 /\ messages = {} /\ summaries = {}
    /\ turn = [t \in Turns |-> NewTurn]

-----------------------------------------------------------------------------
Step(t, from, to) == turn[t].step = from /\ turn' = [turn EXCEPT ![t].step = to]

(* add_message: the time is taken, then the row written and committed.      *)
Stamp(t, from, to) ==
    /\ turn[t].step = from /\ clock' = clock + 1
    /\ turn' = [turn EXCEPT ![t].step = to, ![t].at = clock + 1]
    /\ UNCHANGED <<messages, summaries>>
Commit(t, from, to) ==
    /\ Step(t, from, to)
    /\ messages' = messages \union {[at |-> turn[t].at, late |-> \E m \in messages : m.at > turn[t].at]}
    /\ UNCHANGED <<clock, summaries>>

StampUser(t)       == Stamp(t, "user", "user written")
CommitUser(t)      == Commit(t, "user written", "assistant")
StampAssistant(t)  == Stamp(t, "assistant", "assistant written")
CommitAssistant(t) == Commit(t, "assistant written", "embedded")

(* After _store_memory, which an HTTP error does not stop: latest().        *)
Latest == IF summaries = {} THEN NoSummary
          ELSE CHOOSE s \in summaries : \A o \in summaries : o.covers <= s.covers
ReadLatest(t) ==
    /\ turn[t].step = "embedded"
    /\ turn' = [turn EXCEPT ![t].step = "asked", ![t].draft = Latest]
    /\ UNCHANGED <<clock, messages, summaries>>

(* messages_after(), and all of it but the live tail goes to the model.      *)
MessagesAfter(time) == {m \in messages : m.at > time}
ToSummarize(pending) == {m \in pending : Cardinality({n \in pending : n.at > m.at}) >= KeepRecent}
\* variant: the summary claims to reach to the end of what was read
CoversUntilAll(pending) == Max({m.at : m \in pending})
CoversUntil(pending) == Max({m.at : m \in ToSummarize(pending)})
Due(pending) == Cardinality(pending) >= Threshold /\ ToSummarize(pending) # {}
ReadPending(t) ==
    /\ turn[t].step = "asked"
    /\ LET pending == MessagesAfter(turn[t].draft.covers)
       IN turn' = IF Due(pending)
                  THEN [turn EXCEPT ![t].step = "summarised",
                           ![t].draft = [covers  |-> CoversUntil(pending),
                                         content |-> @.content \union {m.at : m \in ToSummarize(pending)}]]
                  ELSE [turn EXCEPT ![t] = [NewTurn EXCEPT !.step = "ended"]]
    /\ UNCHANGED <<clock, messages, summaries>>

(* The model answered: the summary is written.                              *)
AddSummary(t) ==
    /\ turn[t].step = "summarised"
    /\ summaries' = summaries \union {turn[t].draft}
    /\ turn' = [turn EXCEPT ![t] = [NewTurn EXCEPT !.step = "ended"]]
    /\ UNCHANGED <<clock, messages>>

(* Memory off or nothing said; an error that ends the recording; the model    *)
(* failing to summarise; a task cancelled, whose open write is undone.       *)
EndTurn(t) ==
    /\ turn[t].step \notin {"user", "ended"}
    /\ turn' = [turn EXCEPT ![t] = [NewTurn EXCEPT !.step = "ended"]]
    /\ UNCHANGED <<clock, messages, summaries>>

RecordTurn(t) ==
    \/ StampUser(t) \/ CommitUser(t) \/ StampAssistant(t) \/ CommitAssistant(t)
    \/ ReadLatest(t) \/ ReadPending(t) \/ AddSummary(t) \/ EndTurn(t)
MemoryNext == \E t \in Turns : RecordTurn(t)

MemorySpec == MemoryInit /\ [][MemoryNext]_memoryVars
-----------------------------------------------------------------------------
(* Properties. *)

MemoryTypeOK ==
    /\ clock \in Nat
    /\ messages \in SUBSET [at : 1..clock, late : BOOLEAN]
    /\ summaries \in SUBSET Summaries
    /\ turn \in [Turns -> [step : Steps, at : 0..clock, draft : Summaries]]

(* What any summary of the session has put behind it is told by the summary  *)
(* that is recalled, whatever turns ended together and in whatever order     *)
(* their summaries were written; excepted is a message that was committed    *)
(* after one of a later time, which no summary may ever see (maybe_summarize, *)
(* SummaryRepository.latest).                                               *)
SummariesKeepThePast ==
    \A s \in summaries : \A m \in messages :
        m.at <= s.covers /\ ~m.late => m.at \in Latest.content
=============================================================================
