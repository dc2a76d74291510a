------------------------------ MODULE AgentWrites ------------------------------
(***************************************************************************)
(* How the coding agent changes the files of a project: a session's tool   *)
(* calls (AgentSession of src/localgate/agent/loop.py), the thread that    *)
(* carries a call out (agent/tool_executor.py, agent/tools.py), the gate   *)
(* that asks the user and remembers what to undo (WriteGate and run_turn   *)
(* of agent/repl.py).                                                      *)
(*                                                                         *)
(* A call passes the session's own rules, then the gate, then runs in a    *)
(* thread, which goes on when the call times out or the turn is            *)
(* interrupted.  The model's calls and the user's answers are arbitrary.   *)
(* Other programs, the user's editor and the agent's shell commands change *)
(* files at any moment (Outside).  A sub-agent is a session of its own,    *)
(* running inside a call of the main one.                                  *)
(*                                                                         *)
(* A file is abstracted to the text of each of its parts, so that a page   *)
(* read or an edit concerns a part of it.  A hash of a file stands for its *)
(* content.  Left out: path spellings and the project boundary, text       *)
(* conversions, the nudges of a turn's loop, git commits, and tools that   *)
(* touch no file.  A tool looks at a file and changes it in one step, and  *)
(* reads that the code runs side by side follow one another.  Definitions  *)
(* marked "variant" are slips a change to this code could make.            *)
(***************************************************************************)
EXTENDS Naturals, Sequences, FiniteSets, SequencesExt

CONSTANTS
  Path, Part, Value,
  NoFile,                 \* what a path holds that is no file
  MAX_REWRITES_PER_FILE,
  Proposed,               \* bound: the whole contents the model writes
  MaxCalls,               \* bound: messages and tool calls of the whole session
  MaxMishaps              \* bound: changes by others, failures, time-outs, interruptions,
                          \*   mode switches

Content == [Part -> Value]
File == Content \cup {NoFile}
Session == {"main", "sub"}
Mode == {"manual", "auto", "plan"}

ASSUME AgentAssumption ==
  /\ NoFile \notin Content /\ Proposed \subseteq Content /\ Part # {}
  /\ MAX_REWRITES_PER_FILE \in Nat

VARIABLES
  disk,
  turn,         \* the session that runs, or "idle", or "review" of queued writes
  call,         \* its call under way
  late,         \* writes whose call is over and whose thread is not, with their call's number
  readPaths,    \* _read_paths of each session
  seen,         \* _seen: the content each session last knew of, NoFile for none
  rewrites,     \* _task_rewrites
  answers,      \* _seen_results that are still of use
  mode,         \* WriteGate.mode()
  pending,      \* pending_writes
  checkpoints,  \* checkpoints, oldest first
  calls, mishaps,  \* what the bounds count
  unseen,       \* history: the parts whose text a session has neither read nor written
  window,       \* history: what a file held in the turn the main session last looked at it
  base,         \* history: each file without the agent's writes
  spoiled       \* history: files the checkpoints cannot account for

gate == <<mode, pending, checkpoints>>
knowledge == <<readPaths, seen, rewrites, answers>>
vars == <<disk, turn, call, late, knowledge, gate, calls, mishaps, unseen, window, base, spoiled>>

-----------------------------------------------------------------------------
(* Tool calls and what they do to a file (tools.py).                        *)

Edit == [tool : {"edit_file"}, path : Path, part : Part, old : Value, new : Value]
Whole == [tool : {"write_file", "create_file", "update_file"}, path : Path, new : Proposed]
Delete == [tool : {"delete_file"}, path : Path]
Mutation == Edit \cup Whole \cup Delete

Reading == [tool : {"read_file"}, path : Path, view : SUBSET Part \ {{}}]

Applies(op, file) ==
  CASE op.tool = "edit_file" -> file # NoFile /\ file[op.part] = op.old
    [] op.tool = "create_file" -> file = NoFile
    [] op.tool = "write_file" -> TRUE
    [] OTHER -> file # NoFile

After(op, file) ==
  CASE op.tool = "edit_file" -> [file EXCEPT ![op.part] = op.new]
    [] op.tool = "delete_file" -> NoFile
    [] OTHER -> op.new

\* The parts of a file whose text the model chose itself.
Written(op) == IF op.tool = "edit_file" THEN {op.part} ELSE Part

Differing(f, g) == IF NoFile \in {f, g} THEN Part ELSE {x \in Part : f[x] # g[x]}

NoCall == [stage |-> "none"]
Calls ==
  {NoCall} \cup [stage : {"reading"}, op : Reading, file : File]
           \cup [stage : {"asking", "writing", "written"}, op : Mutation, file : File]
Underway(stage, op, file) == [stage |-> stage, op |-> op, file |-> file]

Mishap == mishaps < MaxMishaps /\ mishaps' = mishaps + 1

Running == turn \in Session
Free == Running /\ call = NoCall /\ calls < MaxCalls
At(stage) == Running /\ call.stage = stage

\* Path p of the disk becomes f.
Put(p, f) ==
  /\ disk' = [disk EXCEPT ![p] = f]
  /\ unseen' = [s \in Session |-> [unseen[s] EXCEPT ![p] = @ \cup Differing(disk[p], f)]]
  /\ window' = [window EXCEPT ![p] = IF Running /\ p \in readPaths["main"] THEN @ \cup {f} ELSE @]

\* _mark_seen, and what the model has been shown of the file: the parts of view
\* whose text is still the one of told.
MarkSeen(s, p, view, told) ==
  /\ readPaths' = [readPaths EXCEPT ![s] = @ \cup {p}]
  /\ seen' = [seen EXCEPT ![s][p] = IF disk[p] = NoFile THEN @ ELSE disk[p]]
  /\ unseen' = [unseen EXCEPT ![s][p] = @ \ (view \ Differing(disk[p], told))]
  /\ window' = IF s = "sub" \/ disk[p] = NoFile THEN window
               ELSE [window EXCEPT ![p] = IF p \in readPaths[s] THEN @ \cup {disk[p]} ELSE {disk[p]}]

-----------------------------------------------------------------------------
(* Checkpoints.                                                             *)

Saved(p) == {i \in DOMAIN checkpoints : checkpoints[i].path = p}

Checkpoint(p, previous) ==
  checkpoints' = Append(checkpoints, [path |-> p, previous |-> previous])

-----------------------------------------------------------------------------

Init ==
  /\ disk \in [Path -> File]
  /\ turn = "idle" /\ call = NoCall /\ late = {}
  /\ readPaths = [s \in Session |-> {}]
  /\ seen = [s \in Session |-> [p \in Path |-> NoFile]]
  /\ rewrites = [s \in Session |-> [p \in Path |-> 0]]
  /\ answers = [s \in Session |-> {}]
  /\ mode \in Mode
  /\ pending = <<>> /\ checkpoints = <<>>
  /\ calls = 0 /\ mishaps = 0
  /\ unseen = [s \in Session |-> [p \in Path |-> Part]]
  /\ window = [p \in Path |-> {}]
  /\ base = disk /\ spoiled = {}

StartTurnStale(attached) ==  \* variant: _read_paths is not reset
  /\ turn = "idle" /\ calls < MaxCalls
  /\ calls' = calls + 1
  /\ turn' = "main"
  /\ readPaths' = [readPaths EXCEPT !["main"] = @ \cup attached]
  /\ seen' = [seen EXCEPT !["main"] = [p \in Path |-> IF p \in attached THEN disk[p] ELSE @[p]]]
  /\ rewrites' = [rewrites EXCEPT !["main"] = [p \in Path |-> 0]]
  /\ answers' = [answers EXCEPT !["main"] = {}]
  /\ unseen' = [unseen EXCEPT !["main"] = [p \in Path |-> IF p \in attached THEN {} ELSE @[p]]]
  /\ window' = [p \in Path |-> IF p \in attached THEN {disk[p]} ELSE window[p]]
  /\ UNCHANGED <<disk, call, late, gate, mishaps, base, spoiled>>

\* send: per-turn state is dropped, _seen stays.  The files attached to the
\* message (and, in a first message, the small files of the project) are read.
StartTurn(attached) ==
  /\ turn = "idle" /\ calls < MaxCalls
  /\ calls' = calls + 1
  /\ turn' = "main"
  /\ readPaths' = [readPaths EXCEPT !["main"] = attached]
  /\ seen' = [seen EXCEPT !["main"] = [p \in Path |-> IF p \in attached THEN disk[p] ELSE @[p]]]
  /\ rewrites' = [rewrites EXCEPT !["main"] = [p \in Path |-> 0]]
  /\ answers' = [answers EXCEPT !["main"] = {}]
  /\ unseen' = [unseen EXCEPT !["main"] = [p \in Path |-> IF p \in attached THEN {} ELSE @[p]]]
  /\ window' = [p \in Path |-> IF p \in attached THEN {disk[p]} ELSE window[p]]
  /\ UNCHANGED <<disk, call, late, gate, mishaps, base, spoiled>>

-----------------------------------------------------------------------------
(* Reading.                                                                 *)

Told(op) == {a \in answers[turn] : a.op = op}

\* The same call again, no file changed by this session since: the old answer.
Repeat(op) ==
  /\ Free /\ Told(op) # {}
  /\ calls' = calls + 1
  /\ UNCHANGED <<disk, turn, call, late, knowledge, gate, mishaps, unseen, window, base, spoiled>>

\* The thread reads; the session hears of it later.
Read(op) ==
  /\ Free /\ Told(op) = {}
  /\ calls' = calls + 1
  /\ call' = Underway("reading", op, disk[op.path])
  /\ UNCHANGED <<disk, turn, late, knowledge, gate, mishaps, unseen, window, base, spoiled>>

Remember(file) == answers' = [answers EXCEPT ![turn] = @ \cup {[op |-> call.op, file |-> file]}]

FinishRead ==
  /\ At("reading") /\ call.file # NoFile
  /\ Remember(call.file)
  /\ MarkSeen(turn, call.op.path, call.op.view, call.file)
  /\ call' = NoCall
  /\ UNCHANGED <<disk, turn, late, rewrites, gate, calls, mishaps, base, spoiled>>

\* No such file, or the read timed out: the error is remembered like an answer.
ReadFails ==
  /\ At("reading")
  /\ IF call.file = NoFile THEN UNCHANGED mishaps ELSE Mishap
  /\ Remember(NoFile)
  /\ call' = NoCall
  /\ UNCHANGED <<disk, turn, late, readPaths, seen, rewrites, gate, calls, unseen, window, base, spoiled>>

-----------------------------------------------------------------------------
(* Changing a file: the session's rules, _execute_tool_call.                *)

Exists(p) == disk[p] # NoFile

Rewriting(op) == op.tool \in {"write_file", "update_file"}

\* _refuse_mutation: attempts are counted, whatever comes of them.
LimitReached(op) == Rewriting(op) /\ rewrites[turn][op.path] >= MAX_REWRITES_PER_FILE
Count(op) ==
  rewrites' = IF Rewriting(op) THEN [rewrites EXCEPT ![turn][op.path] = @ + 1] ELSE rewrites

NeedsRead(op) ==
  op.tool \in {"update_file", "delete_file"} \/ (op.tool = "write_file" /\ Exists(op.path))

Known(s, p) == p \in readPaths[s] \/ (Exists(p) /\ seen[s][p] = disk[p])

Admitted(op) ==
  /\ ~LimitReached(op)
  /\ op.tool = "create_file" => ~Exists(op.path)
  /\ NeedsRead(op) => Known(turn, op.path)
  /\ op.tool = "edit_file" => Applies(op, disk[op.path])   \* its preview

\* Over the limit, a file to create that exists, an edit whose text is not there.
Refuse(op) ==
  /\ Free
  /\ \/ LimitReached(op)
     \/ op.tool = "create_file" /\ Exists(op.path)
     \/ op.tool = "edit_file" /\ ~Applies(op, disk[op.path])
  /\ calls' = calls + 1
  /\ UNCHANGED <<disk, turn, call, late, knowledge, gate, mishaps, unseen, window, base, spoiled>>

\* Not read first: the refusal shows the model a page of the file instead.
RefuseUnread(op) ==
  /\ Free /\ ~LimitReached(op)
  /\ NeedsRead(op) /\ ~Known(turn, op.path)
  /\ calls' = calls + 1
  /\ Count(op)
  /\ \/ Exists(op.path) /\ \E view \in SUBSET Part \ {{}} :
                             MarkSeen(turn, op.path, view, disk[op.path])
     \/ ~Exists(op.path) /\ UNCHANGED <<readPaths, seen, unseen, window>>
  /\ UNCHANGED <<disk, turn, call, late, answers, gate, mishaps, base, spoiled>>

(* The gate: WriteGate.confirm_write.                                       *)

Propose(op) ==
  /\ Free /\ Admitted(op)
  /\ calls' = calls + 1
  /\ Count(op)

\* The user, asked once a session whether to go on over uncommitted changes, says no.
\* The model lets that happen at any proposal.
Bail(op) ==
  /\ Propose(op)
  /\ UNCHANGED <<disk, turn, call, late, readPaths, seen, answers, gate, mishaps, unseen, window, base, spoiled>>

\* Plan mode: the whole new content is queued, and the model is told "declined".
Queue(op) ==
  /\ Propose(op) /\ mode = "plan"
  /\ pending' = Append(pending, [path |-> op.path, new |-> After(op, disk[op.path])])
  /\ UNCHANGED <<disk, turn, call, late, readPaths, seen, answers, mode, checkpoints,
                 mishaps, unseen, window, base, spoiled>>

\* Auto mode does not ask about new files.
Asks(op) == mode = "manual" \/ Exists(op.path) \/ op.tool = "delete_file"

AutoApprove(op) ==
  /\ Propose(op) /\ mode = "auto" /\ ~Asks(op)
  /\ call' = Underway("writing", op, NoFile)
  /\ Checkpoint(op.path, NoFile)
  /\ UNCHANGED <<disk, turn, late, readPaths, seen, answers, mode, pending,
                 mishaps, unseen, window, base, spoiled>>

\* The file is read for the diff, then the user is asked.
Ask(op) ==
  /\ Propose(op) /\ mode # "plan" /\ Asks(op)
  /\ call' = Underway("asking", op, disk[op.path])
  /\ UNCHANGED <<disk, turn, late, readPaths, seen, answers, gate, mishaps, unseen, window, base, spoiled>>

Approve ==
  /\ At("asking")
  /\ Checkpoint(call.op.path, call.file)
  /\ call' = Underway("writing", call.op, NoFile)
  /\ UNCHANGED <<disk, turn, late, knowledge, mode, pending, calls, mishaps, unseen, window, base, spoiled>>

Decline ==
  /\ At("asking")
  /\ call' = NoCall
  /\ UNCHANGED <<disk, turn, late, knowledge, gate, calls, mishaps, unseen, window, base, spoiled>>

(* The thread, and what the session makes of its result.                    *)

Execute ==
  /\ At("writing") /\ Applies(call.op, disk[call.op.path])
  /\ Put(call.op.path, After(call.op, disk[call.op.path]))
  /\ call' = Underway("written", call.op, disk'[call.op.path])
  /\ UNCHANGED <<turn, late, knowledge, gate, calls, mishaps, base, spoiled>>

\* The file is not as the tool needs it, or the system refuses the write.
ExecuteFails ==
  /\ At("writing")
  /\ IF Applies(call.op, disk[call.op.path]) THEN Mishap ELSE UNCHANGED mishaps
  /\ call' = NoCall
  /\ UNCHANGED <<disk, turn, late, knowledge, gate, calls, unseen, window, base, spoiled>>

FinishWriteUnmarked ==  \* variant: what was written is not marked as seen
  /\ At("written")
  /\ answers' = [answers EXCEPT ![turn] = {}]
  /\ unseen' = [unseen EXCEPT ![turn][call.op.path] =
                   @ \ (Written(call.op) \ Differing(disk[call.op.path], call.file))]
  /\ call' = NoCall
  /\ UNCHANGED <<disk, turn, late, readPaths, seen, rewrites, gate, calls, mishaps, window, base, spoiled>>

\* A change makes every answer given so far out of date.
FinishWrite ==
  /\ At("written")
  /\ answers' = [answers EXCEPT ![turn] = {}]
  /\ IF call.op.tool = "delete_file"
       THEN UNCHANGED <<readPaths, seen, unseen, window>>
       ELSE MarkSeen(turn, call.op.path, Written(call.op), call.file)
  /\ call' = NoCall
  /\ UNCHANGED <<disk, turn, late, rewrites, gate, calls, mishaps, base, spoiled>>

\* What a call leaves behind when nobody waits for it any more.
Outlives == late' = IF call.stage = "writing" THEN late \cup {[op |-> call.op, number |-> calls]} ELSE late

TimeOut ==
  /\ Mishap
  /\ At("writing")
  /\ Outlives
  /\ call' = NoCall
  /\ UNCHANGED <<disk, turn, knowledge, gate, calls, unseen, window, base, spoiled>>

LateWrite(w) ==
  /\ late' = late \ {w}
  /\ LET p == w.op.path IN
       IF Applies(w.op, disk[p])
         THEN /\ Put(p, After(w.op, disk[p]))
              /\ spoiled' = IF Saved(p) = {} THEN spoiled \cup {p} ELSE spoiled
         ELSE UNCHANGED <<disk, unseen, window, spoiled>>
  /\ UNCHANGED <<turn, call, knowledge, gate, calls, mishaps, base>>

-----------------------------------------------------------------------------
(* Sub-agents and the end of a turn.                                        *)

\* delegate_task runs a new session that shares the files and the gate.  It is
\* shown the small files of the project.
Delegate(attached) ==
  /\ Free /\ turn = "main"
  /\ calls' = calls + 1
  /\ turn' = "sub"
  /\ readPaths' = [readPaths EXCEPT !["sub"] = attached]
  /\ seen' = [seen EXCEPT !["sub"] = [p \in Path |-> IF p \in attached THEN disk[p] ELSE NoFile]]
  /\ unseen' = [unseen EXCEPT !["sub"] = [p \in Path |-> IF p \in attached THEN {} ELSE Part]]
  /\ UNCHANGED <<disk, call, late, rewrites, answers, gate, mishaps, window, base, spoiled>>

\* The sub-agent's session is dropped with all it knew.
DropSub ==
  /\ readPaths' = [readPaths EXCEPT !["sub"] = {}]
  /\ seen' = [seen EXCEPT !["sub"] = [p \in Path |-> NoFile]]
  /\ rewrites' = [rewrites EXCEPT !["sub"] = [p \in Path |-> 0]]
  /\ answers' = [answers EXCEPT !["sub"] = {}]
  /\ unseen' = [unseen EXCEPT !["sub"] = [p \in Path |-> Part]]

\* The sub-agent answers, or its time is up and it is cancelled.
EndSub ==
  /\ turn = "sub" /\ call.stage # "asking"
  /\ Outlives
  /\ call' = NoCall
  /\ turn' = "main"
  /\ DropSub
  /\ UNCHANGED <<disk, gate, calls, mishaps, window, base, spoiled>>

Reviewed == turn' = IF mode = "plan" /\ pending # <<>> THEN "review" ELSE "idle"

EndTurn ==
  /\ turn = "main" /\ call = NoCall
  /\ Reviewed
  /\ UNCHANGED <<disk, call, late, knowledge, gate, calls, mishaps, unseen, window, base, spoiled>>

\* Esc cancels the turn wherever it waits, except at a question.
Interrupt ==
  /\ Mishap
  /\ Running /\ call.stage # "asking"
  /\ Outlives
  /\ call' = NoCall
  /\ Reviewed
  /\ DropSub
  /\ UNCHANGED <<disk, gate, calls, window, base, spoiled>>

\* The backend fails or the turn limit is reached: run_turn ends by an exception.
FailTurn ==
  /\ Mishap
  /\ Running /\ call = NoCall
  /\ turn' = "idle"
  /\ DropSub
  /\ UNCHANGED <<disk, call, late, gate, calls, window, base, spoiled>>

\* flush_plan, one queued write at a time: the user picks it or not.
Pick ==
  /\ turn = "review"
  /\ LET w == Head(pending) IN
       /\ w.new = NoFile => Exists(w.path)
       /\ Put(w.path, w.new)
       /\ Checkpoint(w.path, disk[w.path])
  /\ pending' = Tail(pending)
  /\ turn' = IF Tail(pending) = <<>> THEN "idle" ELSE "review"
  /\ UNCHANGED <<call, late, knowledge, mode, calls, mishaps, base, spoiled>>

DiscardOne ==  \* variant: the review goes on when nothing is left
  /\ turn = "review"
  /\ pending' = Tail(pending)
  /\ UNCHANGED <<disk, turn, call, late, knowledge, mode, checkpoints, calls, mishaps,
                 unseen, window, base, spoiled>>

\* Not picked, or the write fails.
Discard ==
  /\ turn = "review"
  /\ pending' = Tail(pending)
  /\ turn' = IF Tail(pending) = <<>> THEN "idle" ELSE "review"
  /\ UNCHANGED <<disk, call, late, knowledge, mode, checkpoints, calls, mishaps,
                 unseen, window, base, spoiled>>

-----------------------------------------------------------------------------
(* Between turns.                                                           *)

UndoFirst ==  \* variant: checkpoints are taken from the wrong end
  /\ turn = "idle" /\ checkpoints # <<>>
  /\ LET c == Head(checkpoints) IN Put(c.path, c.previous)
  /\ checkpoints' = Tail(checkpoints)
  /\ UNCHANGED <<turn, call, late, knowledge, mode, pending, calls, mishaps, base, spoiled>>

\* /undo, and one step of /rewind.
Undo ==
  /\ turn = "idle" /\ checkpoints # <<>>
  /\ LET c == Last(checkpoints) IN Put(c.path, c.previous)
  /\ checkpoints' = Front(checkpoints)
  /\ UNCHANGED <<turn, call, late, knowledge, mode, pending, calls, mishaps, base, spoiled>>

\* The result of the restoring write is not looked at: the checkpoint is gone.
UndoFails ==
  /\ Mishap
  /\ turn = "idle" /\ checkpoints # <<>>
  /\ checkpoints' = Front(checkpoints)
  /\ LET p == Last(checkpoints).path IN
       spoiled' = IF Saved(p) = {Len(checkpoints)} THEN spoiled \cup {p} ELSE spoiled
  /\ UNCHANGED <<disk, turn, call, late, knowledge, mode, pending, calls, unseen, window, base>>

\* /clear: AgentSession.reset.
Reset ==
  /\ turn = "idle"
  /\ seen' = [seen EXCEPT !["main"] = [p \in Path |-> NoFile]]
  /\ unseen' = [unseen EXCEPT !["main"] = [p \in Path |-> Part]]
  /\ UNCHANGED <<disk, turn, call, late, readPaths, rewrites, answers, gate, calls, mishaps,
                 window, base, spoiled>>

\* Shift+Tab, at the prompt and while the agent works.
CycleMode ==
  /\ Mishap
  /\ turn # "review" /\ call.stage # "asking"
  /\ mode' = CASE mode = "manual" -> "auto" [] mode = "auto" -> "plan" [] mode = "plan" -> "manual"
  /\ UNCHANGED <<disk, turn, call, late, knowledge, pending, checkpoints, calls,
                 unseen, window, base, spoiled>>

\* Another program changes a file.  Where the agent has not changed it and is not
\* asking to, this is the state a rewind is to come back to.
Outside(p, f) ==
  /\ Mishap
  /\ f # disk[p]
  /\ Put(p, f)
  /\ IF Saved(p) = {} /\ ~(call.stage = "asking" /\ call.op.path = p)
       THEN base' = [base EXCEPT ![p] = f] /\ spoiled' = spoiled \ {p}
       ELSE spoiled' = spoiled \cup {p} /\ UNCHANGED base
  /\ UNCHANGED <<turn, call, late, knowledge, gate, calls>>

-----------------------------------------------------------------------------

Propositions(op) == Refuse(op) \/ RefuseUnread(op) \/ Bail(op) \/ Queue(op) \/ AutoApprove(op) \/ Ask(op)

Next ==
  \/ \E attached \in SUBSET {p \in Path : Exists(p)} : StartTurn(attached) \/ Delegate(attached)
  \/ \E op \in Reading : Repeat(op) \/ Read(op)
  \/ FinishRead \/ ReadFails
  \/ \E op \in Mutation : Propositions(op)
  \/ Approve \/ Decline \/ Execute \/ ExecuteFails \/ FinishWrite \/ TimeOut
  \/ \E w \in late : LateWrite(w)
  \/ EndSub \/ EndTurn \/ Interrupt \/ FailTurn
  \/ Pick \/ Discard
  \/ Undo \/ UndoFails \/ Reset \/ CycleMode
  \/ \E p \in Path, f \in File : Outside(p, f)

Spec == Init /\ [][Next]_vars

-----------------------------------------------------------------------------

\* Every variable keeps its type.
TypeOK ==
  /\ disk \in [Path -> File] /\ base \in [Path -> File] /\ spoiled \subseteq Path
  /\ turn \in Session \cup {"idle", "review"}
  /\ call \in Calls /\ late \subseteq [op : Mutation, number : Nat]
  /\ turn \notin Session => call = NoCall
  /\ readPaths \in [Session -> SUBSET Path]
  /\ seen \in [Session -> [Path -> File]]
  /\ rewrites \in [Session -> [Path -> 0..MAX_REWRITES_PER_FILE]]
  /\ answers \in [Session -> SUBSET [op : Reading, file : File]]
  /\ mode \in Mode
  /\ pending \in Seq([path : Path, new : File])
  /\ turn = "review" => pending # <<>>
  /\ checkpoints \in Seq([path : Path, previous : File])
  /\ calls \in Nat /\ mishaps \in Nat
  /\ unseen \in [Session -> [Path -> SUBSET Part]]
  /\ window \in [Path -> SUBSET File]

\* "A file changed by someone else in between must be read again" (_known): a full
\* rewrite or delete is let through only if the file is as it was at some moment of
\* the turn in which the model last looked at it, from that look on.  In particular
\* nothing that others did between two turns is overwritten before it was looked at.
ForeignWorkIsReadFirst ==
  [][\A op \in Whole \cup Delete :
       turn = "main" /\ Exists(op.path) /\ disk[op.path] \notin window[op.path]
         => ~(Queue(op) \/ AutoApprove(op) \/ Ask(op))]_vars

\* "The model just wrote it, so a follow-up edit needn't re-read the file first": a
\* session is told to read a file only if the file holds text it has not seen,
\* because it never looked or because something else changed the file.
RefusedForUnseenOnly ==
  [][\A op \in Mutation :
       Running /\ Exists(op.path) /\ unseen[turn][op.path] = {} => ~RefuseUnread(op)]_vars

\* Checkpoint: "enough to put it back".  Rewinding every checkpoint (which ends with
\* the first one of each file) restores each file to what it was before the agent
\* changed it, whatever the mix of approved, failed, timed-out, interrupted,
\* delegated and planned writes and undos.  Files are excepted that others changed
\* after the agent or under its question, that a late write changed after its
\* checkpoint was used up, or that an undo failed on.
RewindRestores ==
  \A p \in Path \ spoiled :
    /\ Saved(p) = {} => disk[p] = base[p]
    /\ \A i \in Saved(p) : (\A j \in Saved(p) : i <= j) => checkpoints[i].previous = base[p]
=============================================================================
