-------------------------- MODULE AgentWritesProofs --------------------------
(***************************************************************************)
(* Proofs about AgentWrites.tla and WebSearch.tla, for any project and     *)
(* any mishaps: rewinding restores every file it answers for, the work of  *)
(* others is read before it is rewritten and nobody is sent to read what   *)
(* it knows, answers of a search are recent, and no private host is asked. *)
(***************************************************************************)
EXTENDS AgentWrites, WebSearch, SequenceTheorems, TLAPS

-----------------------------------------------------------------------------
(* The helpers keep the types.                                              *)

\* A tool leaves a file's content or no file.
LEMMA AfterTyped ==
  ASSUME NEW op \in Mutation, NEW file \in File, op \in Edit => file # NoFile
  PROVE  After(op, file) \in File
<1>1. CASE op \in Edit
  BY <1>1 DEF Edit, After, File, Content
<1>2. CASE op \in Whole
  BY <1>2, AgentAssumption DEF Whole, After, File
<1>3. CASE op \in Delete
  BY <1>3 DEF Delete, After, File
<1> QED
  BY <1>1, <1>2, <1>3 DEF Mutation

\* An edit that applies has a file to edit.
LEMMA AppliesToFile ==
  ASSUME NEW op \in Mutation, NEW file \in File, Applies(op, file)
  PROVE  After(op, file) \in File
<1>1. op \in Edit => file # NoFile
  BY DEF Edit, Applies
<1> QED
  BY <1>1, AfterTyped

\* Parts that differ are parts.
LEMMA DifferingTyped == ASSUME NEW f, NEW g PROVE Differing(f, g) \subseteq Part
BY DEF Differing

\* Put keeps the types of what it changes.
LEMMA PutTyped ==
  ASSUME TypeOK, NEW p \in Path, NEW f \in File, Put(p, f)
  PROVE  /\ disk' \in [Path -> File]
         /\ unseen' \in [Session -> [Path -> SUBSET Part]]
         /\ window' \in [Path -> SUBSET File]
<1>1. disk' \in [Path -> File]
  BY DEF TypeOK, Put
<1>2. unseen' \in [Session -> [Path -> SUBSET Part]]
  <2>1. \A s \in Session : unseen[s] \in [Path -> SUBSET Part]
    BY DEF TypeOK
  <2>2. \A s \in Session : [unseen[s] EXCEPT ![p] = @ \cup Differing(disk[p], f)] \in [Path -> SUBSET Part]
    BY <2>1, DifferingTyped
  <2> QED
    BY <2>2 DEF Put
<1>3. window' \in [Path -> SUBSET File]
  BY DEF TypeOK, Put
<1> QED
  BY <1>1, <1>2, <1>3

\* MarkSeen keeps the types of what it changes.
LEMMA MarkSeenTyped ==
  ASSUME TypeOK, NEW s \in Session, NEW p \in Path, NEW view, NEW told, MarkSeen(s, p, view, told)
  PROVE  /\ readPaths' \in [Session -> SUBSET Path]
         /\ seen' \in [Session -> [Path -> File]]
         /\ unseen' \in [Session -> [Path -> SUBSET Part]]
         /\ window' \in [Path -> SUBSET File]
<1>1. readPaths' \in [Session -> SUBSET Path]
  BY DEF TypeOK, MarkSeen
<1>2. seen' \in [Session -> [Path -> File]]
  BY DEF TypeOK, MarkSeen
<1>3. unseen' \in [Session -> [Path -> SUBSET Part]]
  BY DEF TypeOK, MarkSeen
<1>4. window' \in [Path -> SUBSET File]
  BY DEF TypeOK, MarkSeen
<1> QED
  BY <1>1, <1>2, <1>3, <1>4

\* A count that starts again.
LEMMA NoRewritesTyped == [p \in Path |-> 0] \in [Path -> 0..MAX_REWRITES_PER_FILE]
<1>1. 0 \in 0..MAX_REWRITES_PER_FILE
  BY AgentAssumption
<1> QED
  BY <1>1

\* Counting an attempt stays within the limit, which was tested first.
LEMMA CountTyped ==
  ASSUME TypeOK, turn \in Session, NEW op \in Mutation, ~LimitReached(op), Count(op)
  PROVE  rewrites' \in [Session -> [Path -> 0..MAX_REWRITES_PER_FILE]]
<1>1. op.path \in Path
  BY DEF Mutation, Edit, Whole, Delete
<1>2. CASE Rewriting(op)
  <2>1. rewrites[turn][op.path] \in 0..MAX_REWRITES_PER_FILE
    BY <1>1 DEF TypeOK
  <2>2. rewrites[turn][op.path] + 1 \in 0..MAX_REWRITES_PER_FILE
    BY <1>2, <2>1, AgentAssumption DEF LimitReached
  <2> QED
    BY <1>1, <1>2, <2>2 DEF Count, TypeOK
<1>3. CASE ~Rewriting(op)
  BY <1>3 DEF Count, TypeOK
<1> QED
  BY <1>2, <1>3

\* The checkpoints without the newest one.
LEMMA FrontOfCheckpoints ==
  ASSUME TypeOK, checkpoints # <<>>
  PROVE  /\ Front(checkpoints) \in Seq([path : Path, previous : File])
         /\ Len(Front(checkpoints)) = Len(checkpoints) - 1
         /\ \A i \in 1..Len(checkpoints) - 1 : Front(checkpoints)[i] = checkpoints[i]
         /\ Last(checkpoints) \in [path : Path, previous : File]
         /\ Len(checkpoints) \in Nat \ {0}
<1> DEFINE C == [path : Path, previous : File]
<1>1. checkpoints \in Seq(C) /\ Len(checkpoints) \in Nat \ {0}
  BY EmptySeq DEF TypeOK
<1> HIDE DEF C
<1>2. \A i \in 1..Len(checkpoints) : checkpoints[i] \in C
  BY <1>1, ElementOfSeq
<1>3. \A i \in 1..Len(checkpoints) - 1 : checkpoints[i] \in C
  BY <1>1, <1>2
<1>4. /\ SubSeq(checkpoints, 1, Len(checkpoints) - 1) \in Seq(C)
      /\ Len(SubSeq(checkpoints, 1, Len(checkpoints) - 1))
           = IF 1 <= Len(checkpoints) - 1 THEN Len(checkpoints) - 1 - 1 + 1 ELSE 0
      /\ \A i \in 1..Len(checkpoints) - 1 - 1 + 1 :
           SubSeq(checkpoints, 1, Len(checkpoints) - 1)[i] = checkpoints[1 + i - 1]
  BY <1>1, <1>3, SubSeqProperties
<1>5. Front(checkpoints) \in Seq(C) /\ Last(checkpoints) \in C
  BY <1>1, <1>2, <1>4 DEF Front, Last
<1>6. Len(Front(checkpoints)) = Len(checkpoints) - 1
  <2> DEFINE n == Len(checkpoints)
  <2>1. n \in Nat \ {0}
    BY <1>1
  <2>2. Len(Front(checkpoints)) = IF 1 <= n - 1 THEN n - 1 - 1 + 1 ELSE 0
    BY <1>4 DEF Front
  <2> HIDE DEF n
  <2>3. (IF 1 <= n - 1 THEN n - 1 - 1 + 1 ELSE 0) = n - 1
    BY <2>1
  <2> QED
    BY <2>2, <2>3 DEF n
<1>7. ASSUME NEW i \in 1..Len(checkpoints) - 1 PROVE Front(checkpoints)[i] = checkpoints[i]
  <2>1. i \in 1..Len(checkpoints) - 1 - 1 + 1 /\ 1 + i - 1 = i
    BY <1>1
  <2>2. SubSeq(checkpoints, 1, Len(checkpoints) - 1)[i] = checkpoints[1 + i - 1]
    BY <1>4, <2>1
  <2> QED
    BY <2>1, <2>2 DEF Front
<1> QED
  BY <1>1, <1>5, <1>6, <1>7 DEF C

\* A call under way is a call of its stage.
LEMMA CallShape ==
  ASSUME TypeOK
  PROVE  /\ At("reading") => call.op \in Reading /\ call.file \in File
         /\ call.stage \in {"asking", "writing", "written"} => call.op \in Mutation /\ call.file \in File
         /\ \A op \in Reading : op.path \in Path
         /\ \A op \in Mutation : op.path \in Path
BY DEF TypeOK, Calls, NoCall, At, Reading, Mutation, Edit, Whole, Delete

-----------------------------------------------------------------------------
(* Types.                                                                   *)

LEMMA InitTyped == Init => TypeOK
<1> SUFFICES ASSUME Init PROVE TypeOK
  OBVIOUS
<1>1. pending \in Seq([path : Path, new : File]) /\ checkpoints \in Seq([path : Path, previous : File])
  BY EmptySeq DEF Init
<1> QED
  BY <1>1, AgentAssumption DEF Init, TypeOK, Session, File, Calls

LEMMA TypeStep == TypeOK /\ [Next]_vars => TypeOK'
<1> SUFFICES ASSUME TypeOK, [Next]_vars PROVE TypeOK'
  OBVIOUS
<1> USE DEF gate, knowledge
<1>1. ASSUME NEW attached \in SUBSET {p \in Path : Exists(p)}, StartTurn(attached) PROVE TypeOK'
  <2>1. readPaths' \in [Session -> SUBSET Path] /\ window' \in [Path -> SUBSET File]
    BY <1>1 DEF StartTurn, TypeOK
  <2>2. seen' \in [Session -> [Path -> File]]
    BY <1>1 DEF StartTurn, TypeOK
  <2>3. rewrites' \in [Session -> [Path -> 0..MAX_REWRITES_PER_FILE]]
    BY <1>1, NoRewritesTyped DEF StartTurn, TypeOK
  <2>4. unseen' \in [Session -> [Path -> SUBSET Part]]
    BY <1>1 DEF StartTurn, TypeOK
  <2>5. answers' \in [Session -> SUBSET [op : Reading, file : File]]
    BY <1>1 DEF StartTurn, TypeOK
  <2> QED
    BY <1>1, <2>1, <2>2, <2>3, <2>4, <2>5 DEF StartTurn, TypeOK, Session
<1>2. ASSUME NEW op \in Reading, Repeat(op) PROVE TypeOK'
  BY <1>2 DEF Repeat, TypeOK
<1>3. ASSUME NEW op \in Reading, Read(op) PROVE TypeOK'
  <2>1. call' \in Calls
    BY <1>3, CallShape DEF Read, TypeOK, Calls, Underway
  <2> QED
    BY <1>3, <2>1 DEF Read, Free, Running, TypeOK
<1>4. CASE FinishRead
  <2>1. call.op \in Reading /\ call.file \in File /\ call.op.path \in Path /\ turn \in Session
    BY <1>4, CallShape DEF FinishRead, At, Running
  <2>2. answers' \in [Session -> SUBSET [op : Reading, file : File]]
    BY <1>4, <2>1 DEF FinishRead, Remember, TypeOK
  <2> QED
    BY <1>4, <2>1, <2>2, MarkSeenTyped DEF FinishRead, TypeOK, Calls
<1>5. CASE ReadFails
  <2>1. call.op \in Reading /\ turn \in Session
    BY <1>5, CallShape DEF ReadFails, At, Running
  <2>2. answers' \in [Session -> SUBSET [op : Reading, file : File]]
    BY <1>5, <2>1 DEF ReadFails, Remember, TypeOK, File
  <2> QED
    BY <1>5, <2>1, <2>2 DEF ReadFails, Mishap, TypeOK, Calls
<1>6. ASSUME NEW op \in Mutation, Refuse(op) PROVE TypeOK'
  BY <1>6 DEF Refuse, TypeOK
<1>7. ASSUME NEW op \in Mutation, RefuseUnread(op) PROVE TypeOK'
  <2>1. turn \in Session /\ op.path \in Path
    BY <1>7, CallShape DEF RefuseUnread, Free, Running
  <2>2. rewrites' \in [Session -> [Path -> 0..MAX_REWRITES_PER_FILE]]
    BY <1>7, <2>1, CountTyped DEF RefuseUnread
  <2>3. /\ readPaths' \in [Session -> SUBSET Path]
        /\ seen' \in [Session -> [Path -> File]]
        /\ unseen' \in [Session -> [Path -> SUBSET Part]]
        /\ window' \in [Path -> SUBSET File]
    BY <1>7, <2>1, MarkSeenTyped DEF RefuseUnread, TypeOK
  <2> QED
    BY <1>7, <2>2, <2>3 DEF RefuseUnread, TypeOK
<1>8. ASSUME NEW op \in Mutation, Queue(op) PROVE TypeOK'
  <2>1. turn \in Session /\ op.path \in Path /\ disk[op.path] \in File
    BY <1>8, CallShape DEF Queue, Propose, Free, Running, TypeOK
  <2>2. rewrites' \in [Session -> [Path -> 0..MAX_REWRITES_PER_FILE]]
    BY <1>8, <2>1, CountTyped DEF Queue, Propose, Admitted
  <2>3. After(op, disk[op.path]) \in File
    <3>1. op \in Edit => disk[op.path] # NoFile
      BY <1>8 DEF Queue, Propose, Admitted, Edit, Applies
    <3> QED
      BY <2>1, <3>1, AfterTyped
  <2>4. pending' \in Seq([path : Path, new : File]) /\ pending' # <<>>
    BY <1>8, <2>1, <2>3 DEF Queue, TypeOK
  <2> QED
    BY <1>8, <2>2, <2>4 DEF Queue, Propose, TypeOK
<1>9. ASSUME NEW op \in Mutation, AutoApprove(op) PROVE TypeOK'
  <2>1. turn \in Session /\ op.path \in Path
    BY <1>9, CallShape DEF AutoApprove, Propose, Free, Running
  <2>2. rewrites' \in [Session -> [Path -> 0..MAX_REWRITES_PER_FILE]]
    BY <1>9, <2>1, CountTyped DEF AutoApprove, Propose, Admitted
  <2>3. checkpoints' \in Seq([path : Path, previous : File])
    BY <1>9, <2>1 DEF AutoApprove, Checkpoint, TypeOK, File
  <2>4. call' \in Calls
    BY <1>9 DEF AutoApprove, Underway, Calls, File
  <2> QED
    BY <1>9, <2>1, <2>2, <2>3, <2>4 DEF AutoApprove, Propose, TypeOK
<1>10. ASSUME NEW op \in Mutation, Ask(op) PROVE TypeOK'
  <2>1. turn \in Session /\ op.path \in Path
    BY <1>10, CallShape DEF Ask, Propose, Free, Running
  <2>2. rewrites' \in [Session -> [Path -> 0..MAX_REWRITES_PER_FILE]]
    BY <1>10, <2>1, CountTyped DEF Ask, Propose, Admitted
  <2>3. call' \in Calls
    BY <1>10, <2>1 DEF Ask, Underway, Calls, TypeOK
  <2> QED
    BY <1>10, <2>1, <2>2, <2>3 DEF Ask, Propose, TypeOK
<1>11. CASE Approve
  <2>1. call.op \in Mutation /\ call.file \in File /\ call.op.path \in Path /\ turn \in Session
    BY <1>11, CallShape DEF Approve, At, Running
  <2>2. checkpoints' \in Seq([path : Path, previous : File])
    BY <1>11, <2>1 DEF Approve, Checkpoint, TypeOK
  <2>3. call' \in Calls
    BY <1>11, <2>1 DEF Approve, Underway, Calls, File
  <2> QED
    BY <1>11, <2>1, <2>2, <2>3 DEF Approve, TypeOK
<1>12. CASE Decline
  BY <1>12 DEF Decline, TypeOK, Calls
<1>13. CASE Execute
  <2>1. call.op \in Mutation /\ call.op.path \in Path /\ turn \in Session /\ disk[call.op.path] \in File
    BY <1>13, CallShape DEF Execute, At, Running, TypeOK
  <2>2. After(call.op, disk[call.op.path]) \in File
    BY <1>13, <2>1, AppliesToFile DEF Execute
  <2>3. /\ disk' \in [Path -> File]
        /\ unseen' \in [Session -> [Path -> SUBSET Part]]
        /\ window' \in [Path -> SUBSET File]
    BY <1>13, <2>1, <2>2, PutTyped DEF Execute
  <2>4. call' \in Calls
    BY <1>13, <2>1, <2>3 DEF Execute, Underway, Calls
  <2> QED
    BY <1>13, <2>1, <2>3, <2>4 DEF Execute, TypeOK
<1>14. CASE ExecuteFails
  BY <1>14 DEF ExecuteFails, Mishap, TypeOK, Calls
<1>15. CASE FinishWrite
  <2>1. call.op \in Mutation /\ call.op.path \in Path /\ turn \in Session
    BY <1>15, CallShape DEF FinishWrite, At, Running
  <2>2. answers' \in [Session -> SUBSET [op : Reading, file : File]]
    BY <1>15, <2>1 DEF FinishWrite, TypeOK
  <2>3. /\ readPaths' \in [Session -> SUBSET Path]
        /\ seen' \in [Session -> [Path -> File]]
        /\ unseen' \in [Session -> [Path -> SUBSET Part]]
        /\ window' \in [Path -> SUBSET File]
    BY <1>15, <2>1, MarkSeenTyped DEF FinishWrite, TypeOK
  <2> QED
    BY <1>15, <2>2, <2>3 DEF FinishWrite, TypeOK, Calls
<1>16. Outlives => late' \subseteq [op : Mutation, number : Nat]
  BY CallShape DEF Outlives, TypeOK
<1>17. CASE TimeOut
  BY <1>16, <1>17 DEF TimeOut, Mishap, TypeOK, Calls
<1>18. ASSUME NEW w \in late, LateWrite(w) PROVE TypeOK'
  <2>1. w.op \in Mutation /\ w.op.path \in Path
    BY CallShape DEF TypeOK
  <2>2. disk[w.op.path] \in File
    BY <2>1 DEF TypeOK
  <2>3. CASE Applies(w.op, disk[w.op.path])
    <3>1. After(w.op, disk[w.op.path]) \in File
      BY <2>1, <2>2, <2>3, AppliesToFile
    <3>2. /\ disk' \in [Path -> File]
          /\ unseen' \in [Session -> [Path -> SUBSET Part]]
          /\ window' \in [Path -> SUBSET File]
      BY <1>18, <2>1, <2>3, <3>1, PutTyped DEF LateWrite
    <3> QED
      BY <1>18, <2>1, <2>3, <3>2 DEF LateWrite, TypeOK
  <2>4. CASE ~Applies(w.op, disk[w.op.path])
    BY <1>18, <2>4 DEF LateWrite, TypeOK
  <2> QED
    BY <2>3, <2>4
<1>19. ASSUME NEW attached \in SUBSET {p \in Path : Exists(p)}, Delegate(attached) PROVE TypeOK'
  <2>1. readPaths' \in [Session -> SUBSET Path]
    BY <1>19 DEF Delegate, TypeOK
  <2>2. seen' \in [Session -> [Path -> File]]
    BY <1>19 DEF Delegate, TypeOK, File
  <2>3. unseen' \in [Session -> [Path -> SUBSET Part]]
    BY <1>19 DEF Delegate, TypeOK
  <2> QED
    BY <1>19, <2>1, <2>2, <2>3 DEF Delegate, Free, TypeOK, Session
<1>20. DropSub => /\ readPaths' \in [Session -> SUBSET Path]
                  /\ seen' \in [Session -> [Path -> File]]
                  /\ rewrites' \in [Session -> [Path -> 0..MAX_REWRITES_PER_FILE]]
                  /\ answers' \in [Session -> SUBSET [op : Reading, file : File]]
                  /\ unseen' \in [Session -> [Path -> SUBSET Part]]
  <2> SUFFICES ASSUME DropSub
               PROVE /\ readPaths' \in [Session -> SUBSET Path]
                     /\ seen' \in [Session -> [Path -> File]]
                     /\ rewrites' \in [Session -> [Path -> 0..MAX_REWRITES_PER_FILE]]
                     /\ answers' \in [Session -> SUBSET [op : Reading, file : File]]
                     /\ unseen' \in [Session -> [Path -> SUBSET Part]]
    OBVIOUS
  <2>1. readPaths' \in [Session -> SUBSET Path] /\ answers' \in [Session -> SUBSET [op : Reading, file : File]]
    BY DEF DropSub, TypeOK
  <2>2. seen' \in [Session -> [Path -> File]]
    BY DEF DropSub, TypeOK, File
  <2>3. rewrites' \in [Session -> [Path -> 0..MAX_REWRITES_PER_FILE]]
    BY NoRewritesTyped DEF DropSub, TypeOK
  <2>4. unseen' \in [Session -> [Path -> SUBSET Part]]
    BY DEF DropSub, TypeOK
  <2> QED
    BY <2>1, <2>2, <2>3, <2>4
<1>21. CASE EndSub
  BY <1>16, <1>20, <1>21 DEF EndSub, TypeOK, Session, Calls
<1>22. Reviewed => turn' \in {"idle", "review"} /\ (turn' = "review" => pending # <<>>)
  BY DEF Reviewed
<1>23. CASE EndTurn
  BY <1>22, <1>23 DEF EndTurn, TypeOK
<1>24. CASE Interrupt
  BY <1>16, <1>20, <1>22, <1>24 DEF Interrupt, Mishap, TypeOK, Calls
<1>25. CASE FailTurn
  BY <1>20, <1>25 DEF FailTurn, Mishap, TypeOK
<1>26. CASE Pick
  <2>1. Head(pending) \in [path : Path, new : File] /\ Tail(pending) \in Seq([path : Path, new : File])
    BY <1>26, HeadTailProperties DEF Pick, TypeOK
  <2>2. /\ disk' \in [Path -> File]
        /\ unseen' \in [Session -> [Path -> SUBSET Part]]
        /\ window' \in [Path -> SUBSET File]
    BY <1>26, <2>1, PutTyped DEF Pick
  <2>3. checkpoints' \in Seq([path : Path, previous : File])
    BY <1>26, <2>1 DEF Pick, Checkpoint, TypeOK
  <2> QED
    BY <1>26, <2>1, <2>2, <2>3 DEF Pick, TypeOK, Session
<1>27. CASE Discard
  <2>1. Tail(pending) \in Seq([path : Path, new : File])
    BY <1>27, HeadTailProperties DEF Discard, TypeOK
  <2> QED
    BY <1>27, <2>1 DEF Discard, TypeOK, Session
<1>28. checkpoints # <<>> => /\ Front(checkpoints) \in Seq([path : Path, previous : File])
                             /\ Last(checkpoints) \in [path : Path, previous : File]
  BY FrontOfCheckpoints
<1>29. CASE Undo
  <2>1. /\ disk' \in [Path -> File]
        /\ unseen' \in [Session -> [Path -> SUBSET Part]]
        /\ window' \in [Path -> SUBSET File]
    BY <1>28, <1>29, PutTyped DEF Undo
  <2> QED
    BY <1>28, <1>29, <2>1 DEF Undo, TypeOK
<1>30. CASE UndoFails
  BY <1>28, <1>30 DEF UndoFails, Mishap, TypeOK
<1>31. CASE Reset
  BY <1>31 DEF Reset, TypeOK, File
<1>32. CASE CycleMode
  BY <1>32 DEF CycleMode, Mishap, TypeOK, Mode
<1>33. ASSUME NEW p \in Path, NEW f \in File, Outside(p, f) PROVE TypeOK'
  <2>1. /\ disk' \in [Path -> File]
        /\ unseen' \in [Session -> [Path -> SUBSET Part]]
        /\ window' \in [Path -> SUBSET File]
    BY <1>33, PutTyped DEF Outside
  <2>2. base' \in [Path -> File] /\ spoiled' \subseteq Path
    BY <1>33 DEF Outside, TypeOK
  <2> QED
    BY <1>33, <2>1, <2>2 DEF Outside, Mishap, TypeOK
<1>34. CASE UNCHANGED vars
  BY <1>34 DEF vars, TypeOK
<1>35. ASSUME NEW op \in Mutation, Bail(op) PROVE TypeOK'
  <2>1. turn \in Session
    BY <1>35 DEF Bail, Propose, Free, Running
  <2>2. rewrites' \in [Session -> [Path -> 0..MAX_REWRITES_PER_FILE]]
    BY <1>35, <2>1, CountTyped DEF Bail, Propose, Admitted
  <2> QED
    BY <1>35, <2>2 DEF Bail, Propose, TypeOK
<1> QED
  BY <1>1, <1>2, <1>3, <1>4, <1>5, <1>6, <1>7, <1>8, <1>9, <1>10, <1>11, <1>12, <1>13, <1>14,
     <1>15, <1>17, <1>18, <1>19, <1>21, <1>23, <1>24, <1>25, <1>26, <1>27, <1>29, <1>30, <1>31,
     <1>32, <1>33, <1>34, <1>35
  DEF Next, Propositions

\* Every variable keeps its type.
THEOREM AgentTypeCorrect == Spec => []TypeOK
<1> QED
  BY InitTyped, TypeStep, PTL DEF Spec

-----------------------------------------------------------------------------
(* Rewinding.  RewindRestores is not inductive as it stands: a write under  *)
(* way must already have its checkpoint, and while the user is asked about  *)
(* a file without one, what the gate read of it must still be there.        *)

CallIsAccounted ==
  /\ call.stage = "writing" => Saved(call.op.path) # {}
  /\ call.stage = "asking" /\ Saved(call.op.path) = {} /\ call.op.path \notin spoiled
       => call.file = disk[call.op.path]

RewindInv == TypeOK /\ RewindRestores /\ CallIsAccounted

\* A new checkpoint joins those of its file, behind them.
LEMMA SavedGrows ==
  ASSUME TypeOK, NEW p \in Path, NEW f \in File, Checkpoint(p, f)
  PROVE  /\ Len(checkpoints) \in Nat
         /\ \A q : Saved(q) \subseteq 1..Len(checkpoints)
         /\ \A i \in 1..Len(checkpoints) : checkpoints'[i] = checkpoints[i]
         /\ checkpoints'[Len(checkpoints) + 1] = [path |-> p, previous |-> f]
         /\ Saved(p)' = Saved(p) \cup {Len(checkpoints) + 1}
         /\ \A q : q # p => Saved(q)' = Saved(q)
<1> DEFINE C == [path : Path, previous : File]
<1> DEFINE c == [path |-> p, previous |-> f]
<1> DEFINE n == Len(checkpoints)
<1>1. checkpoints \in Seq(C) /\ c \in C
  BY DEF TypeOK
<1>2. c.path = p
  OBVIOUS
<1>3. checkpoints' = Append(checkpoints, c)
  BY DEF Checkpoint
<1> HIDE DEF C, c
<1>4. /\ n \in Nat /\ DOMAIN checkpoints = 1..n
      /\ Len(checkpoints') = n + 1 /\ DOMAIN checkpoints' = 1..n + 1
      /\ \A i \in 1..n : checkpoints'[i] = checkpoints[i]
      /\ checkpoints'[n + 1] = c
  BY <1>1, <1>3, AppendProperties
<1> HIDE DEF n
<1>5. ASSUME NEW q PROVE Saved(q) \subseteq 1..n /\ Saved(q)' = Saved(q) \cup (IF q = p THEN {n + 1} ELSE {})
  <2>1. DOMAIN checkpoints' = DOMAIN checkpoints \cup {n + 1}
    BY <1>4
  <2> QED
    BY <1>2, <1>4, <2>1 DEF Saved
<1> QED
  BY <1>4, <1>5 DEF n, c

\* Without the newest checkpoint, each file has the others.
LEMMA SavedShrinks ==
  ASSUME TypeOK, checkpoints # <<>>, checkpoints' = Front(checkpoints)
  PROVE  /\ Len(checkpoints) \in Nat \ {0}
         /\ Last(checkpoints) = checkpoints[Len(checkpoints)]
         /\ \A q : Saved(q) \subseteq 1..Len(checkpoints)
         /\ Len(checkpoints) \in Saved(Last(checkpoints).path)
         /\ Last(checkpoints).path \in Path
         /\ \A q : Saved(q)' = Saved(q) \ {Len(checkpoints)}
         /\ \A i \in 1..Len(checkpoints) - 1 : checkpoints'[i] = checkpoints[i]
<1> DEFINE n == Len(checkpoints)
<1>1. /\ n \in Nat \ {0} /\ Len(checkpoints') = n - 1
      /\ \A i \in 1..n - 1 : checkpoints'[i] = checkpoints[i]
      /\ Last(checkpoints) \in [path : Path, previous : File]
      /\ Last(checkpoints) = checkpoints[n]
  BY FrontOfCheckpoints DEF Last
<1>2. /\ checkpoints \in Seq([path : Path, previous : File])
      /\ checkpoints' \in Seq([path : Path, previous : File])
  BY FrontOfCheckpoints DEF TypeOK
<1>3. DOMAIN checkpoints = 1..n /\ DOMAIN checkpoints' = 1..n - 1
  BY <1>1, <1>2, LenProperties
<1> HIDE DEF n
<1>4. DOMAIN checkpoints' = DOMAIN checkpoints \ {n} /\ n \in DOMAIN checkpoints
  BY <1>1, <1>3
<1>5. ASSUME NEW q PROVE Saved(q) \subseteq 1..n /\ Saved(q)' = Saved(q) \ {n}
  BY <1>1, <1>3, <1>4 DEF Saved
<1>6. n \in Saved(Last(checkpoints).path)
  BY <1>1, <1>4 DEF Saved
<1> QED
  BY <1>1, <1>5, <1>6 DEF n

\* A step that touches neither the files nor the checkpoints.
LEMMA QuietStep ==
  ASSUME RewindRestores, UNCHANGED <<disk, checkpoints, base, spoiled>>
  PROVE  RewindRestores'
BY DEF RewindRestores, Saved

\* The call is unchanged, or over.
LEMMA QuietCall ==
  ASSUME CallIsAccounted,
         UNCHANGED <<disk, checkpoints, base, spoiled>>,
         call' = call \/ call' = NoCall
  PROVE  CallIsAccounted'
BY DEF CallIsAccounted, Saved, NoCall

\* A checkpoint taken of what the file holds, or of a file that has one already.
LEMMA CheckpointStep ==
  ASSUME TypeOK, RewindRestores, NEW p \in Path, NEW f \in File, Checkpoint(p, f),
         Saved(p) = {} /\ p \notin spoiled => f = disk[p],
         UNCHANGED <<base, spoiled>>,
         \A q \in Path \ {p} : disk'[q] = disk[q]
  PROVE  RewindRestores'
<1> SUFFICES ASSUME NEW q \in Path \ spoiled
             PROVE  /\ Saved(q)' = {} => disk'[q] = base[q]
                    /\ \A i \in Saved(q)' : (\A j \in Saved(q)' : i <= j) => checkpoints'[i].previous = base[q]
  BY DEF RewindRestores
<1>1. CASE q # p
  <2>1. Saved(q)' = Saved(q) /\ disk'[q] = disk[q] /\ \A i \in Saved(q) : checkpoints'[i] = checkpoints[i]
    BY <1>1, SavedGrows
  <2> QED
    BY <2>1 DEF RewindRestores
<1>2. CASE q = p
  <2> DEFINE n == Len(checkpoints)
  <2>1. /\ n \in Nat /\ Saved(p) \subseteq 1..n
        /\ Saved(p)' = Saved(p) \cup {n + 1}
        /\ \A i \in 1..n : checkpoints'[i] = checkpoints[i]
        /\ checkpoints'[n + 1].previous = f
    <3>1. /\ n \in Nat /\ Saved(p) \subseteq 1..n
          /\ Saved(p)' = Saved(p) \cup {n + 1}
          /\ \A i \in 1..n : checkpoints'[i] = checkpoints[i]
      BY SavedGrows
    <3>2. checkpoints'[n + 1] = [path |-> p, previous |-> f]
      BY SavedGrows
    <3> QED
      BY <3>1, <3>2
  <2> HIDE DEF n
  <2>2. CASE Saved(p) = {}
    <3>1. f = base[p]
      BY <1>2, <2>2 DEF RewindRestores
    <3> QED
      BY <1>2, <2>1, <2>2, <3>1
  <2>3. CASE Saved(p) # {}
    <3>1. ASSUME NEW i \in Saved(p)', \A j \in Saved(p)' : i <= j PROVE checkpoints'[i].previous = base[p]
      <4>1. i # n + 1
        <5>1. PICK j \in Saved(p) : TRUE
          BY <2>3
        <5>2. j \in 1..n /\ i <= j
          BY <2>1, <3>1, <5>1
        <5> QED
          BY <2>1, <5>2
      <4>2. i \in Saved(p) /\ \A j \in Saved(p) : i <= j
        BY <2>1, <3>1, <4>1
      <4>3. checkpoints'[i] = checkpoints[i] /\ checkpoints[i].previous = base[p]
        BY <1>2, <2>1, <4>2 DEF RewindRestores
      <4> QED
        BY <4>3
    <3> QED
      BY <1>2, <2>1, <3>1
  <2> QED
    BY <2>2, <2>3
<1> QED
  BY <1>1, <1>2

\* A write to a file that has a checkpoint, or is given up.
LEMMA WriteStep ==
  ASSUME TypeOK, RewindRestores, NEW p \in Path, NEW f, Put(p, f),
         UNCHANGED <<checkpoints, base>>,
         spoiled \subseteq spoiled', Saved(p) # {} \/ p \in spoiled'
  PROVE  RewindRestores'
<1>1. \A q \in Path \ {p} : disk'[q] = disk[q]
  BY DEF Put, TypeOK
<1> QED
  BY <1>1 DEF RewindRestores, Saved

\* The oldest checkpoint of a file stays its oldest while newer ones are used up.
LEMMA OldestStays ==
  ASSUME TypeOK, RewindRestores, checkpoints # <<>>, checkpoints' = Front(checkpoints),
         NEW q \in Path \ spoiled, NEW i \in Saved(q)', \A j \in Saved(q)' : i <= j
  PROVE  checkpoints'[i].previous = base[q]
<1> DEFINE n == Len(checkpoints)
<1>1. /\ n \in Nat \ {0}
      /\ Saved(q) \subseteq 1..n /\ Saved(q)' = Saved(q) \ {n}
      /\ \A k \in 1..n - 1 : checkpoints'[k] = checkpoints[k]
  BY SavedShrinks
<1> HIDE DEF n
<1>2. i \in Saved(q) /\ i \in 1..n - 1
  BY <1>1
<1>3. \A j \in Saved(q) : i <= j
  BY <1>1, <1>2
<1>4. checkpoints[i].previous = base[q]
  BY <1>2, <1>3 DEF RewindRestores
<1> QED
  BY <1>1, <1>2, <1>4

\* Going back one checkpoint.
LEMMA UndoStep ==
  ASSUME TypeOK, RewindRestores, Undo
  PROVE  RewindRestores'
<1> DEFINE n == Len(checkpoints)
<1> DEFINE p == Last(checkpoints).path
<1>1. checkpoints # <<>> /\ checkpoints' = Front(checkpoints) /\ UNCHANGED <<base, spoiled>>
  BY DEF Undo
<1>2. /\ n \in Nat \ {0} /\ Last(checkpoints) = checkpoints[n]
      /\ p \in Path /\ n \in Saved(p)
      /\ \A q : Saved(q) \subseteq 1..n /\ Saved(q)' = Saved(q) \ {n}
      /\ \A i \in 1..n - 1 : checkpoints'[i] = checkpoints[i]
  BY <1>1, SavedShrinks
<1>3. disk' = [disk EXCEPT ![p] = checkpoints[n].previous]
  BY <1>2 DEF Undo, Put
<1>4. disk \in [Path -> File] /\ checkpoints[n].path = p
  BY <1>2 DEF TypeOK
<1> HIDE DEF n, p
<1> SUFFICES ASSUME NEW q \in Path \ spoiled
             PROVE  /\ Saved(q)' = {} => disk'[q] = base[q]
                    /\ \A i \in Saved(q)' : (\A j \in Saved(q)' : i <= j) => checkpoints'[i].previous = base[q]
  BY <1>1 DEF RewindRestores
<1>5. Saved(q)' = {} => disk'[q] = base[q]
  <2> SUFFICES ASSUME Saved(q)' = {} PROVE disk'[q] = base[q]
    OBVIOUS
  <2>1. CASE q = p
    <3>1. Saved(p) = {n}
      BY <1>2, <2>1
    <3>2. checkpoints[n].previous = base[p]
      BY <1>2, <2>1, <3>1 DEF RewindRestores
    <3> QED
      BY <1>3, <1>4, <2>1, <3>2
  <2>2. CASE q # p
    <3>1. n \notin Saved(q)
      BY <1>4, <2>2 DEF Saved
    <3>2. Saved(q) = {}
      BY <1>2, <3>1
    <3> QED
      BY <1>3, <1>4, <2>2, <3>2 DEF RewindRestores
  <2> QED
    BY <2>1, <2>2
<1>6. ASSUME NEW i \in Saved(q)', \A j \in Saved(q)' : i <= j PROVE checkpoints'[i].previous = base[q]
  BY <1>1, <1>6, OldestStays
<1> QED
  BY <1>5, <1>6

LEMMA RewindStep == RewindInv /\ [Next]_vars => RewindRestores' /\ CallIsAccounted'
<1> SUFFICES ASSUME TypeOK, RewindRestores, CallIsAccounted, [Next]_vars
             PROVE  RewindRestores' /\ CallIsAccounted'
  BY DEF RewindInv
<1> USE DEF gate, knowledge
<1>1. ASSUME \/ \E attached \in SUBSET {p \in Path : Exists(p)} : StartTurn(attached) \/ Delegate(attached)
             \/ \E op \in Reading : Repeat(op)
             \/ FinishRead \/ ReadFails
             \/ \E op \in Mutation : Refuse(op) \/ RefuseUnread(op) \/ Bail(op) \/ Queue(op)
             \/ Decline \/ ExecuteFails \/ FinishWrite \/ TimeOut
             \/ EndSub \/ EndTurn \/ Interrupt \/ FailTurn
             \/ Discard \/ Reset \/ CycleMode \/ UNCHANGED vars
      PROVE  RewindRestores' /\ CallIsAccounted'
  <2>1. UNCHANGED <<disk, checkpoints, base, spoiled>>
    BY <1>1 DEF StartTurn, Repeat, FinishRead, ReadFails, Refuse, RefuseUnread, Bail, Queue, Propose, Decline,
                ExecuteFails, FinishWrite, TimeOut, Delegate, EndSub, EndTurn, Interrupt, FailTurn,
                Discard, Reset, CycleMode, vars
  <2>2. call' = call \/ call' = NoCall
    BY <1>1 DEF StartTurn, Repeat, FinishRead, ReadFails, Refuse, RefuseUnread, Bail, Queue, Propose, Decline,
                ExecuteFails, FinishWrite, TimeOut, Delegate, EndSub, EndTurn, Interrupt, FailTurn,
                Discard, Reset, CycleMode, vars
  <2> QED
    BY <2>1, <2>2, QuietStep, QuietCall
<1>2. ASSUME NEW op \in Reading, Read(op) PROVE RewindRestores' /\ CallIsAccounted'
  <2>1. UNCHANGED <<disk, checkpoints, base, spoiled>> /\ call'.stage = "reading"
    BY <1>2 DEF Read, Underway
  <2> QED
    BY <2>1, QuietStep DEF CallIsAccounted
<1>3. ASSUME NEW op \in Mutation, Ask(op) PROVE RewindRestores' /\ CallIsAccounted'
  <2>1. UNCHANGED <<disk, checkpoints, base, spoiled>>
    BY <1>3 DEF Ask
  <2>2. call'.stage = "asking" /\ call'.file = disk'[call'.op.path]
    BY <1>3, <2>1 DEF Ask, Underway
  <2> QED
    BY <2>1, <2>2, QuietStep DEF CallIsAccounted
<1>4. ASSUME NEW op \in Mutation, AutoApprove(op) PROVE RewindRestores' /\ CallIsAccounted'
  <2>1. op.path \in Path /\ NoFile \in File
    BY CallShape DEF File
  <2>2. disk[op.path] = NoFile /\ Checkpoint(op.path, NoFile) /\ UNCHANGED <<disk, base, spoiled>>
    BY <1>4 DEF AutoApprove, Asks, Exists
  <2>3. call'.stage = "writing" /\ call'.op = op
    BY <1>4 DEF AutoApprove, Underway
  <2>4. Saved(op.path)' # {}
    BY <2>1, <2>2, SavedGrows
  <2>5. CallIsAccounted'
    BY <2>3, <2>4 DEF CallIsAccounted, Saved
  <2> QED
    BY <2>1, <2>2, <2>5, CheckpointStep
<1>5. CASE Approve
  <2>1. call.op.path \in Path /\ call.file \in File /\ call.stage = "asking"
    BY <1>5, CallShape DEF Approve, At
  <2>2. PICK p \in Path : p = call.op.path
    BY <2>1
  <2>3. Checkpoint(p, call.file) /\ UNCHANGED <<disk, base, spoiled>>
    BY <1>5, <2>2 DEF Approve
  <2>4. call'.stage = "writing" /\ call'.op.path = p
    BY <1>5, <2>2 DEF Approve, Underway
  <2>5. Saved(p)' # {}
    BY <2>1, <2>3, SavedGrows
  <2>6. CallIsAccounted'
    BY <2>4, <2>5 DEF CallIsAccounted, Saved
  <2>7. Saved(p) = {} /\ p \notin spoiled => call.file = disk[p]
    BY <2>1, <2>2 DEF CallIsAccounted
  <2> QED
    BY <2>1, <2>3, <2>6, <2>7, CheckpointStep
<1>6. CASE Execute
  <2> DEFINE p == call.op.path
  <2>1. p \in Path /\ Saved(p) # {}
    BY <1>6, CallShape DEF Execute, At, CallIsAccounted
  <2>2. Put(p, After(call.op, disk[p])) /\ UNCHANGED <<checkpoints, base, spoiled>>
    BY <1>6 DEF Execute
  <2>3. call'.stage = "written"
    BY <1>6 DEF Execute, Underway
  <2>4. RewindRestores'
    BY <2>1, <2>2, WriteStep
  <2> QED
    BY <2>3, <2>4 DEF CallIsAccounted
<1>7. ASSUME NEW w \in late, LateWrite(w) PROVE RewindRestores' /\ CallIsAccounted'
  <2> DEFINE p == w.op.path
  <2>1. p \in Path /\ UNCHANGED <<call, checkpoints, base>>
    BY <1>7, CallShape DEF LateWrite, TypeOK
  <2>2. CASE Applies(w.op, disk[p])
    <3>1. Put(p, After(w.op, disk[p])) /\ spoiled \subseteq spoiled' /\ (Saved(p) # {} \/ p \in spoiled')
      BY <1>7, <2>2 DEF LateWrite
    <3>2. RewindRestores'
      BY <2>1, <3>1, WriteStep
    <3>3. \A q \in Path \ {p} : disk'[q] = disk[q]
      BY <3>1 DEF Put, TypeOK
    <3>4. call.stage = "asking" => call.op.path \in Path
      BY CallShape
    <3>5. CallIsAccounted'
      BY <2>1, <3>1, <3>3, <3>4 DEF CallIsAccounted, Saved
    <3> QED
      BY <3>2, <3>5
  <2>3. CASE ~Applies(w.op, disk[p])
    BY <1>7, <2>1, <2>3, QuietStep, QuietCall DEF LateWrite
  <2> QED
    BY <2>2, <2>3
<1>8. ASSUME turn \notin Session, call' = call PROVE CallIsAccounted'
  BY <1>8 DEF TypeOK, NoCall, CallIsAccounted
<1>9. CASE Pick
  <2> DEFINE q == Head(pending)
  <2>1. q \in [path : Path, new : File]
    BY <1>9, HeadTailProperties DEF Pick, TypeOK
  <2>2. q.path \in Path /\ disk[q.path] \in File
    BY <2>1 DEF TypeOK
  <2>3. Put(q.path, q.new) /\ Checkpoint(q.path, disk[q.path]) /\ UNCHANGED <<call, base, spoiled>>
    BY <1>9 DEF Pick
  <2>4. \A r \in Path \ {q.path} : disk'[r] = disk[r]
    BY <2>2, <2>3 DEF Put, TypeOK
  <2>5. turn \notin Session
    BY <1>9 DEF Pick, Session
  <2> HIDE DEF q
  <2> QED
    BY <1>8, <2>2, <2>3, <2>4, <2>5, CheckpointStep
<1>10. CASE Undo
  <2>1. turn \notin Session /\ call' = call
    BY <1>10 DEF Undo, Session
  <2> QED
    BY <1>8, <1>10, <2>1, UndoStep
<1>11. CASE UndoFails
  <2>1. turn \notin Session /\ call' = call
    BY <1>11 DEF UndoFails, Session
  <2> DEFINE n == Len(checkpoints)
  <2> DEFINE p == Last(checkpoints).path
  <2>2. /\ checkpoints # <<>> /\ checkpoints' = Front(checkpoints) /\ UNCHANGED <<disk, base>>
        /\ spoiled' = IF Saved(p) = {n} THEN spoiled \cup {p} ELSE spoiled
    BY <1>11 DEF UndoFails
  <2>3. n \in Saved(p) /\ \A q : Saved(q)' = Saved(q) \ {n}
    BY <2>2, SavedShrinks
  <2>4. Last(checkpoints) = checkpoints[n]
    BY DEF Last
  <2>5. checkpoints[n].path = p
    BY <2>4
  <2> HIDE DEF n, p
  <2>6. ASSUME NEW q \in Path \ spoiled', Saved(q)' = {} PROVE disk'[q] = base[q]
    <3>1. q \notin spoiled
      BY <2>2, <2>6
    <3>2. Saved(q) = {}
      <4>1. CASE q = p
        BY <2>2, <2>3, <2>6, <4>1
      <4>2. CASE q # p
        BY <2>3, <2>5, <2>6, <4>2 DEF Saved
      <4> QED
        BY <4>1, <4>2
    <3> QED
      BY <2>2, <3>1, <3>2 DEF RewindRestores
  <2>7. ASSUME NEW q \in Path \ spoiled', NEW i \in Saved(q)', \A j \in Saved(q)' : i <= j
        PROVE  checkpoints'[i].previous = base[q]
    <3>1. q \in Path \ spoiled
      BY <2>2
    <3> QED
      BY <2>2, <2>7, <3>1, OldestStays
  <2>8. RewindRestores'
    BY <2>2, <2>6, <2>7 DEF RewindRestores
  <2> QED
    BY <1>8, <2>1, <2>8
<1>12. ASSUME NEW p \in Path, NEW f \in File, Outside(p, f) PROVE RewindRestores' /\ CallIsAccounted'
  <2>1. UNCHANGED <<call, checkpoints>> /\ Put(p, f)
    BY <1>12 DEF Outside
  <2>2. disk'[p] = f /\ \A q \in Path \ {p} : disk'[q] = disk[q]
    BY <2>1 DEF Put, TypeOK
  <2>3. call.stage = "asking" => call.op.path \in Path
    BY CallShape
  <2>4. CASE Saved(p) = {} /\ ~(call.stage = "asking" /\ call.op.path = p)
    <3>1. base' = [base EXCEPT ![p] = f] /\ spoiled' = spoiled \ {p}
      BY <1>12, <2>4 DEF Outside
    <3>2. base'[p] = f /\ \A q \in Path \ {p} : base'[q] = base[q]
      BY <3>1 DEF TypeOK
    <3>3. RewindRestores'
      BY <2>1, <2>2, <2>4, <3>1, <3>2 DEF RewindRestores, Saved
    <3>4. CallIsAccounted'
      BY <2>1, <2>2, <2>3, <2>4, <3>1 DEF CallIsAccounted, Saved
    <3> QED
      BY <3>3, <3>4
  <2>5. CASE ~(Saved(p) = {} /\ ~(call.stage = "asking" /\ call.op.path = p))
    <3>1. spoiled' = spoiled \cup {p} /\ UNCHANGED base
      BY <1>12, <2>5 DEF Outside
    <3>2. RewindRestores'
      BY <2>1, <3>1, WriteStep
    <3>3. CallIsAccounted'
      BY <2>1, <2>2, <2>3, <3>1 DEF CallIsAccounted, Saved
    <3> QED
      BY <3>2, <3>3
  <2> QED
    BY <2>4, <2>5
<1> QED
  BY <1>1, <1>2, <1>3, <1>4, <1>5, <1>6, <1>7, <1>9, <1>10, <1>11, <1>12 DEF Next, Propositions

\* Whatever the agent, the user, the threads and other programs do, rewinding every
\* checkpoint restores each file it accounts for to what it was without the agent.
THEOREM RewindingRestores == Spec => []RewindRestores
<1>1. Init => RewindInv
  <2> SUFFICES ASSUME Init PROVE RewindInv
    OBVIOUS
  <2>1. \A p \in Path : Saved(p) = {}
    BY DEF Init, Saved
  <2> QED
    BY <2>1, InitTyped DEF Init, RewindInv, RewindRestores, CallIsAccounted, NoCall
<1>2. RewindInv /\ [Next]_vars => RewindInv'
  BY TypeStep, RewindStep DEF RewindInv
<1>3. RewindInv => RewindRestores
  BY DEF RewindInv
<1> QED
  BY <1>1, <1>2, <1>3, PTL DEF Spec

-----------------------------------------------------------------------------
(* What a session has looked at.                                            *)

(* What the main session looked at in this turn, or last saw, is in the window, *)
(* and a session that has seen all of a file's text knows its content.        *)
InWindow ==
  \A p \in Path :
    /\ Running /\ p \in readPaths["main"] /\ disk[p] # NoFile => disk[p] \in window[p]
    /\ seen["main"][p] # NoFile => seen["main"][p] \in window[p]
AllSeen ==
  \A s \in Session, p \in Path : disk[p] # NoFile /\ unseen[s][p] = {} => seen[s][p] = disk[p]
LookInv == TypeOK /\ InWindow /\ AllSeen

LEMMA SameFile ==
  ASSUME NEW f \in File, NEW g \in File, Differing(f, g) = {}
  PROVE  f = g /\ f # NoFile
<1>1. f # NoFile /\ g # NoFile
  BY AgentAssumption DEF Differing
<1>2. \A x \in Part : f[x] = g[x]
  BY <1>1 DEF Differing
<1> QED
  BY <1>1, <1>2 DEF File, Content

LEMMA PutLooks ==
  ASSUME LookInv, NEW p \in Path, NEW f \in File, Put(p, f),
         UNCHANGED <<readPaths, seen>>, turn' \in Session => turn \in Session
  PROVE  InWindow' /\ AllSeen'
<1>1. disk' = [disk EXCEPT ![p] = f] /\ disk \in [Path -> File]
  BY DEF LookInv, TypeOK, Put
<1>2. InWindow'
  <2>1. window' = [window EXCEPT ![p] = IF Running /\ p \in readPaths["main"] THEN @ \cup {f} ELSE @]
    BY DEF Put
  <2>2. window \in [Path -> SUBSET File]
    BY DEF LookInv, TypeOK
  <2> QED
    BY <1>1, <2>1, <2>2 DEF LookInv, InWindow, Running
<1>3. AllSeen'
  <2>1. SUFFICES ASSUME NEW s \in Session, NEW q \in Path, disk'[q] # NoFile, unseen'[s][q] = {}
                 PROVE  seen[s][q] = disk'[q]
    BY DEF AllSeen
  <2>2. unseen \in [Session -> [Path -> SUBSET Part]]
    BY DEF LookInv, TypeOK
  <2>3. unseen'[s] = [unseen[s] EXCEPT ![p] = @ \cup Differing(disk[p], f)]
    BY DEF Put
  <2>4. CASE q = p
    <3>1. unseen[s][p] = {} /\ Differing(disk[p], f) = {}
      BY <2>1, <2>2, <2>3, <2>4
    <3>2. f = disk[p] /\ disk[p] # NoFile
      BY <1>1, <3>1, SameFile
    <3> QED
      BY <1>1, <2>4, <3>1, <3>2 DEF LookInv, AllSeen
  <2>5. CASE q # p
    BY <1>1, <2>1, <2>2, <2>3, <2>5 DEF LookInv, AllSeen
  <2> QED
    BY <2>4, <2>5
<1> QED
  BY <1>2, <1>3

LEMMA MarkSeenLooks ==
  ASSUME LookInv, turn \in Session, NEW p \in Path, NEW view, NEW told, MarkSeen(turn, p, view, told),
         UNCHANGED <<disk, turn>>
  PROVE  InWindow' /\ AllSeen'
<1>0. /\ readPaths \in [Session -> SUBSET Path] /\ seen \in [Session -> [Path -> File]]
      /\ unseen \in [Session -> [Path -> SUBSET Part]] /\ window \in [Path -> SUBSET File]
      /\ disk \in [Path -> File] /\ "main" \in Session
  BY DEF LookInv, TypeOK, Session
<1>1. readPaths'[turn] = readPaths[turn] \cup {p} /\ \A s \in Session \ {turn} : readPaths'[s] = readPaths[s]
  BY <1>0 DEF MarkSeen
<1>2. /\ seen'[turn][p] = IF disk[p] = NoFile THEN seen[turn][p] ELSE disk[p]
      /\ \A q \in Path \ {p} : seen'[turn][q] = seen[turn][q]
      /\ \A s \in Session \ {turn} : seen'[s] = seen[s]
  BY <1>0 DEF MarkSeen
<1>3. /\ \A q \in Path \ {p} : unseen'[turn][q] = unseen[turn][q]
      /\ \A s \in Session \ {turn} : unseen'[s] = unseen[s]
  BY <1>0 DEF MarkSeen
<1>4. /\ \A q \in Path \ {p} : window'[q] = window[q]
      /\ turn = "sub" \/ disk[p] = NoFile => window'[p] = window[p]
      /\ ~(turn = "sub" \/ disk[p] = NoFile) => disk[p] \in window'[p]
  BY <1>0 DEF MarkSeen
<1>5. turn = "main" \/ turn = "sub"
  BY DEF Session
<1>6. AllSeen'
  BY <1>2, <1>3 DEF LookInv, AllSeen
<1>7. InWindow'
  BY <1>0, <1>1, <1>2, <1>4, <1>5 DEF LookInv, InWindow, Running
<1> QED
  BY <1>6, <1>7

\* What a session knows is as it was, or it is a new session's.
LEMMA QuietLooks ==
  ASSUME LookInv, UNCHANGED <<disk, window>>, turn' \in Session => turn \in Session,
         readPaths'["main"] = readPaths["main"], seen'["main"] = seen["main"],
         unseen'["main"] = unseen["main"],
         \/ seen'["sub"] = seen["sub"] /\ unseen'["sub"] = unseen["sub"]
         \/ unseen'["sub"] = [p \in Path |-> Part]
  PROVE  InWindow' /\ AllSeen'
<1>1. InWindow'
  BY DEF LookInv, InWindow, Running
<1>2. \A s \in Session : s = "main" \/ s = "sub"
  BY DEF Session
<1>3. "main" \in Session /\ "sub" \in Session
  BY DEF Session
<1>4. AllSeen'
  BY <1>2, <1>3, AgentAssumption DEF LookInv, AllSeen
<1> QED
  BY <1>1, <1>4

LEMMA LookStep == LookInv /\ [Next]_vars => LookInv'
<1> SUFFICES ASSUME LookInv, [Next]_vars PROVE LookInv'
  OBVIOUS
<1>0. TypeOK'
  BY TypeStep DEF LookInv
<1>1. SUFFICES InWindow' /\ AllSeen'
  BY <1>0 DEF LookInv
<1>t. /\ readPaths \in [Session -> SUBSET Path] /\ seen \in [Session -> [Path -> File]]
      /\ unseen \in [Session -> [Path -> SUBSET Part]] /\ window \in [Path -> SUBSET File]
      /\ disk \in [Path -> File] /\ call \in Calls /\ pending \in Seq([path : Path, new : File])
      /\ checkpoints \in Seq([path : Path, previous : File])
      /\ late \subseteq [op : Mutation, number : Nat]
      /\ turn \in Session \cup {"idle", "review"}
  BY DEF LookInv, TypeOK
<1>s. "main" \in Session /\ "sub" \in Session /\ "idle" \notin Session /\ "review" \notin Session
  BY DEF Session
<1>2. CASE UNCHANGED vars
  BY <1>2, QuietLooks DEF vars, knowledge
<1>3. ASSUME NEW attached \in SUBSET {p \in Path : Exists(p)}, StartTurn(attached) PROVE InWindow' /\ AllSeen'
  <2>1. readPaths'["main"] = attached
    BY <1>3, <1>t, <1>s DEF StartTurn
  <2>2. /\ \A p \in Path : seen'["main"][p] = IF p \in attached THEN disk[p] ELSE seen["main"][p]
        /\ \A p \in Path : unseen'["main"][p] = IF p \in attached THEN {} ELSE unseen["main"][p]
        /\ seen'["sub"] = seen["sub"] /\ unseen'["sub"] = unseen["sub"]
        /\ \A p \in Path : window'[p] = IF p \in attached THEN {disk[p]} ELSE window[p]
    BY <1>3, <1>t, <1>s DEF StartTurn
  <2>3. disk' = disk
    BY <1>3 DEF StartTurn
  <2>4. InWindow'
    BY <2>1, <2>2, <2>3 DEF LookInv, InWindow
  <2>5. AllSeen'
    BY <2>2, <2>3 DEF LookInv, AllSeen, Session
  <2> QED
    BY <2>4, <2>5
<1>4. ASSUME NEW attached \in SUBSET {p \in Path : Exists(p)}, Delegate(attached) PROVE InWindow' /\ AllSeen'
  <2>1. /\ readPaths'["main"] = readPaths["main"] /\ seen'["main"] = seen["main"]
        /\ unseen'["main"] = unseen["main"] /\ UNCHANGED <<disk, window>>
        /\ Running
    BY <1>4, <1>t, <1>s DEF Delegate, Free
  <2>2. /\ \A p \in Path : p \in attached => seen'["sub"][p] = disk[p]
        /\ \A p \in Path : p \notin attached => unseen'["sub"][p] = Part
    BY <1>4, <1>t, <1>s DEF Delegate
  <2>3. InWindow'
    BY <2>1 DEF LookInv, InWindow
  <2>4. AllSeen'
    BY <2>1, <2>2, AgentAssumption DEF LookInv, AllSeen, Session
  <2> QED
    BY <2>3, <2>4
<1>5. ASSUME UNCHANGED <<disk, turn, readPaths, seen, unseen, window>> PROVE InWindow' /\ AllSeen'
  BY <1>5, QuietLooks
<1>6. ASSUME NEW op \in Reading, Repeat(op) \/ Read(op) PROVE InWindow' /\ AllSeen'
  BY <1>5, <1>6 DEF Repeat, Read, knowledge
<1>7. CASE FinishRead
  <2>1. call.op.path \in Path /\ turn \in Session
    BY <1>7, <1>t DEF FinishRead, At, Running, Calls, NoCall, Reading, Mutation, Edit, Whole, Delete
  <2> QED
    BY <1>7, <2>1, MarkSeenLooks DEF FinishRead
<1>8. CASE ReadFails
  BY <1>5, <1>8 DEF ReadFails
<1>9. ASSUME NEW op \in Mutation, Refuse(op) \/ Bail(op) \/ Queue(op) \/ AutoApprove(op) \/ Ask(op)
      PROVE  InWindow' /\ AllSeen'
  BY <1>5, <1>9 DEF Refuse, Bail, Queue, AutoApprove, Ask, knowledge
<1>10. ASSUME NEW op \in Mutation, RefuseUnread(op) PROVE InWindow' /\ AllSeen'
  <2>1. op.path \in Path
    BY DEF Mutation, Edit, Whole, Delete
  <2>2. CASE UNCHANGED <<readPaths, seen, unseen, window>>
    BY <1>5, <1>10, <2>2 DEF RefuseUnread
  <2>3. ASSUME NEW view, MarkSeen(turn, op.path, view, disk[op.path]) PROVE InWindow' /\ AllSeen'
    BY <1>10, <2>1, <2>3, MarkSeenLooks DEF RefuseUnread, Free, Running
  <2> QED
    BY <1>10, <2>2, <2>3 DEF RefuseUnread
<1>11. CASE Approve \/ Decline \/ ExecuteFails \/ TimeOut
  BY <1>5, <1>11 DEF Approve, Decline, ExecuteFails, TimeOut, knowledge
<1>12. ASSUME NEW op \in Mutation, Applies(op, disk[op.path]), Put(op.path, After(op, disk[op.path])),
              UNCHANGED <<readPaths, seen, turn>>
       PROVE  InWindow' /\ AllSeen'
  <2>1. op.path \in Path
    BY DEF Mutation, Edit, Whole, Delete
  <2>2. disk[op.path] \in File
    BY <1>t, <2>1
  <2>3. After(op, disk[op.path]) \in File
    BY <1>12, <2>2, AppliesToFile
  <2> QED
    BY <1>12, <2>1, <2>3, PutLooks
<1>13. CASE Execute
  <2>1. call.op \in Mutation
    BY <1>13, <1>t, CallShape DEF Execute, At, LookInv
  <2> QED
    BY <1>12, <1>13, <2>1 DEF Execute, knowledge
<1>14. CASE FinishWrite
  <2>1. call.op.path \in Path /\ turn \in Session
    BY <1>14, <1>t DEF FinishWrite, At, Running, Calls, NoCall, Reading, Mutation, Edit, Whole, Delete
  <2>2. CASE UNCHANGED <<readPaths, seen, unseen, window>>
    BY <1>5, <1>14, <2>2 DEF FinishWrite
  <2> QED
    BY <1>14, <2>1, <2>2, MarkSeenLooks DEF FinishWrite
<1>15. ASSUME NEW w \in late, LateWrite(w) PROVE InWindow' /\ AllSeen'
  <2>1. w.op \in Mutation
    BY <1>t
  <2>2. CASE UNCHANGED <<disk, unseen, window>>
    BY <1>5, <1>15, <2>2 DEF LateWrite, knowledge
  <2> QED
    BY <1>12, <1>15, <2>1, <2>2 DEF LateWrite, knowledge
<1>16. CASE EndSub \/ Interrupt \/ FailTurn
  <2>1. DropSub /\ UNCHANGED <<disk, window>> /\ turn \in Session
    BY <1>16, <1>s DEF EndSub, Interrupt, FailTurn, Running
  <2>2. /\ readPaths'["main"] = readPaths["main"] /\ seen'["main"] = seen["main"]
        /\ unseen'["main"] = unseen["main"] /\ unseen'["sub"] = [p \in Path |-> Part]
    BY <2>1, <1>t, <1>s DEF DropSub
  <2> QED
    BY <2>1, <2>2, QuietLooks
<1>17. CASE EndTurn
  <2>1. turn \in Session
    BY <1>17, <1>s DEF EndTurn
  <2> QED
    BY <1>17, <2>1, QuietLooks DEF EndTurn, knowledge
<1>18. CASE Pick
  <2>1. pending # <<>> /\ turn \notin Session
    BY <1>18, <1>s DEF Pick, LookInv, TypeOK
  <2>2. Head(pending) \in [path : Path, new : File]
    BY <1>t, <2>1, HeadTailProperties
  <2>3. Head(pending).path \in Path /\ Head(pending).new \in File
    BY <2>2
  <2>4. turn' \notin Session
    BY <1>18, <1>s DEF Pick
  <2> QED
    BY <1>18, <2>3, <2>4, PutLooks DEF Pick, knowledge
<1>19. CASE Discard
  <2>1. turn' \notin Session
    BY <1>19, <1>s DEF Discard
  <2> QED
    BY <1>19, <2>1, QuietLooks DEF Discard, knowledge
<1>20. CASE Undo
  <2>1. Last(checkpoints) \in [path : Path, previous : File]
    BY <1>20, FrontOfCheckpoints DEF Undo, LookInv
  <2>2. Last(checkpoints).path \in Path /\ Last(checkpoints).previous \in File
    BY <2>1
  <2> QED
    BY <1>20, <2>2, PutLooks DEF Undo, knowledge
<1>21. CASE UndoFails \/ CycleMode
  BY <1>5, <1>21 DEF UndoFails, CycleMode, knowledge
<1>22. CASE Reset
  <2>1. /\ \A p \in Path : seen'["main"][p] = NoFile /\ unseen'["main"][p] = Part
        /\ seen'["sub"] = seen["sub"] /\ unseen'["sub"] = unseen["sub"]
        /\ UNCHANGED <<disk, turn, readPaths, window>>
    BY <1>22, <1>t, <1>s DEF Reset
  <2>2. InWindow'
    BY <2>1 DEF LookInv, InWindow, Running
  <2>3. AllSeen'
    BY <2>1, AgentAssumption DEF LookInv, AllSeen, Session
  <2> QED
    BY <2>2, <2>3
<1>23. ASSUME NEW p \in Path, NEW f \in File, Outside(p, f) PROVE InWindow' /\ AllSeen'
  BY <1>23, PutLooks DEF Outside, knowledge
<1> QED
  BY <1>2, <1>3, <1>4, <1>6, <1>7, <1>8, <1>9, <1>10, <1>11, <1>13, <1>14, <1>15, <1>16, <1>17, <1>18,
     <1>19, <1>20, <1>21, <1>22, <1>23
     DEF Next, Propositions

LEMMA LookFromTheStart == Init => LookInv
<1> SUFFICES ASSUME Init PROVE LookInv
  OBVIOUS
<1>1. TypeOK
  BY InitTyped
<1>2. \A s \in Session, p \in Path : seen[s][p] = NoFile /\ unseen[s][p] = Part
  BY DEF Init
<1>3. ~Running
  BY DEF Init, Running, Session
<1>4. InWindow
  BY <1>2, <1>3 DEF InWindow, Session
<1>5. AllSeen
  BY <1>2, AgentAssumption DEF AllSeen
<1> QED
  BY <1>1, <1>4, <1>5 DEF LookInv

\* A rewrite or delete of a whole file that others have changed is proposed only
\* after the main session has looked at what they left (AgentSession._known), in
\* whatever order the agent, its sub-agents and other programs come.
THEOREM ForeignWorkIsLookedAt == Spec => ForeignWorkIsReadFirst
<1>1. LookInv /\ [Next]_vars
      => [\A op \in Whole \cup Delete :
            turn = "main" /\ Exists(op.path) /\ disk[op.path] \notin window[op.path]
              => ~(Queue(op) \/ AutoApprove(op) \/ Ask(op))]_vars
  <2> SUFFICES ASSUME LookInv, NEW op \in Whole \cup Delete, turn = "main", Exists(op.path),
                      Queue(op) \/ AutoApprove(op) \/ Ask(op)
               PROVE  disk[op.path] \in window[op.path]
    OBVIOUS
  <2>1. Admitted(op) /\ Running
    BY DEF Queue, AutoApprove, Ask, Propose, Free
  <2>2. op.path \in Path
    BY DEF Whole, Delete
  <2>3. NeedsRead(op)
    BY <2>1 DEF Whole, Delete, NeedsRead, Admitted
  <2>4. op.path \in readPaths["main"] \/ seen["main"][op.path] = disk[op.path]
    BY <2>1, <2>3 DEF Admitted, Known
  <2> QED
    BY <2>1, <2>2, <2>4 DEF LookInv, InWindow, Exists
<1> QED
  BY <1>1, LookFromTheStart, LookStep, PTL DEF Spec, ForeignWorkIsReadFirst

\* A session that knows all a file says, since it read or wrote it, is never sent
\* to read it again (AgentSession._execute_tool_call).
THEOREM RefusalsAreForUnseen == Spec => RefusedForUnseenOnly
<1>1. LookInv /\ [Next]_vars
      => [\A op \in Mutation :
            Running /\ Exists(op.path) /\ unseen[turn][op.path] = {} => ~RefuseUnread(op)]_vars
  <2> SUFFICES ASSUME LookInv, NEW op \in Mutation, Running, Exists(op.path), unseen[turn][op.path] = {}
               PROVE  ~RefuseUnread(op)
    OBVIOUS
  <2>1. op.path \in Path
    BY DEF Mutation, Edit, Whole, Delete
  <2>2. seen[turn][op.path] = disk[op.path]
    BY <2>1 DEF LookInv, AllSeen, Running, Exists
  <2> QED
    BY <2>2 DEF RefuseUnread, Known
<1> QED
  BY <1>1, LookFromTheStart, LookStep, PTL DEF Spec, RefusedForUnseenOnly

-----------------------------------------------------------------------------
(* The web.                                                                 *)

Somewhere == Hosts \union {Nowhere}
Ats       == {"none", "check", "robots", "get", "text", "snippet"}
Pages     == [at : Ats, host : Somewhere, hops : Nat]
IsReached(page) == page.at = "robots" \/ page.at = "get"

Said == [key : Queries \X BOOLEAN, at : Nat, since : Nat, heard : Nat, found : Seq(Sites)]
(* What the chain remembers was said when it was noted, and if it is nothing    *)
(* one of the providers said so.                                            *)
SoundlySaid == {e \in Said : e.since = e.at /\ (e.found = <<>> => e.heard > 0)}

(* An answer as old as it may be, and pages under way to hosts that were        *)
(* checked.                                                                 *)
Shaped(c) == c = [x \in DOMAIN Fresh |-> c[x]]
Sound(c) ==
    /\ Shaped(c)
    /\ c.tried \in Nat /\ c.failed \in 0..c.tried /\ c.tried < Len(Providers)
    /\ c.age = 0 \/ c.age < TTL
    /\ c.pages \in [Sites -> Pages]
    /\ \A s \in Sites : IsReached(c.pages[s]) => MayReach(c.pages[s].host)

WebInv ==
    /\ tick \in Nat /\ known \in Seq(SoundlySaid)
    /\ DOMAIN ask = Requests /\ \A r \in Requests : Sound(ask[r])
    /\ \A host \in reached : MayReach(host)

LEMMA AtNames == {"none", "check", "robots", "get", "text", "snippet"} \subseteq Ats
BY DEF Ats

LEMMA FreshIsSound == Sound(Fresh) /\ Sound(Searchless)
<1>1. Fresh.tried = 0 /\ Fresh.failed = 0 /\ Fresh.age = 0 /\ Fresh.pages = [s \in Sites |-> Unread("none")] /\ Shaped(Fresh)
  BY DEF Fresh, Shaped
<1>2. Unread("none") \in Pages /\ ~IsReached(Unread("none"))
  BY AtNames DEF Unread, Pages, IsReached, Somewhere
<1>3. Sound(Fresh) BY <1>1, <1>2, WebAssumption DEF Sound
<1>4. /\ Searchless.tried = 0 /\ Searchless.failed = 0 /\ Searchless.age = 0
      /\ Searchless.pages = Fresh.pages /\ Shaped(Searchless)
  BY DEF Searchless, Fresh, Shaped
<1>5. Sound(Searchless) BY <1>1, <1>2, <1>4, WebAssumption DEF Sound
<1> QED BY <1>3, <1>5

(* One page of a caller moves on.                                            *)
LEMMA PageMoves ==
    ASSUME NEW c, Sound(c), NEW s \in Sites, NEW page \in Pages, IsReached(page) => MayReach(page.host)
    PROVE  Sound([c EXCEPT !.pages[s] = page])
<1> DEFINE d == [c EXCEPT !.pages[s] = page]
<1>1. /\ d.tried = c.tried /\ d.failed = c.failed /\ d.age = c.age
      /\ d.pages = [c.pages EXCEPT ![s] = page] /\ Shaped(d)
  BY DEF Sound, Shaped, Fresh
<1> HIDE DEF d
<1>2. d.pages \in [Sites -> Pages] /\ d.pages[s] = page /\ \A t \in Sites \ {s} : d.pages[t] = c.pages[t]
  BY <1>1 DEF Sound
<1>3. \A t \in Sites : IsReached(d.pages[t]) => MayReach(d.pages[t].host) BY <1>2 DEF Sound
<1>4. /\ d.tried \in Nat /\ d.failed \in 0..d.tried /\ d.tried < Len(Providers)
      /\ d.age = 0 \/ d.age < TTL
  BY <1>1 DEF Sound
<1>5. Shaped(d) /\ d.pages \in [Sites -> Pages] BY <1>1, <1>2
<1>6. Sound(d) BY <1>3, <1>4, <1>5 DEF Sound
<1> QED BY <1>6 DEF d

LEMMA ReadsIsSound ==
    ASSUME NEW c, Sound(c), NEW s \in Sites, NEW at \in Ats, 
           at = "robots" \/ at = "get" => MayReach(c.pages[s].host)
    PROVE  Sound([c EXCEPT !.pages[s].at = at])
<1>1. c.pages[s] \in Pages BY DEF Sound
<1> DEFINE page == [c.pages[s] EXCEPT !.at = at]
<1>2. page \in Pages /\ page.at = at /\ page.host = c.pages[s].host BY <1>1 DEF Pages
<1>3. Sound([c EXCEPT !.pages[s] = page]) BY <1>2, PageMoves DEF IsReached
<1>4. [c EXCEPT !.pages[s] = page] = [c EXCEPT !.pages[s].at = at] OBVIOUS
<1> QED BY <1>3, <1>4

LEMMA FetchingIsSound ==
    ASSUME NEW record, Sound(record), NEW found
    PROVE  Sound(Fetching(record, found))
<1> DEFINE first == SubSeq(found, 1, IF Len(found) < MaxSources THEN Len(found) ELSE MaxSources)
           fetching == Fetching(record, found)
<1>1. /\ fetching.tried = record.tried /\ fetching.failed = record.failed /\ fetching.age = record.age
      /\ Shaped(fetching)
      /\ fetching.pages = [s \in Sites |-> IF s \in ToSet(first) THEN [at |-> "check", host |-> HostOf[s], hops |-> 0]
                                           ELSE record.pages[s]]
  BY DEF Fetching, Fresh, Sound, Shaped
<1>2. ASSUME NEW s \in Sites
      PROVE  /\ fetching.pages[s] \in Pages
             /\ IsReached(fetching.pages[s]) => MayReach(fetching.pages[s].host)
  <2> DEFINE check == [at |-> "check", host |-> HostOf[s], hops |-> 0]
  <2>1. check \in Pages /\ ~IsReached(check) BY WebAssumption, AtNames DEF Pages, Somewhere, IsReached
  <2>2. record.pages[s] \in Pages /\ (IsReached(record.pages[s]) => MayReach(record.pages[s].host)) BY DEF Sound
  <2>3. fetching.pages[s] = check \/ fetching.pages[s] = record.pages[s] BY <1>1
  <2> HIDE DEF check, fetching
  <2> QED BY <2>1, <2>2, <2>3
<1> HIDE DEF fetching
<1>3. fetching.pages \in [Sites -> Pages] BY <1>1, <1>2
<1>4. /\ fetching.tried \in Nat /\ fetching.failed \in 0..fetching.tried /\ fetching.tried < Len(Providers)
      /\ fetching.age = 0 \/ fetching.age < TTL
  BY <1>1 DEF Sound
<1>5. Sound(fetching) BY <1>1, <1>2, <1>3, <1>4 DEF Sound
<1> QED BY <1>5 DEF fetching

LEMMA FoundIsSound ==
    ASSUME NEW r \in Requests, NEW found, NEW age, age = 0 \/ age < TTL
    PROVE  Sound(Found(r, found, age))
<1> DEFINE record == [Fresh EXCEPT !.age = age]
           told == [record EXCEPT !.stage = "told", !.found = found]
<1>1. record.tried = 0 /\ record.failed = 0 /\ record.age = age /\ record.pages = Fresh.pages /\ Shaped(record)
  BY DEF Fresh, Shaped
<1>2. Sound(record) BY <1>1, FreshIsSound, WebAssumption DEF Sound
<1>3. told.tried = 0 /\ told.failed = 0 /\ told.age = age /\ told.pages = Fresh.pages /\ Shaped(told)
  BY DEF Fresh, Shaped
<1>4. Sound(told) BY <1>3, FreshIsSound, WebAssumption DEF Sound
<1>5. Sound(Fetching(record, found)) BY <1>1, <1>2, FetchingIsSound
<1> QED BY <1>4, <1>5 DEF Found

LEMMA AskTyped ==
    ASSUME WebInv, NEW r \in Requests, NEW record, Sound(record), Becomes(r, record)
    PROVE  DOMAIN ask' = Requests /\ \A q \in Requests : Sound(ask'[q])
BY DEF WebInv, Becomes

LEMMA RecalledIn ==
    ASSUME known \in Seq(SoundlySaid), NEW i \in DOMAIN known
    PROVE  Recalled(i) \in Seq(SoundlySaid)
<1>1. SubSeq(known, 1, i - 1) \in Seq(SoundlySaid) /\ SubSeq(known, i + 1, Len(known)) \in Seq(SoundlySaid)
  OBVIOUS
<1>2. RemoveAt(known, i) \in Seq(SoundlySaid) BY <1>1 DEF RemoveAt
<1>3. known[i] \in SoundlySaid OBVIOUS
<1> QED BY <1>2, <1>3 DEF Recalled

LEMMA StoredIn ==
    ASSUME WebInv, NEW r \in Requests, NEW found \in Seq(Sites), NEW heard \in Nat, found = <<>> => heard > 0
    PROVE  Stored(r, found, heard) \in Seq(SoundlySaid)
<1> DEFINE entry == [key |-> Key(r), at |-> tick, since |-> tick, heard |-> heard, found |-> found]
           old   == {i \in DOMAIN known : known[i].key = Key(r)}
           grown == IF old = {} THEN Append(known, entry)
                    ELSE [i \in DOMAIN known |-> IF i \in old THEN entry ELSE known[i]]
<1>1. Key(r) \in Queries \X BOOLEAN
  <2>1. \A b \in BOOLEAN : <<QueryOf[r], b>> \in Queries \X BOOLEAN BY WebAssumption
  <2>2. (r \in Agents) \in BOOLEAN OBVIOUS
  <2> QED BY <2>1, <2>2, Zenon DEF Key
<1>2. entry \in SoundlySaid BY <1>1 DEF SoundlySaid, Said, WebInv
<1> HIDE DEF entry
<1>3. known \in Seq(SoundlySaid) BY DEF WebInv
<1>4. Append(known, entry) \in Seq(SoundlySaid) BY <1>2, <1>3
<1>5. [i \in DOMAIN known |-> IF i \in old THEN entry ELSE known[i]] \in Seq(SoundlySaid)
  <2> HIDE DEF old
  <2>1. Len(known) \in Nat /\ DOMAIN known = 1..Len(known) BY <1>3
  <2>2. \A i \in 1..Len(known) : (IF i \in old THEN entry ELSE known[i]) \in SoundlySaid BY <1>2, <1>3
  <2> QED BY <2>1, <2>2
<1>6. grown \in Seq(SoundlySaid)
  <2> HIDE DEF old
  <2> QED BY <1>4, <1>5
<1>7. Stored(r, found, heard) = IF Len(grown) > CacheSize THEN SubSeq(grown, Len(grown) - CacheSize + 1, Len(grown)) ELSE grown
  BY DEF Stored, entry
<1> HIDE DEF grown
<1>8. ASSUME Len(grown) > CacheSize
      PROVE  SubSeq(grown, Len(grown) - CacheSize + 1, Len(grown)) \in Seq(SoundlySaid)
  <2>1. CacheSize \in Nat /\ Len(grown) \in Nat BY <1>6, WebAssumption
  <2>2. \A i \in (Len(grown) - CacheSize + 1)..Len(grown) : grown[i] \in SoundlySaid BY <1>6, <1>8, <2>1
  <2> QED BY <1>8, <2>1, <2>2
<1> QED BY <1>6, <1>7, <1>8

LEMMA SearchKeeps ==
    ASSUME WebInv, NEW r \in Requests, Search(r) \/ Skip(r)
    PROVE  WebInv'
<1>0. tick' = tick /\ reached' = reached BY DEF Search, Skip
<1>1. ASSUME NEW i \in DOMAIN known, Live(known[i]), known' = Recalled(i),
             Becomes(r, Found(r, known[i].found, tick - known[i].since))
      PROVE  WebInv'
  <2>1. known[i].since = known[i].at BY DEF WebInv, SoundlySaid
  <2>2. tick - known[i].since < TTL BY <1>1, <2>1 DEF Live
  <2>3. Sound(Found(r, known[i].found, tick - known[i].since)) BY <2>2, FoundIsSound
  <2>4. known' \in Seq(SoundlySaid) BY <1>1, RecalledIn DEF WebInv
  <2> QED BY <1>0, <1>1, <2>3, <2>4, AskTyped DEF WebInv
<1>2. ASSUME known' = known, Becomes(r, [ask[r] EXCEPT !.stage = "searching"]) PROVE WebInv'
  <2>1. Sound([ask[r] EXCEPT !.stage = "searching"]) BY DEF WebInv, Sound, Shaped, Fresh
  <2> QED BY <1>0, <1>2, <2>1, AskTyped DEF WebInv
<1>3. ASSUME known' = known, Becomes(r, Searchless) PROVE WebInv'
  BY <1>0, <1>3, AskTyped, FreshIsSound DEF WebInv
<1> QED BY <1>1, <1>2, <1>3 DEF Search, Skip

LEMMA ProviderKeeps ==
    ASSUME WebInv, NEW r \in Requests, Finds(r) \/ \E fails \in BOOLEAN : FindsNothing(r, fails)
    PROVE  WebInv'
<1>0. tick' = tick /\ reached' = reached BY DEF Finds, FindsNothing
<1> DEFINE c == ask[r]
<1>1. /\ Sound(c) /\ Len(Providers) \in Nat
      /\ c.tried \in Nat /\ c.failed \in 0..c.tried /\ c.tried < Len(Providers)
  BY WebAssumption DEF WebInv, Sound
<1>2. CASE Finds(r)
  <2>1. PICK found \in Results : known' = Stored(r, found, c.tried + 1 - c.failed) /\ Becomes(r, Found(r, found, 0))
    BY <1>2 DEF Finds
  <2>2. found \in Seq(Sites) /\ found # <<>> BY WebAssumption
  <2>3. c.tried + 1 - c.failed \in Nat BY <1>1
  <2>4. known' \in Seq(SoundlySaid) BY <2>1, <2>2, <2>3, StoredIn
  <2>5. Sound(Found(r, found, 0)) BY FoundIsSound
  <2> QED BY <1>0, <2>1, <2>4, <2>5, AskTyped DEF WebInv
<1>3. ASSUME NEW fails \in BOOLEAN, FindsNothing(r, fails) PROVE WebInv'
  <2> DEFINE failed == c.failed + (IF fails THEN 1 ELSE 0)
             d == [c EXCEPT !.tried = c.tried + 1, !.failed = failed]
  <2>1. failed \in 0..(c.tried + 1) BY <1>1
  <2>2. CASE c.tried + 1 < Len(Providers) /\ known' = known /\ Becomes(r, d)
    <3>1. d.tried = c.tried + 1 /\ d.failed = failed /\ d.age = c.age /\ d.pages = c.pages /\ Shaped(d)
      BY <1>1 DEF Sound, Shaped, Fresh
    <3> HIDE DEF d, failed
    <3>2. Sound(d) BY <1>1, <2>1, <2>2, <3>1 DEF Sound
    <3> QED BY <1>0, <2>2, <3>2, AskTyped DEF WebInv
  <2>3. CASE known' = known /\ Becomes(r, Searchless) BY <1>0, <2>3, AskTyped, FreshIsSound DEF WebInv
  <2>4. CASE /\ ~(c.tried + 1 < Len(Providers)) /\ failed # Len(Providers)
             /\ known' = Stored(r, <<>>, Len(Providers) - failed) /\ Becomes(r, Found(r, <<>>, 0))
    <3>1. Len(Providers) - failed \in Nat /\ Len(Providers) - failed > 0 BY <1>1, <2>1, <2>4
    <3>2. Stored(r, <<>>, Len(Providers) - failed) \in Seq(SoundlySaid)
      <4>1. PICK heard \in Nat : heard = Len(Providers) - failed BY <3>1
      <4>2. <<>> \in Seq(Sites) OBVIOUS
      <4> HIDE DEF failed
      <4> QED BY <3>1, <4>1, <4>2, StoredIn
    <3>3. Sound(Found(r, <<>>, 0)) BY FoundIsSound
    <3> QED BY <1>0, <2>4, <3>2, <3>3, AskTyped DEF WebInv
  <2> QED BY <1>3, <2>2, <2>3, <2>4 DEF FindsNothing, AllFailed
<1> QED BY <1>2, <1>3

LEMMA PagesKeep ==
    ASSUME WebInv, NEW r \in Requests, NEW s \in Sites,
           \/ FetchUrl(r, s) \/ CheckDestination(r, s) \/ BadAddress(r, s)
           \/ RobotsAllows(r, s) \/ Download(r, s) \/ Redirect(r, s) \/ FetchTimeout(r, s)
    PROVE  WebInv'
<1> DEFINE c == ask[r]
           page == c.pages[s]
<1>0. tick' = tick /\ known' = known
  BY DEF FetchUrl, CheckDestination, BadAddress, RobotsAllows, Download, Redirect, FetchTimeout
<1>1. Sound(c) /\ page \in Pages /\ (IsReached(page) => MayReach(page.host)) BY DEF WebInv, Sound
<1>2. ASSUME NEW at \in {"text", "snippet"}, Closes(r, s, at)
      PROVE  DOMAIN ask' = Requests /\ \A q \in Requests : Sound(ask'[q])
  <2>1. Unread(at) \in Pages /\ ~IsReached(Unread(at))
    BY AtNames DEF Unread, Pages, Somewhere, IsReached
  <2>2. Sound([c EXCEPT !.pages[s] = Unread(at)]) BY <1>1, <2>1, PageMoves
  <2> QED BY <1>2, <2>2, AskTyped DEF Closes
<1>3. CASE FetchUrl(r, s)
  <2>1. Sound(Fetching(c, <<s>>)) BY <1>1, FetchingIsSound
  <2> QED BY <1>0, <1>3, <2>1, AskTyped DEF FetchUrl, WebInv
<1>4. CASE CheckDestination(r, s)
  <2>1. MayReach(page.host) => Sound([c EXCEPT !.pages[s].at = "robots"])
    BY <1>1, AtNames, ReadsIsSound
  <2>2. CASE Closes(r, s, "snippet")
    BY <1>0, <1>2, <1>4, <2>2 DEF CheckDestination, WebInv
  <2>3. CASE MayReach(page.host) /\ Reads(r, s, "robots")
    BY <1>0, <1>4, <2>1, <2>3, AskTyped DEF CheckDestination, WebInv, Reads
  <2> QED BY <1>4, <2>2, <2>3 DEF CheckDestination
<1>5. CASE BadAddress(r, s) BY <1>0, <1>5, FreshIsSound, AskTyped DEF BadAddress, WebInv
<1>6. ASSUME Reaches(r, s), IsReached(page) PROVE \A host \in reached' : MayReach(host)
  BY <1>1, <1>6 DEF Reaches, WebInv
<1>7. CASE RobotsAllows(r, s)
  <2>1. IsReached(page) BY <1>7 DEF RobotsAllows, Page, IsReached
  <2>2. \A host \in reached' : MayReach(host) BY <1>6, <1>7, <2>1 DEF RobotsAllows
  <2>3. CASE Closes(r, s, "snippet") BY <1>0, <1>2, <2>2, <2>3 DEF WebInv
  <2>4. CASE Reads(r, s, "get")
    <3>1. Sound([c EXCEPT !.pages[s].at = "get"]) BY <1>1, <2>1, AtNames, ReadsIsSound
    <3> QED BY <1>0, <2>2, <2>4, <3>1, AskTyped DEF WebInv, Reads
  <2> QED BY <1>7, <2>3, <2>4 DEF RobotsAllows
<1>8. CASE Download(r, s)
  <2>1. IsReached(page) BY <1>8 DEF Download, Page, IsReached
  <2>2. \A host \in reached' : MayReach(host) BY <1>6, <1>8, <2>1 DEF Download
  <2>3. PICK at \in {"text", "snippet"} : Closes(r, s, at) BY <1>8 DEF Download
  <2> QED BY <1>0, <1>2, <2>2, <2>3 DEF WebInv
<1>9. CASE Redirect(r, s)
  <2>1. IsReached(page) BY <1>9 DEF Redirect, Page, IsReached
  <2>2. \A host \in reached' : MayReach(host) BY <1>6, <1>9, <2>1 DEF Redirect
  <2>3. PICK host \in Hosts : Becomes(r, [c EXCEPT !.pages[s] = Redirected(page, host)])
    BY <1>9 DEF Redirect
  <2>4. Redirected(page, host) \in Pages /\ ~IsReached(Redirected(page, host))
    BY <1>1, AtNames DEF Redirected, Unread, Pages, Somewhere, IsReached
  <2>5. Sound([c EXCEPT !.pages[s] = Redirected(page, host)]) BY <1>1, <2>4, PageMoves
  <2> QED BY <1>0, <2>2, <2>3, <2>5, AskTyped DEF WebInv
<1>10. CASE FetchTimeout(r, s) BY <1>0, <1>2, <1>10 DEF FetchTimeout, WebInv
<1> QED BY <1>3, <1>4, <1>5, <1>7, <1>8, <1>9, <1>10

LEMMA WebStep ==
    ASSUME WebInv, [WebNext]_webVars
    PROVE  WebInv'
<1>1. CASE UNCHANGED webVars
  <2>1. UNCHANGED <<tick, known, ask, reached>> BY <1>1 DEF webVars
  <2> QED BY <2>1 DEF WebInv
<1>2. CASE Tick BY <1>2 DEF Tick, WebInv
<1>3. ASSUME NEW r \in Requests, Search(r) \/ Skip(r) PROVE WebInv' BY <1>3, SearchKeeps
<1>4. ASSUME NEW r \in Requests, Finds(r) \/ \E fails \in BOOLEAN : FindsNothing(r, fails) PROVE WebInv'
  BY <1>4, ProviderKeeps
<1>5. ASSUME NEW r \in Requests, Breaks(r) \/ GivesUp(r) \/ Rank(r) \/ AskAgain(r) PROVE WebInv'
  <2> DEFINE failed == [Fresh EXCEPT !.stage = "failed"]
             told   == [Fresh EXCEPT !.stage = "told"]
             prompt(sources) == [Fresh EXCEPT !.stage = "prompt", !.sources = sources]
  <2>1. Sound(failed) /\ Sound(told) BY FreshIsSound DEF Sound, Shaped, Fresh
  <2>2. \A sources : Sound(prompt(sources)) BY FreshIsSound DEF Sound, Shaped, Fresh
  <2>3. \E record : Sound(record) /\ Becomes(r, record)
    BY <1>5, <2>1, <2>2, FreshIsSound DEF Breaks, GivesUp, Rank, AskAgain
  <2>4. UNCHANGED <<tick, known, reached>> BY <1>5 DEF Breaks, GivesUp, Rank, AskAgain
  <2> QED BY <2>3, <2>4, AskTyped DEF WebInv
<1>6. ASSUME NEW r \in Requests, NEW s \in Sites,
             \/ FetchUrl(r, s) \/ CheckDestination(r, s) \/ BadAddress(r, s)
             \/ RobotsAllows(r, s) \/ Download(r, s) \/ Redirect(r, s) \/ FetchTimeout(r, s)
      PROVE  WebInv'
  BY <1>6, PagesKeep
<1> QED BY <1>1, <1>2, <1>3, <1>4, <1>5, <1>6 DEF WebNext

LEMMA WebFromTheStart == WebInit => WebInv
BY FreshIsSound DEF WebInit, WebInv

\* A search is answered with what a provider said less than a TTL ago, however the
\* cache is asked, filled and emptied meanwhile (SearchChain.search).
THEOREM AnswersStayRecent == WebSpec => []AnswersAreRecent
<1>1. WebInv => AnswersAreRecent
  BY DEF WebInv, Sound, AnswersAreRecent, SoundlySaid
<1> QED BY <1>1, WebFromTheStart, WebStep, PTL DEF WebSpec

\* No page and no robots.txt is asked of a host of a private network, through any
\* number of redirects (check_destination, fetch_page).
THEOREM PrivateHostsAreLeftAlone == WebSpec => []OnlyCheckedHostsAreReached
<1>1. WebInv => OnlyCheckedHostsAreReached BY DEF WebInv, OnlyCheckedHostsAreReached, MayReach
<1> QED BY <1>1, WebFromTheStart, WebStep, PTL DEF WebSpec
=============================================================================
