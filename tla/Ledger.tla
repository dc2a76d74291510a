-------------------------------- MODULE Ledger --------------------------------
(***************************************************************************)
(* The ledger of an agent's session (agent/context.py SessionLedger): what     *)
(* was asked first and which files its tools changed, observed turn by turn,   *)
(* written to the session's row after a turn (agent/memory.py,                *)
(* db/repositories/ledgers.py), and read again when a shell opens or resumes  *)
(* the session. Several shells may have one session open.                    *)
(*                                                                         *)
(* A save is two steps, the SELECT and the INSERT or UPDATE; each of them may  *)
(* fail, which costs that save only. Left out are the parts of a ledger that  *)
(* are replaced at will: the current task, the last error, the files read,    *)
(* and what the model makes of a compaction. What a sub-agent does is in the   *)
(* ledger of the sub-agent, which nobody keeps.                              *)
(***************************************************************************)

CONSTANTS Shells, SessionIds, Tasks, Paths, Absent

VARIABLES
    shell,    \* apart: history, its ledger may lack what the row tells
    records,     \* session_ledgers: at most one of a session
    happened  \* history: what was asked and changed in each session

ledgerVars == <<shell, records, happened>>

(* SessionLedger; a row that is not there tells the same as an empty one.     *)
Empty == [goal |-> Absent, changed |-> {}]
Ledgers == [goal : Tasks \union {Absent}, changed : SUBSET Paths]
Stage(c, stage) == shell[c].stage = stage
Off == [stage |-> "off", session |-> Absent, ledger |-> Empty, found |-> FALSE, apart |-> FALSE]

LedgerInit ==
    /\ shell = [c \in Shells |-> Off]
    /\ records = [s \in SessionIds |-> {}]
    /\ happened = [s \in SessionIds |-> [goals |-> {}, files |-> {}]]

-----------------------------------------------------------------------------
(* LedgerRepository.get: scalar_one_or_none, and from_dict.                   *)
RecordOf(s) == IF records[s] = {} THEN Empty ELSE CHOOSE row \in records[s] : TRUE

(* build_session: a ledger that cannot be read is an empty one.              *)
OpenShell(c, s, read) ==
    /\ Stage(c, "off")
    /\ shell' = [shell EXCEPT ![c] = [Off EXCEPT !.stage = "idle", !.session = s, !.apart = ~read,
                                                 !.ledger = IF read THEN RecordOf(s) ELSE Empty]]
    /\ UNCHANGED <<records, happened>>

\* variant: /resume changes where new turns are saved, and nothing else
ResumedElsewhere(c, s) == [shell[c] EXCEPT !.session = s]

(* /resume, whose failure ends the shell.                                    *)
Resumed(c, s) == [shell[c] EXCEPT !.session = s, !.ledger = RecordOf(s), !.apart = FALSE]
ResumeSession(c, s) ==
    /\ Stage(c, "idle") /\ shell' = [shell EXCEPT ![c] = Resumed(c, s)]
    /\ UNCHANGED <<records, happened>>

(* /clear: a new ledger in the same session.                                 *)
ClearShell(c) ==
    /\ Stage(c, "idle")
    /\ shell' = [shell EXCEPT ![c].ledger = Empty, ![c].apart = TRUE]
    /\ UNCHANGED <<records, happened>>

CloseShell(c) ==
    /\ ~Stage(c, "off") /\ shell' = [shell EXCEPT ![c] = Off]
    /\ UNCHANGED <<records, happened>>

-----------------------------------------------------------------------------
\* variant: the goal is what was asked last
AskedLast(ledger, task) == [ledger EXCEPT !.goal = task]

(* A turn: observe_user, then observe_tool of every change that was made.      *)
Asked(ledger, task) == IF ledger.goal = Absent THEN [ledger EXCEPT !.goal = task] ELSE ledger
BeginTask(c, task) ==
    /\ Stage(c, "idle")
    /\ shell' = [shell EXCEPT ![c].stage = "turn", ![c].ledger = Asked(@, task)]
    /\ happened' = [happened EXCEPT ![shell[c].session].goals = @ \union {task}]
    /\ UNCHANGED records
ChangeFile(c, file) ==
    /\ Stage(c, "turn")
    /\ shell' = [shell EXCEPT ![c].ledger.changed = @ \union {file}]
    /\ happened' = [happened EXCEPT ![shell[c].session].files = @ \union {file}]
    /\ UNCHANGED records

(* It is interrupted, or stopped by an error the shell reports: the ledger     *)
(* keeps it, and the row hears of it with the next turn that ends.           *)
BreakOff(c) ==
    /\ Stage(c, "turn") /\ shell' = [shell EXCEPT ![c].stage = "idle"]
    /\ UNCHANGED <<records, happened>>

(* It ends: usage and messages are recorded, then save looks for the row.      *)
SelectRow(c) ==
    /\ Stage(c, "turn")
    /\ shell' = [shell EXCEPT ![c].stage = "saving", ![c].found = records[shell[c].session] # {}]
    /\ UNCHANGED <<records, happened>>

(* The UPDATE of the row found, or an INSERT, which ux_ledger_owner_session    *)
(* refuses when another shell's came first. The others do not hear of it.     *)
Accepted(c) == shell[c].found \/ records[shell[c].session] = {}
CommitRow(c) ==
    LET s == shell[c].session
    IN /\ Stage(c, "saving") /\ Accepted(c)
       /\ records' = [records EXCEPT ![s] = {shell[c].ledger}]
       /\ shell' = [d \in Shells |->
              IF d = c THEN [shell[c] EXCEPT !.stage = "idle", !.apart = FALSE]
              ELSE [shell[d] EXCEPT !.apart = @ \/ (shell[d].session = s)]]
       /\ UNCHANGED happened
SaveFails(c) ==
    /\ Stage(c, "saving") /\ shell' = [shell EXCEPT ![c].stage = "idle"]
    /\ UNCHANGED <<records, happened>>

LedgerNext == \E c \in Shells :
    \/ ClearShell(c) \/ CloseShell(c) \/ BreakOff(c) \/ SelectRow(c) \/ CommitRow(c) \/ SaveFails(c)
    \/ \E s \in SessionIds : (\E read \in BOOLEAN : OpenShell(c, s, read)) \/ ResumeSession(c, s)
    \/ \E task \in Tasks : BeginTask(c, task)
    \/ \E file \in Paths : ChangeFile(c, file)
LedgerSpec == LedgerInit /\ [][LedgerNext]_ledgerVars

-----------------------------------------------------------------------------
(* Properties. *)

LedgerTypeOK ==
    /\ \A s \in SessionIds : records[s] \subseteq Ledgers
    /\ \A c \in Shells : shell[c].session \in SessionIds \union {Absent} /\ shell[c].ledger \in Ledgers

Tells(ledger, s) ==
    /\ ledger.goal \in happened[s].goals \union {Absent}
    /\ ledger.changed \subseteq happened[s].files

(* "The authoritative record of what" was done (LEDGER_HEADER): a session has   *)
(* one row at most, and neither it nor the ledger of a shell that has the      *)
(* session open tells what was asked or changed in another session only,      *)
(* however often shells open, resume, clear, break off and save it             *)
(* (LedgerRepository, _resume_command).                                     *)
LedgersAreTrue ==
    /\ \A s \in SessionIds : (\A a, b \in records[s] : a = b) /\ \A row \in records[s] : Tells(row, s)
    /\ \A c \in Shells : Stage(c, "off") \/ Tells(shell[c].ledger, shell[c].session)

(* The row forgets what it told, its goal or a changed file, only by a save of  *)
(* a shell that was cleared, could not read the row, or had opened the session *)
(* before another shell saved it (build_session, SessionLedger.observe_user).  *)
SavedIsKept ==
    [][\A c \in Shells : Stage(c, "saving") /\ ~shell[c].apart =>
          \A s \in SessionIds : records'[s] # records[s] /\ shell[c].session = s /\ shell'[c].stage # "saving" =>
              \A old \in records[s], new \in records'[s] :
                  old.changed \subseteq new.changed /\ old.goal \in {new.goal, Absent}]_ledgerVars
=============================================================================
