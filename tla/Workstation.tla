----------------------------- MODULE Workstation -----------------------------
(***************************************************************************)
(* One user's machine and one project on it, as the processes of             *)
(* `localgate code`, `login` and `logout` share them: the saved gateway       *)
(* (gateway_client.py), the index of the project's sessions and the key row   *)
(* its history belongs to (agent/memory.py), from the start of a shell        *)
(* (cli.py code) over /connect, /disconnect and /resume (agent/repl.py).      *)
(*                                                                         *)
(* Each file access and each database call is a step. A file is empty while   *)
(* it is written; of the gateway's two files that says no more than that      *)
(* nothing is saved, and is left out. A gateway accepts the API keys it       *)
(* issued, so a key is the gateway it is from. What a turn does is in         *)
(* Conversation and AgentWrites.                                            *)
(***************************************************************************)
EXTENDS Integers, FiniteSets

CONSTANTS Processes,    \* commands of the user, in as many terminals
          Gateways,
          MaxSessions,  \* bound: session ids made
          MaxOwners,    \* bound: key rows made
          MaxCrashes,   \* bound: processes killed
          Nothing

ASSUME WorkstationAssumption ==
    /\ {MaxSessions, MaxOwners, MaxCrashes} \subseteq Nat
    /\ Nothing \notin Gateways

VARIABLES
    saved,    \* gateway_url and gateway_key
    index,    \* .localgate/sessions.json; Nothing: missing, or not valid JSON
    marker,   \* .localgate/session_id; 0: missing or empty
    minted,   \* session ids made so far (MaxSessions)
    owners,   \* key rows named LOCAL_AGENT_KEY_NAME, numbered as they were made
    rows,     \* the key rows that turns are recorded under
    command,
    crashes,  \* processes killed so far (MaxCrashes)
    left,     \* history: the sessions the project may have been left at
    torn,     \* history: saves of the index cut short since one was last whole
    cut,      \* history: the gateway's two files may be of two gateways, since a save
              \* of them was cut short or met another, and none has been alone since
    met,      \* history: whoever met a save when it saved them, or that or a cut when it
              \* read them
    clash     \* history: two processes were at the project's index or owner at once

workVars == <<saved, index, marker, minted, owners, rows, command, crashes, left, torn, cut, met, clash>>

Sessions == 0..MaxSessions
Store    == [current : Sessions, sessions : SUBSET (1..MaxSessions)]
NoStore  == [current |-> 0, sessions |-> {}]
ASSUME StoreAssumption == Nothing \notin Store

\* url, key: of the gateway in use, or being saved; memory: whether turns are
\* remembered, and whether the backend that embeds them has been closed.
Idle == [stage |-> "idle", then |-> "login", url |-> Nothing, key |-> Nothing,
         session |-> 0, owner |-> 0, memory |-> "none", store |-> NoStore]
Stages == {"idle", "reading", "asking", "saving", "forgetting", "listing", "creating", "locating",
           "index", "index open", "marker", "marker open", "open", "choosing", "died"}

WorkInit ==
    /\ saved = [url |-> Nothing, key |-> Nothing]
    /\ index = Nothing /\ marker = 0 /\ minted = 0 /\ owners = 0 /\ rows = {}
    /\ command = [p \in Processes |-> Idle]
    /\ crashes = 0 /\ left = {} /\ torn = 0 /\ cut = FALSE /\ met = {} /\ clash = FALSE

-----------------------------------------------------------------------------
In(p, stage) == command[p].stage = stage
Becomes(p, record) == command' = [command EXCEPT ![p] = record]
Enters(p, stage) == Becomes(p, [command[p] EXCEPT !.stage = stage])
Others(p, stages) == \E q \in Processes \ {p} : command[q].stage \in stages

Project == <<index, marker, minted, owners, rows, left, torn, clash>>

(* read_creds: both files, one after the other.                             *)
Code(p) ==
    /\ In(p, "idle")
    /\ Becomes(p, [Idle EXCEPT !.stage = "reading", !.url = saved.url])
    /\ met' = IF cut \/ Others(p, {"saving"}) THEN met \union {p} ELSE met \ {p}
    /\ UNCHANGED <<saved, crashes, cut, Project>>

(* What code makes of them: --remote, --local or neither; a gateway is asked   *)
(* for if there is none and a user to ask, and --remote needs one.           *)
Remote(url, key) == [Idle EXCEPT !.stage = "open", !.url = url, !.key = key]
Local == {[Idle EXCEPT !.stage = "listing"], [Idle EXCEPT !.stage = "open"]}
ReadKey(p) ==
    /\ In(p, "reading")
    /\ LET url   == command[p].url
           found == url # Nothing /\ saved.key # Nothing
       IN \E record \in Local \union (IF found THEN {Remote(url, saved.key)}
                                      ELSE {Idle, [Idle EXCEPT !.stage = "asking"]}) :
             Becomes(p, record)
    /\ UNCHANGED <<saved, crashes, cut, met, Project>>

(* _choose_where_models_run and _prompt_gateway: three tries, or this machine. *)
DeclinesGateway(p) ==
    /\ In(p, "asking") /\ \E record \in Local \union {Idle} : Becomes(p, record)
    /\ UNCHANGED <<saved, crashes, cut, met, Project>>

\* variant: the gateway is asked whether it is alive, and not whether it knows the key
VerifiedAlive(url, key) == TRUE

(* verify, then save_creds: `login`, the prompt above, and /connect.          *)
Verified(url, key) == key = url
Save(p, from, then) ==
    /\ In(p, from)
    /\ \E url, key \in Gateways :
          /\ Verified(url, key)
          /\ saved' = [saved EXCEPT !.url = url]
          /\ Becomes(p, [command[p] EXCEPT !.stage = "saving", !.then = then, !.url = url, !.key = key])
    /\ met' = (met \ {p}) \union {q \in Processes \ {p} : In(q, "saving") \/ In(q, "reading")}
                 \union (IF Others(p, {"saving"}) THEN {p} ELSE {})
    /\ UNCHANGED <<crashes, cut, Project>>
Login(p)         == Save(p, "idle", "login")
PromptGateway(p) == Save(p, "asking", "start")
Connect(p)       == Save(p, "open", "connect")

\* /connect closes the backend the shell had, which is the one its memory has.
Connected(record) == [record EXCEPT !.stage = "open", !.then = "login",
                                    !.memory = IF @ = "alive" THEN "closed" ELSE @]
SaveKey(p) ==
    /\ In(p, "saving")
    /\ saved' = [saved EXCEPT !.key = command[p].key]
    /\ Becomes(p, IF command[p].then = "login" THEN Idle ELSE Connected(command[p]))
    /\ cut' = (p \in met) /\ met' = met \ {p}
    /\ UNCHANGED <<crashes, Project>>

(* forget_creds: `logout`, and /disconnect, which goes back to this machine.  *)
Forget(p, from, then) ==
    /\ In(p, from) /\ saved' = [saved EXCEPT !.url = Nothing]
    /\ Becomes(p, [command[p] EXCEPT !.stage = "forgetting", !.then = then])
    /\ UNCHANGED <<crashes, cut, met, Project>>
Logout(p)     == Forget(p, "idle", "login")
Disconnect(p) == Forget(p, "open", "connect")
ForgetKey(p) ==
    /\ In(p, "forgetting") /\ saved' = [saved EXCEPT !.key = Nothing]
    /\ Becomes(p, IF command[p].then = "login" THEN Idle
                  ELSE [command[p] EXCEPT !.stage = "open", !.then = "login", !.url = Nothing, !.key = Nothing])
    /\ UNCHANGED <<crashes, cut, met, Project>>

-----------------------------------------------------------------------------
(* The project. get_or_create_local_agent_key_id: the newest row of the name. *)
Files == UNCHANGED <<saved, crashes, cut, met>>
ListKeys(p) ==
    /\ In(p, "listing")
    /\ Becomes(p, [command[p] EXCEPT !.stage = IF owners = 0 THEN "creating" ELSE "locating",
                                     !.owner = owners])
    /\ clash' = (clash \/ Others(p, {"creating"}))
    /\ UNCHANGED <<index, marker, minted, owners, rows, left, torn>> /\ Files
CreateKey(p) ==
    /\ In(p, "creating") /\ owners < MaxOwners /\ owners' = owners + 1
    /\ Becomes(p, [command[p] EXCEPT !.stage = "locating", !.owner = owners'])
    /\ UNCHANGED <<index, marker, minted, rows, left, torn, clash>> /\ Files

(* _load_session_store: an index that cannot be read counts as one session,   *)
(* the one of the marker.                                                   *)
Loaded ==
    IF index # Nothing THEN index
    ELSE IF marker # 0 THEN [current |-> marker, sessions |-> {marker}] ELSE NoStore
Saving   == {"index open", "marker", "marker open"}
Writing  == {"index"} \union Saving
Looks(p) == clash' = (clash \/ Others(p, Writing))
Current(store, id) == [current |-> id, sessions |-> store.sessions \union {id}]

(* project_session_id: a new project gets a new session.                    *)
Locate(p) ==
    /\ In(p, "locating") /\ Looks(p)
    /\ IF Loaded.current # 0
       THEN /\ Becomes(p, [command[p] EXCEPT !.stage = "open", !.session = Loaded.current, !.memory = "alive"])
            /\ UNCHANGED minted
       ELSE /\ minted < MaxSessions /\ minted' = minted + 1
            /\ Becomes(p, [command[p] EXCEPT !.stage = "index", !.session = minted', !.memory = "alive",
                                             !.store = Current(Loaded, minted')])
    /\ UNCHANGED <<index, marker, owners, rows, left, torn>> /\ Files

(* /resume: the list, the user's choice, set_current_project_session.        *)
Resume(p) ==
    /\ In(p, "open") /\ command[p].memory # "none" /\ Loaded.sessions # {} /\ Looks(p)
    /\ Becomes(p, [command[p] EXCEPT !.stage = "choosing", !.store = Loaded])
    /\ UNCHANGED <<index, marker, minted, owners, rows, left, torn>> /\ Files
Choose(p) ==
    /\ In(p, "choosing") /\ Looks(p)
    /\ \/ \E id \in command[p].store.sessions :
             /\ Becomes(p, [command[p] EXCEPT !.stage = "index", !.session = id, !.store = Current(Loaded, id)])
             /\ left' = left \union {id}
       \/ Becomes(p, [command[p] EXCEPT !.stage = "open", !.store = NoStore]) /\ UNCHANGED left
    /\ UNCHANGED <<index, marker, minted, owners, rows, torn>> /\ Files

\* variant: the marker is emptied before the index is whole
OpenIndexAndMarker(p) ==
    /\ In(p, "index") /\ index' = Nothing /\ marker' = 0 /\ Enters(p, "index open")
    /\ UNCHANGED <<minted, owners, rows, left, torn, clash>> /\ Files

(* _save_session_store: the index, then the marker, each emptied and written. *)
OpenIndex(p) ==
    /\ In(p, "index") /\ index' = Nothing /\ Enters(p, "index open")
    /\ UNCHANGED <<marker, minted, owners, rows, left, torn, clash>> /\ Files
WriteIndex(p) ==
    /\ In(p, "index open") /\ index' = command[p].store /\ Enters(p, "marker")
    /\ UNCHANGED <<marker, minted, owners, rows, left, torn, clash>> /\ Files
OpenMarker(p) ==
    /\ In(p, "marker") /\ marker' = 0 /\ Enters(p, "marker open")
    /\ UNCHANGED <<index, minted, owners, rows, left, torn, clash>> /\ Files
WriteMarker(p) ==
    /\ In(p, "marker open") /\ marker' = command[p].store.current
    /\ Becomes(p, [command[p] EXCEPT !.stage = "open", !.store = NoStore])
    /\ left' = {marker'} /\ torn' = 0
    /\ UNCHANGED <<index, minted, owners, rows, clash>> /\ Files

(* A turn recalls and records (augment, record_turn). A backend that is closed *)
(* raises an error that is not one of HTTP, and nobody catches it.            *)
Turn(p) ==
    /\ In(p, "open") /\ command[p].memory = "alive"
    /\ rows' = rows \union {command[p].owner}
    /\ UNCHANGED <<command, index, marker, minted, owners, left, torn, clash>> /\ Files
TurnDies(p) ==
    /\ In(p, "open") /\ command[p].memory = "closed" /\ Enters(p, "died")
    /\ UNCHANGED Project /\ Files

Exit(p) ==
    /\ command[p].stage \in {"open", "died"} /\ Becomes(p, Idle)
    /\ UNCHANGED Project /\ Files

(* A terminal is closed, a machine stops.                                   *)
Crash(p) ==
    /\ ~In(p, "idle") /\ crashes < MaxCrashes /\ crashes' = crashes + 1
    /\ Becomes(p, Idle) /\ cut' = (cut \/ In(p, "saving"))
    /\ torn' = IF command[p].stage \in Saving THEN torn + 1 ELSE torn
    /\ UNCHANGED <<saved, index, marker, minted, owners, rows, left, met, clash>>

Step(p) ==
    \/ Code(p) \/ ReadKey(p) \/ DeclinesGateway(p) \/ Login(p) \/ PromptGateway(p) \/ Connect(p)
    \/ SaveKey(p) \/ Logout(p) \/ Disconnect(p) \/ ForgetKey(p)
    \/ ListKeys(p) \/ CreateKey(p) \/ Locate(p) \/ Resume(p) \/ Choose(p)
    \/ OpenIndex(p) \/ WriteIndex(p) \/ OpenMarker(p) \/ WriteMarker(p)
    \/ Turn(p) \/ TurnDies(p) \/ Exit(p) \/ Crash(p)
WorkNext == \E p \in Processes : Step(p)

WorkSpec == WorkInit /\ [][WorkNext]_workVars
-----------------------------------------------------------------------------
(* Properties. *)

WorkTypeOK ==
    /\ {saved.url, saved.key} \subseteq Gateways \union {Nothing}
    /\ index \in Store \union {Nothing} /\ marker \in Sessions /\ minted \in Sessions
    /\ owners \in 0..MaxOwners /\ rows \subseteq 1..MaxOwners
    /\ \A p \in Processes : command[p].stage \in Stages /\ command[p].store \in Store
    /\ {crashes, torn} \subseteq 0..MaxCrashes /\ left \subseteq 1..MaxSessions /\ met \subseteq Processes

(* No shell sends a key to a gateway that did not issue it, whatever was       *)
(* typed, saved and forgotten in other shells, unless it was started while a   *)
(* save was under way, or after one that was cut short or met another: until   *)
(* the next save that nothing interferes with, which puts everything right     *)
(* (verify, save_creds, forget_creds, read_creds).                          *)
KeyGoesHome ==
    \A p \in Processes : In(p, "open") /\ p \notin met => command[p].key = command[p].url

(* A shell picks up where the project was left: at the session that was last   *)
(* made current, or the one before if that was cut short, and as the owner    *)
(* its turns were recorded under, unless two processes were at the project's  *)
(* files or at the key row at once, or two saves of the index in a row were   *)
(* cut short: the first may leave no marker, the second no index either       *)
(* (code, _save_session_store, _load_session_store).                        *)
PicksUpWhereLeft ==
    [][\A p \in Processes :
         In(p, "locating") /\ command[p].stage # command'[p].stage /\ command'[p].memory = "alive"
            /\ left # {} /\ torn < 2 /\ ~clash'
         => /\ command'[p].session \in left
            /\ rows \subseteq {command'[p].owner}]_workVars

(* The claim of agent/memory.py:211, that memory is an enhancement and never a *)
(* precondition of a turn. After /connect it is: the turn dies.              *)
MemoryIsNoPrecondition == \A p \in Processes : ~In(p, "died")
=============================================================================
