--------------------------- MODULE WorkstationProofs ---------------------------
(***************************************************************************)
(* What a user's machine keeps between commands: no key goes to a gateway     *)
(* that did not issue it, a shell picks up where its project was left, what   *)
(* the ledgers of sessions tell is true, and a command that is said to be     *)
(* stopped is stopped. The proofs, for any processes, gateways, sessions,     *)
(* tasks, files and ways to run a command.                                   *)
(***************************************************************************)
EXTENDS Workstation, Ledger, Commands, TLAPS

-----------------------------------------------------------------------------
(* What a step finds. *)

MaybeGateway == Gateways \union {Nothing}
Thens        == {"login", "start", "connect"}
Memories     == {"none", "alive", "closed"}
Owners       == 0..MaxOwners
CommandRecords == [stage : Stages, then : Thens, url : MaybeGateway, key : MaybeGateway,
                   session : Sessions, owner : Owners, memory : Memories, store : Store]

WorkTyped ==
    /\ saved \in [url : MaybeGateway, key : MaybeGateway]
    /\ command \in [Processes -> CommandRecords]
    /\ index \in Store \union {Nothing}
    /\ marker \in Sessions /\ minted \in Sessions /\ owners \in Owners
    /\ rows \in SUBSET Owners /\ left \in SUBSET Sessions
    /\ crashes \in 0..MaxCrashes /\ torn \in 0..crashes
    /\ cut \in BOOLEAN /\ met \in SUBSET Processes /\ clash \in BOOLEAN

LEMMA StageNames ==
    {"idle", "reading", "asking", "saving", "forgetting", "listing", "creating", "locating",
     "index", "index open", "marker", "marker open", "open", "choosing", "died"} \subseteq Stages
BY DEF Stages

LEMMA FieldsOf ==
    ASSUME NEW c \in CommandRecords
    PROVE  /\ c.stage \in Stages /\ c.then \in Thens /\ c.url \in MaybeGateway /\ c.key \in MaybeGateway
           /\ c.session \in Sessions /\ c.owner \in Owners /\ c.memory \in Memories /\ c.store \in Store
BY DEF CommandRecords

LEMMA StoreFields ==
    ASSUME NEW s \in Store
    PROVE  s.current \in Sessions /\ s.sessions \in SUBSET (1..MaxSessions)
BY DEF Store

LEMMA IdleTyped == Idle \in CommandRecords
<1>1. NoStore \in Store BY WorkstationAssumption DEF NoStore, Store, Sessions
<1>2. 0 \in Sessions /\ 0 \in Owners BY WorkstationAssumption DEF Sessions, Owners
<1>3. "idle" \in Stages /\ "login" \in Thens /\ "none" \in Memories /\ Nothing \in MaybeGateway
  BY StageNames DEF Thens, Memories, MaybeGateway
<1> QED BY <1>1, <1>2, <1>3 DEF Idle, CommandRecords

LEMMA Updates ==
    ASSUME NEW c \in CommandRecords
    PROVE  /\ \A s \in Stages : [c EXCEPT !.stage = s] \in CommandRecords
           /\ \A s \in Stages, u \in MaybeGateway :
                [c EXCEPT !.stage = s, !.url = u] \in CommandRecords
           /\ \A s \in Stages, u, k \in MaybeGateway :
                [c EXCEPT !.stage = s, !.url = u, !.key = k] \in CommandRecords
           /\ \A s \in Stages, t \in Thens :
                [c EXCEPT !.stage = s, !.then = t] \in CommandRecords
           /\ \A s \in Stages, t \in Thens, u, k \in MaybeGateway :
                [c EXCEPT !.stage = s, !.then = t, !.url = u, !.key = k] \in CommandRecords
           /\ \A s \in Stages, t \in Thens, m \in Memories :
                [c EXCEPT !.stage = s, !.then = t, !.memory = m] \in CommandRecords
           /\ \A s \in Stages, o \in Owners :
                [c EXCEPT !.stage = s, !.owner = o] \in CommandRecords
           /\ \A s \in Stages, t \in Store :
                [c EXCEPT !.stage = s, !.store = t] \in CommandRecords
           /\ \A s \in Stages, i \in Sessions, t \in Store :
                [c EXCEPT !.stage = s, !.session = i, !.store = t] \in CommandRecords
           /\ \A s \in Stages, i \in Sessions, m \in Memories :
                [c EXCEPT !.stage = s, !.session = i, !.memory = m] \in CommandRecords
           /\ \A s \in Stages, i \in Sessions, m \in Memories, t \in Store :
                [c EXCEPT !.stage = s, !.session = i, !.memory = m, !.store = t] \in CommandRecords
BY DEF CommandRecords

Goes(p, w) == w \in CommandRecords /\ command' = [command EXCEPT ![p] = w]

OffGateway(c) == c.stage # "reading" /\ c.stage # "saving"
OffProject(c) ==
    /\ c.stage # "creating" /\ c.stage # "locating" /\ c.stage # "choosing" /\ c.stage # "index"
    /\ c.stage # "index open" /\ c.stage # "marker" /\ c.stage # "marker open"
\* The process is at the gateway's files, or ends: the project is as it was.
Aside(p, w) ==
    /\ OffProject(command[p]) /\ OffProject(w)
    /\ w.memory = "alive" => command[p].memory = "alive" /\ w.owner = command[p].owner
    /\ UNCHANGED Project
Fresh(w) == w.stage \in {"idle", "asking", "listing", "open"} /\ w.memory = "none" /\ w.url = w.key

LEMMA FreshOnes ==
    /\ Idle \in CommandRecords /\ Fresh(Idle) /\ OffProject(Idle) /\ OffGateway(Idle)
    /\ \A w \in Local : w \in CommandRecords /\ Fresh(w) /\ OffProject(w) /\ OffGateway(w)
    /\ [Idle EXCEPT !.stage = "asking"] \in CommandRecords
    /\ Fresh([Idle EXCEPT !.stage = "asking"]) /\ OffProject([Idle EXCEPT !.stage = "asking"])
    /\ OffGateway([Idle EXCEPT !.stage = "asking"])
<1>1. Idle \in CommandRecords BY IdleTyped
<1>2. "asking" \in Stages /\ "listing" \in Stages /\ "open" \in Stages BY StageNames
<1>3. \A s \in Stages : [Idle EXCEPT !.stage = s] \in CommandRecords BY <1>1, Updates
<1>4. \A w \in Local : w \in CommandRecords BY <1>2, <1>3 DEF Local
<1>5. Fresh(Idle) /\ OffProject(Idle) /\ OffGateway(Idle) BY DEF Idle, Fresh, OffProject, OffGateway
<1>6. /\ Fresh([Idle EXCEPT !.stage = "asking"]) /\ OffProject([Idle EXCEPT !.stage = "asking"])
      /\ OffGateway([Idle EXCEPT !.stage = "asking"])
  BY DEF Idle, Fresh, OffProject, OffGateway
<1>7. \A w \in Local : Fresh(w) /\ OffProject(w) /\ OffGateway(w)
  BY DEF Local, Idle, Fresh, OffProject, OffGateway
<1> QED BY <1>1, <1>2, <1>3, <1>4, <1>5, <1>6, <1>7

LEMMA CodeMoves ==
    ASSUME WorkTyped, NEW p \in Processes, Code(p)
    PROVE  \E w : /\ Goes(p, w) /\ w.stage = "reading" /\ w.url = saved.url /\ w.key = Nothing
                  /\ Aside(p, w) /\ OffGateway(command[p])
<1> DEFINE w == [Idle EXCEPT !.stage = "reading", !.url = saved.url]
<1>1. saved.url \in MaybeGateway BY DEF WorkTyped
<1>2. w \in CommandRecords BY <1>1, IdleTyped, Updates, StageNames
<1>3. Goes(p, w) BY <1>2 DEF Goes, Code, Becomes
<1>4. w.stage = "reading" /\ w.url = saved.url /\ w.key = Nothing /\ w.memory = "none" BY DEF Idle
<1>5. Aside(p, w) BY <1>4 DEF Aside, OffProject, Code, In
<1>6. OffGateway(command[p]) BY DEF Code, In, OffGateway
<1> QED BY <1>3, <1>4, <1>5, <1>6
LEMMA ReadKeyMoves ==
    ASSUME WorkTyped, NEW p \in Processes, ReadKey(p)
    PROVE  \E w : /\ Goes(p, w) /\ OffGateway(w) /\ Aside(p, w)
                  /\ \/ w.key = w.url
                     \/ /\ w.url = command[p].url /\ w.key = saved.key
                        /\ w.url # Nothing /\ w.key # Nothing
<1> DEFINE url == command[p].url
           r == Remote(url, saved.key)
           found == url # Nothing /\ saved.key # Nothing
<1>0. command[p] \in CommandRecords BY DEF WorkTyped
<1>1. url \in MaybeGateway /\ saved.key \in MaybeGateway BY <1>0, FieldsOf DEF WorkTyped
<1>2. r \in CommandRecords BY <1>1, IdleTyped, Updates, StageNames DEF Remote
<1>3. r.stage = "open" /\ r.url = url /\ r.key = saved.key /\ r.memory = "none" BY DEF Idle, Remote
<1>4. OffProject(r) /\ OffGateway(r) BY <1>3 DEF OffProject, OffGateway
<1>5. PICK w : /\ Becomes(p, w)
               /\ w \in Local \/ w = Idle \/ w = [Idle EXCEPT !.stage = "asking"] \/ (w = r /\ found)
  BY DEF ReadKey
<1>6. w \in CommandRecords /\ OffProject(w) /\ OffGateway(w) /\ w.memory = "none" BY <1>2, <1>3, <1>4, <1>5, FreshOnes DEF Fresh
<1>7. OffProject(command[p]) BY DEF ReadKey, In, OffProject
<1>8. Aside(p, w) BY <1>6, <1>7 DEF Aside, ReadKey
<1>9. Goes(p, w) BY <1>5, <1>6 DEF Goes, Becomes
<1>10. w.key = w.url \/ (w = r /\ found) BY <1>5, FreshOnes DEF Fresh
<1> QED BY <1>3, <1>6, <1>8, <1>9, <1>10
LEMMA DeclinesMoves ==
    ASSUME WorkTyped, NEW p \in Processes, DeclinesGateway(p)
    PROVE  \E w : Goes(p, w) /\ OffGateway(w) /\ w.key = w.url /\ Aside(p, w) /\ OffGateway(command[p])
<1>1. PICK w : Becomes(p, w) /\ (w \in Local \/ w = Idle) BY DEF DeclinesGateway
<1>2. w \in CommandRecords /\ Fresh(w) /\ OffProject(w) /\ OffGateway(w) BY <1>1, FreshOnes
<1>3. OffProject(command[p]) /\ OffGateway(command[p]) BY DEF DeclinesGateway, In, OffProject, OffGateway
<1>4. Aside(p, w) BY <1>2, <1>3 DEF Aside, DeclinesGateway, Fresh
<1> QED BY <1>1, <1>2, <1>3, <1>4 DEF Goes, Becomes, Fresh

\* Who meets a save that p begins.
Meets(p) == (met \ {p}) \union {q \in Processes \ {p} : In(q, "saving") \/ In(q, "reading")}
              \union (IF Others(p, {"saving"}) THEN {p} ELSE {})

LEMMA SaveMoves ==
    ASSUME WorkTyped, NEW p \in Processes, Login(p) \/ PromptGateway(p) \/ Connect(p)
    PROVE  \E w : /\ Goes(p, w) /\ w.stage = "saving" /\ w.key = w.url
                  /\ saved' = [saved EXCEPT !.url = w.url]
                  /\ met' = Meets(p)
                  /\ UNCHANGED <<crashes, cut>> /\ Aside(p, w) /\ OffGateway(command[p])
<1>1. PICK then \in Thens : /\ In(p, "idle") \/ In(p, "asking") \/ In(p, "open")
                            /\ \E from \in Stages : Save(p, from, then)
  BY StageNames DEF Login, PromptGateway, Connect, Save, Thens
<1>2. PICK url, key \in Gateways :
         /\ Verified(url, key) /\ saved' = [saved EXCEPT !.url = url]
         /\ Becomes(p, [command[p] EXCEPT !.stage = "saving", !.then = then, !.url = url, !.key = key])
  BY <1>1 DEF Save
<1> DEFINE c == command[p]
           w == [c EXCEPT !.stage = "saving", !.then = then, !.url = url, !.key = key]
<1>3. c \in CommandRecords BY DEF WorkTyped
<1>4. url \in MaybeGateway /\ key \in MaybeGateway BY DEF MaybeGateway
<1>5. w \in CommandRecords BY <1>3, <1>4, Updates, StageNames
<1>6. w.stage = "saving" /\ w.url = url /\ w.key = key /\ w.owner = c.owner /\ w.memory = c.memory
  BY <1>3 DEF CommandRecords
<1>7. OffProject(c) /\ OffGateway(c) BY <1>1 DEF In, OffProject, OffGateway
<1>8. Goes(p, w) BY <1>2, <1>5 DEF Goes, Becomes
<1>9. Aside(p, w) BY <1>1, <1>6, <1>7 DEF Aside, OffProject, Save
<1>10. w.key = w.url BY <1>2, <1>6 DEF Verified
<1>11. met' = Meets(p) /\ UNCHANGED <<crashes, cut>> BY <1>1 DEF Save, Meets
<1> QED BY <1>2, <1>6, <1>7, <1>8, <1>9, <1>10, <1>11

LEMMA SaveKeyMoves ==
    ASSUME WorkTyped, NEW p \in Processes, SaveKey(p)
    PROVE  \E w : /\ Goes(p, w) /\ OffGateway(w) /\ Aside(p, w)
                  /\ w.key = w.url \/ (w.key = command[p].key /\ w.url = command[p].url)
<1> DEFINE c == command[p]
           m == IF c.memory = "alive" THEN "closed" ELSE c.memory
           w == [c EXCEPT !.stage = "open", !.then = "login", !.memory = m]
<1>1. c \in CommandRecords BY DEF WorkTyped
<1>2. m \in Memories BY <1>1, FieldsOf DEF Memories
<1>3. w \in CommandRecords BY <1>1, <1>2, Updates, StageNames DEF Thens
<1>4. w.stage = "open" /\ w.url = c.url /\ w.key = c.key /\ w.memory = m BY <1>1 DEF CommandRecords
<1>5. OffProject(c) BY DEF SaveKey, In, OffProject
<1>6. OffProject(w) /\ OffGateway(w) /\ w.memory # "alive" BY <1>4 DEF OffProject, OffGateway
<1>7. Becomes(p, Idle) \/ Becomes(p, w) BY <1>1 DEF SaveKey, Connected, CommandRecords
<1>8. CASE Becomes(p, Idle)
  <2>1. Goes(p, Idle) BY <1>8, IdleTyped DEF Goes, Becomes
  <2>2. Aside(p, Idle) BY <1>5, FreshOnes DEF Aside, SaveKey, Idle
  <2> QED BY <2>1, <2>2, FreshOnes DEF Fresh
<1>9. CASE Becomes(p, w)
  <2>1. Goes(p, w) BY <1>9, <1>3 DEF Goes, Becomes
  <2>2. Aside(p, w) BY <1>5, <1>6 DEF Aside, SaveKey
  <2> QED BY <2>1, <2>2, <1>4, <1>6
<1> QED BY <1>7, <1>8, <1>9

LEMMA ForgetMoves ==
    ASSUME WorkTyped, NEW p \in Processes, Logout(p) \/ Disconnect(p)
    PROVE  \E w : /\ Goes(p, w) /\ OffGateway(w) /\ Aside(p, w) /\ OffGateway(command[p])
                  /\ w.key = command[p].key /\ w.url = command[p].url
                  /\ saved' = [saved EXCEPT !.url = Nothing] /\ UNCHANGED <<crashes, cut, met>>
<1>1. PICK then \in Thens : /\ In(p, "idle") \/ In(p, "open")
                            /\ \E from \in Stages : Forget(p, from, then)
  BY StageNames DEF Logout, Disconnect, Forget, Thens
<1> DEFINE c == command[p]
           w == [c EXCEPT !.stage = "forgetting", !.then = then]
<1>2. c \in CommandRecords BY DEF WorkTyped
<1>3. w \in CommandRecords BY <1>2, Updates, StageNames
<1>4. w.stage = "forgetting" /\ w.url = c.url /\ w.key = c.key /\ w.owner = c.owner /\ w.memory = c.memory
  BY <1>2 DEF CommandRecords
<1>5. OffProject(c) /\ OffGateway(c) BY <1>1 DEF In, OffProject, OffGateway
<1>6. Goes(p, w) BY <1>1, <1>3 DEF Goes, Becomes, Forget
<1>7. Aside(p, w) BY <1>1, <1>4, <1>5 DEF Aside, OffProject, Forget
<1>8. OffGateway(w) BY <1>4 DEF OffGateway
<1>9. saved' = [saved EXCEPT !.url = Nothing] /\ UNCHANGED <<crashes, cut, met>> BY <1>1 DEF Forget
<1> QED BY <1>4, <1>5, <1>6, <1>7, <1>8, <1>9

LEMMA ForgetKeyMoves ==
    ASSUME WorkTyped, NEW p \in Processes, ForgetKey(p)
    PROVE  \E w : /\ Goes(p, w) /\ OffGateway(w) /\ Aside(p, w) /\ OffGateway(command[p])
                  /\ w.key = w.url
<1> DEFINE c == command[p]
           w == [c EXCEPT !.stage = "open", !.then = "login", !.url = Nothing, !.key = Nothing]
<1>1. c \in CommandRecords BY DEF WorkTyped
<1>2. w \in CommandRecords BY <1>1, Updates, StageNames DEF Thens, MaybeGateway
<1>3. /\ w.stage = "open" /\ w.url = Nothing /\ w.key = Nothing
      /\ w.owner = c.owner /\ w.memory = c.memory
  BY <1>1 DEF CommandRecords
<1>4. OffProject(c) /\ OffGateway(c) BY DEF ForgetKey, In, OffProject, OffGateway
<1>5. OffProject(w) /\ OffGateway(w) BY <1>3 DEF OffProject, OffGateway
<1>6. Becomes(p, Idle) \/ Becomes(p, w) BY DEF ForgetKey
<1>7. CASE Becomes(p, Idle)
  <2>1. Goes(p, Idle) BY <1>7, IdleTyped DEF Goes, Becomes
  <2>2. Aside(p, Idle) BY <1>4, FreshOnes DEF Aside, ForgetKey, Idle
  <2> QED BY <2>1, <2>2, <1>4, FreshOnes DEF Fresh
<1>8. CASE Becomes(p, w)
  <2>1. Goes(p, w) BY <1>8, <1>2 DEF Goes, Becomes
  <2>2. Aside(p, w) BY <1>3, <1>4, <1>5 DEF Aside, ForgetKey
  <2> QED BY <2>1, <2>2, <1>3, <1>4, <1>5
<1> QED BY <1>6, <1>7, <1>8

\* The process is at the project: the gateway's files are as they were.
Keeps(c, w) == /\ w.url = c.url /\ w.key = c.key /\ w.session = c.session /\ w.owner = c.owner
               /\ w.memory = c.memory /\ w.store = c.store
InProject(p, w) ==
    /\ Goes(p, w) /\ OffGateway(command[p]) /\ OffGateway(w)
    /\ w.key = w.url \/ (w.key = command[p].key /\ w.url = command[p].url)
    /\ UNCHANGED <<saved, crashes, cut, met>>

LEMMA ListKeysMoves ==
    ASSUME WorkTyped, NEW p \in Processes, ListKeys(p)
    PROVE  \E w : /\ InProject(p, w)
                  /\ w.stage = IF owners = 0 THEN "creating" ELSE "locating"
                  /\ w.owner = owners /\ w.memory = command[p].memory
<1> DEFINE c == command[p]
           s == IF owners = 0 THEN "creating" ELSE "locating"
           w == [c EXCEPT !.stage = s, !.owner = owners]
<1>1. c \in CommandRecords /\ s \in Stages /\ owners \in Owners BY StageNames DEF WorkTyped
<1>2. w \in CommandRecords BY <1>1, Updates
<1>3. w.stage = s /\ w.url = c.url /\ w.key = c.key /\ w.owner = owners /\ w.memory = c.memory
  BY <1>1 DEF CommandRecords
<1>4. OffGateway(c) /\ OffGateway(w) BY <1>3 DEF ListKeys, In, OffGateway
<1>5. Goes(p, w) BY <1>2 DEF Goes, Becomes, ListKeys
<1> QED BY <1>3, <1>4, <1>5 DEF InProject, ListKeys, Files

LEMMA CreateKeyMoves ==
    ASSUME WorkTyped, NEW p \in Processes, CreateKey(p)
    PROVE  \E w : /\ InProject(p, w) /\ w.stage = "locating"
                  /\ w.owner = owners' /\ w.memory = command[p].memory
<1> DEFINE c == command[p]
           w == [c EXCEPT !.stage = "locating", !.owner = owners + 1]
<1>1. c \in CommandRecords /\ owners + 1 \in Owners BY WorkstationAssumption DEF WorkTyped, CreateKey, Owners
<1>2. w \in CommandRecords BY <1>1, Updates, StageNames
<1>3. /\ w.stage = "locating" /\ w.url = c.url /\ w.key = c.key
      /\ w.owner = owners + 1 /\ w.memory = c.memory
  BY <1>1 DEF CommandRecords
<1>4. OffGateway(c) /\ OffGateway(w) BY <1>3 DEF CreateKey, In, OffGateway
<1>5. owners' = owners + 1 BY DEF CreateKey
<1>6. Goes(p, w) BY <1>2, <1>5 DEF Goes, Becomes, CreateKey
<1> QED BY <1>3, <1>4, <1>5, <1>6 DEF InProject, CreateKey, Files

LEMMA LoadedTyped ==
    ASSUME WorkTyped
    PROVE  Loaded \in Store
<1>1. NoStore \in Store BY WorkstationAssumption DEF NoStore, Store, Sessions
<1>2. marker \in Sessions /\ (marker # 0 => marker \in 1..MaxSessions)
  BY WorkstationAssumption DEF WorkTyped, Sessions
<1>3. marker # 0 => [current |-> marker, sessions |-> {marker}] \in Store BY <1>2 DEF Store
<1> QED BY <1>1, <1>3 DEF Loaded, WorkTyped

LEMMA CurrentTyped ==
    ASSUME NEW s \in Store, NEW id \in 1..MaxSessions
    PROVE  /\ Current(s, id) \in Store /\ Current(s, id).current = id
           /\ Current(s, id).sessions = s.sessions \union {id}
<1>1. id \in Sessions BY WorkstationAssumption DEF Sessions
<1>2. s.sessions \union {id} \in SUBSET (1..MaxSessions) BY StoreFields
<1> QED BY <1>1, <1>2 DEF Current, Store

LEMMA LocateMoves ==
    ASSUME WorkTyped, NEW p \in Processes, Locate(p)
    PROVE  \E w : /\ InProject(p, w) /\ w.owner = command[p].owner /\ w.memory = "alive"
                  /\ \/ Loaded.current # 0 /\ w.stage = "open" /\ w.session = Loaded.current
                        /\ UNCHANGED minted
                     \/ /\ Loaded.current = 0 /\ w.stage = "index" /\ minted' \in 1..MaxSessions
                        /\ w.session = minted' /\ w.store = Current(Loaded, minted')
<1> DEFINE c == command[p]
<1>1. c \in CommandRecords /\ Loaded \in Store BY LoadedTyped DEF WorkTyped
<1>2. OffGateway(c) BY DEF Locate, In, OffGateway
<1>3. UNCHANGED <<saved, crashes, cut, met>> BY DEF Locate, Files
<1>4. "alive" \in Memories BY DEF Memories
<1>5. CASE Loaded.current # 0
  <2> DEFINE w == [c EXCEPT !.stage = "open", !.session = Loaded.current, !.memory = "alive"]
  <2>1. Loaded.current \in Sessions BY <1>1, StoreFields
  <2>2. w \in CommandRecords BY <1>1, <1>4, <2>1, Updates, StageNames
  <2>3. /\ w.stage = "open" /\ w.url = c.url /\ w.key = c.key /\ w.owner = c.owner
        /\ w.memory = "alive" /\ w.session = Loaded.current
    BY <1>1 DEF CommandRecords
  <2>4. Goes(p, w) /\ UNCHANGED minted BY <1>5, <2>2 DEF Goes, Becomes, Locate
  <2>5. OffGateway(w) BY <2>3 DEF OffGateway
  <2>6. InProject(p, w) BY <1>2, <1>3, <2>3, <2>4, <2>5 DEF InProject
  <2> QED BY <1>5, <2>3, <2>4, <2>6
<1>6. CASE Loaded.current = 0
  <2> DEFINE n == minted + 1
             w == [c EXCEPT !.stage = "index", !.session = n, !.memory = "alive",
                            !.store = Current(Loaded, n)]
  <2>1. n \in 1..MaxSessions /\ n \in Sessions
    BY <1>6, WorkstationAssumption DEF WorkTyped, Locate, Sessions
  <2>2. Current(Loaded, n) \in Store BY <1>1, <2>1, CurrentTyped
  <2>3. w \in CommandRecords BY <1>1, <1>4, <2>1, <2>2, Updates, StageNames
  <2>4. /\ w.stage = "index" /\ w.url = c.url /\ w.key = c.key /\ w.owner = c.owner
        /\ w.memory = "alive" /\ w.session = n /\ w.store = Current(Loaded, n)
    BY <1>1 DEF CommandRecords
  <2>5. minted' = n BY <1>6 DEF Locate
  <2>6. Goes(p, w) BY <1>6, <2>3, <2>5 DEF Goes, Becomes, Locate
  <2>7. OffGateway(w) BY <2>4 DEF OffGateway
  <2>8. InProject(p, w) BY <1>2, <1>3, <2>4, <2>6, <2>7 DEF InProject
  <2> QED BY <1>6, <2>1, <2>4, <2>5, <2>8
<1> QED BY <1>5, <1>6

LEMMA ResumeMoves ==
    ASSUME WorkTyped, NEW p \in Processes, Resume(p)
    PROVE  \E w : /\ InProject(p, w) /\ w.owner = command[p].owner /\ w.memory = command[p].memory
                  /\ w.stage = "choosing" /\ w.store = Loaded
<1> DEFINE c == command[p]
           w == [c EXCEPT !.stage = "choosing", !.store = Loaded]
<1>1. c \in CommandRecords /\ Loaded \in Store BY LoadedTyped DEF WorkTyped
<1>2. w \in CommandRecords BY <1>1, Updates, StageNames
<1>3. /\ w.stage = "choosing" /\ w.url = c.url /\ w.key = c.key /\ w.owner = c.owner
      /\ w.memory = c.memory /\ w.store = Loaded
  BY <1>1 DEF CommandRecords
<1>4. OffGateway(c) /\ OffGateway(w) BY <1>3 DEF Resume, In, OffGateway
<1>5. Goes(p, w) BY <1>2 DEF Goes, Becomes, Resume
<1> QED BY <1>3, <1>4, <1>5 DEF InProject, Resume, Files

LEMMA ChooseMoves ==
    ASSUME WorkTyped, NEW p \in Processes, Choose(p)
    PROVE  \E w : /\ InProject(p, w) /\ w.owner = command[p].owner /\ w.memory = command[p].memory
                  /\ \/ \E id \in command[p].store.sessions \cap 1..MaxSessions :
                           w.stage = "index" /\ w.store = Current(Loaded, id) /\ left' = left \union {id}
                     \/ w.stage = "open" /\ UNCHANGED left
<1> DEFINE c == command[p]
<1>1. c \in CommandRecords /\ Loaded \in Store BY LoadedTyped DEF WorkTyped
<1>2. OffGateway(c) BY DEF Choose, In, OffGateway
<1>3. UNCHANGED <<saved, crashes, cut, met>> BY DEF Choose, Files
<1>4. CASE Becomes(p, [c EXCEPT !.stage = "open", !.store = NoStore]) /\ UNCHANGED left
  <2> DEFINE w == [c EXCEPT !.stage = "open", !.store = NoStore]
  <2>1. NoStore \in Store BY WorkstationAssumption DEF NoStore, Store, Sessions
  <2>2. w \in CommandRecords BY <1>1, <2>1, Updates, StageNames
  <2>3. w.stage = "open" /\ w.url = c.url /\ w.key = c.key /\ w.owner = c.owner /\ w.memory = c.memory
    BY <1>1 DEF CommandRecords
  <2>4. Goes(p, w) BY <1>4, <2>2 DEF Goes, Becomes
  <2>5. OffGateway(w) BY <2>3 DEF OffGateway
  <2>6. InProject(p, w) BY <1>2, <1>3, <2>3, <2>4, <2>5 DEF InProject
  <2> QED BY <1>4, <2>3, <2>6
<1>5. CASE \E id \in c.store.sessions :
             /\ Becomes(p, [c EXCEPT !.stage = "index", !.session = id, !.store = Current(Loaded, id)])
             /\ left' = left \union {id}
  <2>1. PICK id \in c.store.sessions :
             /\ Becomes(p, [c EXCEPT !.stage = "index", !.session = id, !.store = Current(Loaded, id)])
             /\ left' = left \union {id}
    BY <1>5
  <2> DEFINE w == [c EXCEPT !.stage = "index", !.session = id, !.store = Current(Loaded, id)]
  <2>2. c.store \in Store BY <1>1, FieldsOf
  <2>3. id \in 1..MaxSessions BY <2>2, StoreFields
  <2>4. id \in Sessions BY <2>3, WorkstationAssumption DEF Sessions
  <2>5. Current(Loaded, id) \in Store BY <1>1, <2>3, CurrentTyped
  <2>6. w \in CommandRecords BY <1>1, <2>4, <2>5, Updates, StageNames
  <2>7. /\ w.stage = "index" /\ w.url = c.url /\ w.key = c.key /\ w.owner = c.owner
        /\ w.memory = c.memory /\ w.store = Current(Loaded, id)
    BY <1>1 DEF CommandRecords
  <2>8. Goes(p, w) BY <2>1, <2>6 DEF Goes, Becomes
  <2>9. OffGateway(w) BY <2>7 DEF OffGateway
  <2>10. InProject(p, w) BY <1>2, <1>3, <2>7, <2>8, <2>9 DEF InProject
  <2> QED BY <2>1, <2>3, <2>7, <2>10
<1> QED BY <1>4, <1>5 DEF Choose

LEMMA SavingMoves ==
    ASSUME WorkTyped, NEW p \in Processes
    PROVE  /\ OpenIndex(p) => \E w : InProject(p, w) /\ w.stage = "index open" /\ Keeps(command[p], w)
           /\ WriteIndex(p) => \E w : InProject(p, w) /\ w.stage = "marker" /\ Keeps(command[p], w)
           /\ OpenMarker(p) => \E w : InProject(p, w) /\ w.stage = "marker open" /\ Keeps(command[p], w)
           /\ TurnDies(p) => \E w : InProject(p, w) /\ w.stage = "died" /\ Keeps(command[p], w)
<1> DEFINE c == command[p]
           W(s) == [c EXCEPT !.stage = s]
<1>1. c \in CommandRecords BY DEF WorkTyped
<1>2. \A s \in Stages : /\ W(s) \in CommandRecords /\ W(s).stage = s /\ Keeps(c, W(s))
  <2>1. \A s \in Stages : W(s) \in CommandRecords BY <1>1, Updates
  <2>2. \A s \in Stages : W(s).stage = s /\ Keeps(c, W(s)) BY <1>1 DEF CommandRecords, Keeps
  <2> QED BY <2>1, <2>2
<1>3. \A s \in Stages : Enters(p, s) => Goes(p, W(s)) BY <1>2 DEF Goes, Enters, Becomes
<1>4. \A s \in Stages : Enters(p, s) /\ Files /\ OffGateway(c) /\ OffGateway(W(s)) => InProject(p, W(s))
  BY <1>2, <1>3 DEF InProject, Files, Keeps
<1> HIDE DEF W
<1>5. ASSUME OpenIndex(p) PROVE \E w : InProject(p, w) /\ w.stage = "index open" /\ Keeps(c, w)
  <2>1. OffGateway(c) /\ OffGateway(W("index open")) BY <1>2, <1>5, StageNames DEF OffGateway, OpenIndex, In
  <2> QED BY <1>2, <1>4, <1>5, <2>1, StageNames DEF OpenIndex
<1>6. ASSUME WriteIndex(p) PROVE \E w : InProject(p, w) /\ w.stage = "marker" /\ Keeps(c, w)
  <2>1. OffGateway(c) /\ OffGateway(W("marker")) BY <1>2, <1>6, StageNames DEF OffGateway, WriteIndex, In
  <2> QED BY <1>2, <1>4, <1>6, <2>1, StageNames DEF WriteIndex
<1>7. ASSUME OpenMarker(p) PROVE \E w : InProject(p, w) /\ w.stage = "marker open" /\ Keeps(c, w)
  <2>1. OffGateway(c) /\ OffGateway(W("marker open")) BY <1>2, <1>7, StageNames DEF OffGateway, OpenMarker, In
  <2> QED BY <1>2, <1>4, <1>7, <2>1, StageNames DEF OpenMarker
<1>8. ASSUME TurnDies(p) PROVE \E w : InProject(p, w) /\ w.stage = "died" /\ Keeps(c, w)
  <2>1. OffGateway(c) /\ OffGateway(W("died")) BY <1>2, <1>8, StageNames DEF OffGateway, TurnDies, In
  <2> QED BY <1>2, <1>4, <1>8, <2>1, StageNames DEF TurnDies
<1> QED BY <1>5, <1>6, <1>7, <1>8

LEMMA WriteMarkerMoves ==
    ASSUME WorkTyped, NEW p \in Processes, WriteMarker(p)
    PROVE  \E w : /\ InProject(p, w) /\ w.stage = "open"
                  /\ w.owner = command[p].owner /\ w.memory = command[p].memory
<1> DEFINE c == command[p]
           w == [c EXCEPT !.stage = "open", !.store = NoStore]
<1>1. c \in CommandRecords BY DEF WorkTyped
<1>2. NoStore \in Store BY WorkstationAssumption DEF NoStore, Store, Sessions
<1>3. w \in CommandRecords BY <1>1, <1>2, Updates, StageNames
<1>4. w.stage = "open" /\ w.url = c.url /\ w.key = c.key /\ w.owner = c.owner /\ w.memory = c.memory
  BY <1>1 DEF CommandRecords
<1>5. OffGateway(c) /\ OffGateway(w) BY <1>4 DEF WriteMarker, In, OffGateway
<1>6. Goes(p, w) BY <1>3 DEF Goes, Becomes, WriteMarker
<1> QED BY <1>4, <1>5, <1>6 DEF InProject, WriteMarker, Files

LEMMA ExitMoves ==
    ASSUME WorkTyped, NEW p \in Processes, Exit(p)
    PROVE  InProject(p, Idle) /\ OffProject(command[p])
<1>1. Goes(p, Idle) BY IdleTyped DEF Goes, Becomes, Exit
<1>2. OffGateway(command[p]) /\ OffProject(command[p]) BY DEF Exit, OffGateway, OffProject
<1> QED BY <1>1, <1>2, FreshOnes DEF InProject, Exit, Files, Fresh

LEMMA CommandTyped ==
    ASSUME WorkTyped, NEW p \in Processes, NEW w, Goes(p, w)
    PROVE  /\ command' \in [Processes -> CommandRecords] /\ command'[p] = w
           /\ \A q \in Processes \ {p} : command'[q] = command[q]
BY DEF Goes, WorkTyped

(* Every step is one of five kinds.                                          *)
LEMMA Moves ==
    ASSUME WorkTyped, NEW p \in Processes, Step(p)
    PROVE  \/ \E w : Aside(p, w) /\ Goes(p, w)
           \/ \E w : InProject(p, w)
           \/ Turn(p)
           \/ Crash(p)
<1>1. Code(p) \/ ReadKey(p) \/ DeclinesGateway(p) => \E w : Aside(p, w) /\ Goes(p, w)
  BY CodeMoves, ReadKeyMoves, DeclinesMoves
<1>2. Login(p) \/ PromptGateway(p) \/ Connect(p) \/ SaveKey(p) => \E w : Aside(p, w) /\ Goes(p, w)
  BY SaveMoves, SaveKeyMoves
<1>3. Logout(p) \/ Disconnect(p) \/ ForgetKey(p) => \E w : Aside(p, w) /\ Goes(p, w)
  BY ForgetMoves, ForgetKeyMoves
<1>4. ListKeys(p) \/ CreateKey(p) \/ Locate(p) \/ Resume(p) \/ Choose(p) => \E w : InProject(p, w)
  BY ListKeysMoves, CreateKeyMoves, LocateMoves, ResumeMoves, ChooseMoves
<1>5. OpenIndex(p) \/ WriteIndex(p) \/ OpenMarker(p) \/ TurnDies(p) => \E w : InProject(p, w)
  BY SavingMoves
<1>6. WriteMarker(p) \/ Exit(p) => \E w : InProject(p, w) BY WriteMarkerMoves, ExitMoves
<1> QED BY <1>1, <1>2, <1>3, <1>4, <1>5, <1>6 DEF Step

LEMMA CrashMoves ==
    ASSUME WorkTyped, NEW p \in Processes, Crash(p)
    PROVE  Goes(p, Idle) /\ UNCHANGED <<saved, index, marker, minted, owners, rows, left, met, clash>>
BY IdleTyped DEF Crash, Goes, Becomes

LEMMA CommandsStayTyped ==
    ASSUME WorkTyped, NEW p \in Processes, Step(p)
    PROVE  command' \in [Processes -> CommandRecords]
<1>1. Turn(p) => UNCHANGED command BY DEF Turn
<1>2. Crash(p) => \E w : Goes(p, w) BY CrashMoves
<1>3. UNCHANGED command \/ \E w : Goes(p, w) BY <1>1, <1>2, Moves DEF InProject
<1> QED BY <1>3, CommandTyped DEF WorkTyped

LEMMA SavedStaysTyped ==
    ASSUME WorkTyped, NEW p \in Processes, Step(p)
    PROVE  saved' \in [url : MaybeGateway, key : MaybeGateway]
<1>1. saved \in [url : MaybeGateway, key : MaybeGateway] BY DEF WorkTyped
<1>2. command[p].key \in MaybeGateway BY FieldsOf DEF WorkTyped
<1>3. CASE Login(p) \/ PromptGateway(p) \/ Connect(p)
  <2>1. PICK w : Goes(p, w) /\ saved' = [saved EXCEPT !.url = w.url] BY <1>3, SaveMoves
  <2> QED BY <1>1, <2>1, FieldsOf DEF Goes
<1>4. CASE SaveKey(p) BY <1>1, <1>2, <1>4 DEF SaveKey
<1>5. CASE Logout(p) \/ Disconnect(p) BY <1>1, <1>5, ForgetMoves DEF MaybeGateway
<1>6. CASE ForgetKey(p) BY <1>1, <1>6 DEF ForgetKey, MaybeGateway
<1>7. CASE Code(p) \/ ReadKey(p) \/ DeclinesGateway(p) BY <1>1, <1>7 DEF Code, ReadKey, DeclinesGateway
<1>8. CASE Turn(p) \/ Crash(p) BY <1>1, <1>8 DEF Turn, Crash, Files
<1>9. CASE UNCHANGED saved BY <1>1, <1>9
<1>10. CASE \/ ListKeys(p) \/ CreateKey(p) \/ Locate(p) \/ Resume(p) \/ Choose(p) \/ OpenIndex(p)
           \/ WriteIndex(p) \/ OpenMarker(p) \/ WriteMarker(p) \/ TurnDies(p) \/ Exit(p)
  <2>1. Files BY <1>10 DEF ListKeys, CreateKey, Locate, Resume, Choose, OpenIndex, WriteIndex, OpenMarker,
                     WriteMarker, TurnDies, Exit
  <2> QED BY <1>9, <2>1 DEF Files
<1> QED BY <1>3, <1>4, <1>5, <1>6, <1>7, <1>8, <1>10 DEF Step

LEMMA ProjectStaysTyped ==
    ASSUME WorkTyped, NEW p \in Processes, Step(p)
    PROVE  /\ index' \in Store \union {Nothing}
           /\ marker' \in Sessions /\ minted' \in Sessions /\ owners' \in Owners
           /\ rows' \in SUBSET Owners /\ left' \in SUBSET Sessions
           /\ clash' \in BOOLEAN
<1> USE DEF WorkTyped
<1>0. command[p] \in CommandRecords OBVIOUS
<1>1. CASE \E w : Aside(p, w)
  <2>1. UNCHANGED Project BY <1>1 DEF Aside
  <2> QED BY <2>1 DEF Project
<1>2. CASE ListKeys(p) BY <1>2 DEF ListKeys
<1>3. CASE CreateKey(p) BY <1>3, WorkstationAssumption DEF CreateKey, Owners
<1>4. CASE Locate(p)
  <2>1. minted' \in Sessions BY <1>4, WorkstationAssumption DEF Locate, Sessions
  <2> QED BY <1>4, <2>1 DEF Locate, Looks
<1>5. CASE Resume(p) BY <1>5 DEF Resume, Looks
<1>6. CASE Choose(p)
  <2>1. left' \in SUBSET Sessions BY <1>6, ChooseMoves, WorkstationAssumption DEF Sessions
  <2> QED BY <1>6, <2>1 DEF Choose, Looks
<1>7. CASE OpenIndex(p) BY <1>7 DEF OpenIndex
<1>8. CASE WriteIndex(p)
  <2>1. command[p].store \in Store BY <1>0, FieldsOf
  <2> QED BY <1>8, <2>1 DEF WriteIndex
<1>9. CASE OpenMarker(p)
  <2>1. 0 \in Sessions BY WorkstationAssumption DEF Sessions
  <2> QED BY <1>9, <2>1 DEF OpenMarker
<1>10. CASE WriteMarker(p)
  <2>1. command[p].store.current \in Sessions BY <1>0, FieldsOf, StoreFields
  <2> QED BY <1>10, <2>1 DEF WriteMarker
<1>11. CASE Turn(p)
  <2>1. command[p].owner \in Owners BY <1>0, FieldsOf
  <2> QED BY <1>11, <2>1 DEF Turn
<1>12. CASE TurnDies(p) \/ Exit(p)
  <2>1. UNCHANGED Project BY <1>12 DEF TurnDies, Exit
  <2> QED BY <2>1 DEF Project
<1>13. CASE Crash(p) BY <1>13 DEF Crash
<1>14. CASE \/ Code(p) \/ ReadKey(p) \/ DeclinesGateway(p) \/ Login(p) \/ PromptGateway(p) \/ Connect(p)
           \/ SaveKey(p) \/ Logout(p) \/ Disconnect(p) \/ ForgetKey(p)
  <2>1. \E w : Aside(p, w)
    BY <1>14, CodeMoves, ReadKeyMoves, DeclinesMoves, SaveMoves, SaveKeyMoves, ForgetMoves, ForgetKeyMoves
  <2> QED BY <1>1, <2>1
<1> QED BY <1>2, <1>3, <1>4, <1>5, <1>6, <1>7, <1>8, <1>9, <1>10, <1>11, <1>12, <1>13, <1>14 DEF Step

LEMMA CountsStayTyped ==
    ASSUME WorkTyped, NEW p \in Processes, Step(p)
    PROVE  /\ crashes' \in 0..MaxCrashes /\ torn' \in 0..crashes'
           /\ cut' \in BOOLEAN /\ met' \in SUBSET Processes
<1>1. crashes \in 0..MaxCrashes /\ torn \in 0..crashes /\ cut \in BOOLEAN /\ met \in SUBSET Processes
  BY DEF WorkTyped
<1>2. CASE Crash(p)
  <2>1. crashes' = crashes + 1 /\ crashes < MaxCrashes BY <1>2 DEF Crash
  <2>2. torn' = torn \/ torn' = torn + 1 BY <1>2 DEF Crash
  <2>3. cut' \in BOOLEAN /\ met' = met BY <1>2 DEF Crash
  <2>4. MaxCrashes \in Nat BY WorkstationAssumption
  <2>5. crashes' \in 0..MaxCrashes BY <1>1, <2>1, <2>4
  <2>6. torn' \in 0..crashes' BY <1>1, <2>1, <2>2, <2>4
  <2> QED BY <1>1, <2>3, <2>5, <2>6
<1>3. CASE WriteMarker(p)
  <2>1. torn' = 0 /\ crashes' = crashes /\ cut' = cut /\ met' = met BY <1>3 DEF WriteMarker, Files
  <2> QED BY <1>1, <2>1, WorkstationAssumption
<1>4. CASE \/ ListKeys(p) \/ CreateKey(p) \/ Locate(p) \/ Resume(p) \/ Choose(p) \/ OpenIndex(p)
           \/ WriteIndex(p) \/ OpenMarker(p) \/ Turn(p) \/ TurnDies(p) \/ Exit(p)
  <2>1. Files BY <1>4 DEF ListKeys, CreateKey, Locate, Resume, Choose, OpenIndex, WriteIndex, OpenMarker,
                     Turn, TurnDies, Exit
  <2>2. torn' = torn BY <1>4 DEF ListKeys, CreateKey, Locate, Resume, Choose, OpenIndex, WriteIndex, OpenMarker,
                     Turn, TurnDies, Exit, Project
  <2> QED BY <1>1, <2>1, <2>2 DEF Files
<1>5. CASE \/ Code(p) \/ ReadKey(p) \/ DeclinesGateway(p) \/ Login(p) \/ PromptGateway(p) \/ Connect(p)
           \/ SaveKey(p) \/ Logout(p) \/ Disconnect(p) \/ ForgetKey(p)
  <2>1. \E w : Aside(p, w)
    BY <1>5, CodeMoves, ReadKeyMoves, DeclinesMoves, SaveMoves, SaveKeyMoves, ForgetMoves, ForgetKeyMoves
  <2>2. torn' = torn BY <2>1 DEF Aside, Project
  <2>3. crashes' = crashes /\ cut' \in BOOLEAN
    <3>1. (p \in met) \in BOOLEAN OBVIOUS
    <3>2. CASE SaveKey(p) BY <3>1, <3>2 DEF SaveKey
    <3>3. CASE ~SaveKey(p)
      BY <1>1, <1>5, <3>3, SaveMoves, ForgetMoves DEF Code, ReadKey, DeclinesGateway, ForgetKey
    <3> QED BY <3>2, <3>3
  <2>4. met' \in SUBSET Processes
    <3>1. CASE Login(p) \/ PromptGateway(p) \/ Connect(p)
      <4>1. met' = Meets(p) BY <3>1, SaveMoves
      <4> QED BY <1>1, <4>1 DEF Meets
    <3>2. CASE Logout(p) \/ Disconnect(p) BY <1>1, <3>2, ForgetMoves
    <3>3. CASE Code(p) \/ ReadKey(p) \/ DeclinesGateway(p) \/ SaveKey(p) \/ ForgetKey(p)
      BY <1>1, <3>3 DEF Code, ReadKey, DeclinesGateway, SaveKey, ForgetKey
    <3> QED BY <1>5, <3>1, <3>2, <3>3
  <2> QED BY <1>1, <2>2, <2>3, <2>4
<1> QED BY <1>2, <1>3, <1>4, <1>5 DEF Step

LEMMA StaysTyped ==
    ASSUME WorkTyped, [WorkNext]_workVars
    PROVE  WorkTyped'
<1>1. CASE UNCHANGED workVars BY <1>1 DEF workVars, WorkTyped
<1>2. ASSUME NEW p \in Processes, Step(p) PROVE WorkTyped'
  BY <1>2, CommandsStayTyped, SavedStaysTyped, ProjectStaysTyped, CountsStayTyped DEF WorkTyped
<1> QED BY <1>1, <1>2 DEF WorkNext

LEMMA TypedFromTheStart == WorkInit => WorkTyped
<1> SUFFICES ASSUME WorkInit PROVE WorkTyped OBVIOUS
<1>1. command \in [Processes -> CommandRecords] BY IdleTyped DEF WorkInit
<1>2. 0 \in Sessions /\ 0 \in Owners /\ 0 \in 0..MaxCrashes BY WorkstationAssumption DEF Sessions, Owners
<1>3. saved \in [url : MaybeGateway, key : MaybeGateway] BY DEF WorkInit, MaybeGateway
<1>4. crashes = 0 /\ torn = 0 /\ torn \in 0..crashes BY DEF WorkInit
<1> QED BY <1>1, <1>2, <1>3, <1>4 DEF WorkInit, WorkTyped

-----------------------------------------------------------------------------
(* The saved gateway. *)

Matching(url, key) == url = Nothing \/ key = Nothing \/ url = key

(* A save that met nobody is alone with the two files, and so is a reader but   *)
(* for other readers. While nobody saves them and no save has spoilt them, they  *)
(* are of one gateway, and so is what a reader has of them with what it finds.  *)
OneGateway ==
    /\ \A p \in Processes : In(p, "reading") \/ p \in met \/ command[p].key = command[p].url
    /\ \A p \in Processes : In(p, "saving") => command[p].key = command[p].url
    /\ \A p, q \in Processes :
          In(q, "saving") /\ q # p /\ (In(p, "saving") \/ In(p, "reading")) => p \in met
    /\ cut \/ (\E p \in Processes : In(p, "saving")) \/ Matching(saved.url, saved.key)
    /\ \A p \in Processes : In(p, "saving") =>
          p \in met \/ saved.url = Nothing \/ saved.url = command[p].url
    /\ \A p \in Processes : In(p, "reading") => p \in met \/ Matching(command[p].url, saved.key)

KeysInv == WorkTyped /\ OneGateway

LEMMA OffTheFiles ==
    ASSUME WorkTyped, OneGateway, NEW p \in Processes, NEW w, Goes(p, w),
           OffGateway(command[p]), OffGateway(w), UNCHANGED <<saved, cut, met>>,
           w.key = w.url \/ (w.key = command[p].key /\ w.url = command[p].url)
    PROVE  OneGateway'
<1>1. command'[p] = w /\ \A q \in Processes \ {p} : command'[q] = command[q] BY CommandTyped
<1>2. p \in met \/ command[p].key = command[p].url BY DEF OneGateway, OffGateway, In
<1> QED BY <1>1, <1>2 DEF OneGateway, OffGateway, In

LEMMA CodeKeeps ==
    ASSUME WorkTyped, OneGateway, NEW p \in Processes, Code(p)
    PROVE  OneGateway'
<1>1. PICK w : Goes(p, w) /\ w.stage = "reading" /\ w.url = saved.url BY CodeMoves
<1>2. command'[p] = w /\ \A q \in Processes \ {p} : command'[q] = command[q] BY <1>1, CommandTyped
<1>3. saved' = saved /\ cut' = cut /\ ~In(p, "saving") BY DEF Code, In
<1>4. \A q \in Processes \ {p} : q \in met' <=> q \in met BY DEF Code
<1>5. p \notin met' => ~cut /\ \A q \in Processes : ~In(q, "saving") BY <1>3 DEF Code, Others, In
<1>6. p \notin met' => Matching(saved.url, saved.key) BY <1>5 DEF OneGateway
<1> QED BY <1>1, <1>2, <1>3, <1>4, <1>5, <1>6 DEF OneGateway, In

LEMMA ReadKeyKeeps ==
    ASSUME WorkTyped, OneGateway, NEW p \in Processes, ReadKey(p)
    PROVE  OneGateway'
<1>1. PICK w : /\ Goes(p, w) /\ OffGateway(w)
               /\ \/ w.key = w.url
                  \/ /\ w.url = command[p].url /\ w.key = saved.key
                     /\ w.url # Nothing /\ w.key # Nothing
  BY ReadKeyMoves
<1>2. command'[p] = w /\ \A q \in Processes \ {p} : command'[q] = command[q] BY <1>1, CommandTyped
<1>3. UNCHANGED <<saved, cut, met>> /\ In(p, "reading") BY DEF ReadKey
<1>4. p \in met \/ w.key = w.url BY <1>1, <1>3 DEF OneGateway, Matching
<1> QED BY <1>1, <1>2, <1>3, <1>4 DEF OneGateway, In, OffGateway

LEMMA SaveKeeps ==
    ASSUME WorkTyped, OneGateway, NEW p \in Processes, Login(p) \/ PromptGateway(p) \/ Connect(p)
    PROVE  OneGateway'
<1>1. PICK w : /\ Goes(p, w) /\ w.stage = "saving" /\ w.key = w.url
               /\ saved' = [saved EXCEPT !.url = w.url] /\ met' = Meets(p)
  BY SaveMoves
<1>2. command'[p] = w /\ \A q \in Processes \ {p} : command'[q] = command[q] BY <1>1, CommandTyped
<1>3. saved'.url = w.url /\ In(p, "saving")' BY <1>1, <1>2 DEF WorkTyped, In
<1>4. \A q \in Processes \ {p} :
        /\ In(q, "saving") \/ In(q, "reading") => q \in met'
        /\ q \in met => q \in met'
  BY <1>1 DEF Meets
<1>5. \A q \in Processes \ {p} : In(q, "saving") => p \in met' BY <1>1 DEF Meets, Others, In
<1>6. \A q \in Processes \ {p}, s \in Stages : In(q, s)' <=> In(q, s) BY <1>2 DEF In
<1>7. /\ \A q \in Processes : In(q, "reading")' \/ q \in met' \/ command'[q].key = command'[q].url
      /\ \A q \in Processes : In(q, "saving")' => command'[q].key = command'[q].url
  BY <1>1, <1>2, <1>4 DEF OneGateway, In
<1>8. \A q, r \in Processes :
          In(r, "saving")' /\ r # q /\ (In(q, "saving")' \/ In(q, "reading")') => q \in met'
  BY <1>1, <1>2, <1>4, <1>5 DEF In
<1>9. \A q \in Processes : In(q, "saving")' =>
          q \in met' \/ saved'.url = Nothing \/ saved'.url = command'[q].url
  BY <1>2, <1>3, <1>4 DEF In
<1>10. \A q \in Processes : In(q, "reading")' => q \in met'
  BY <1>1, <1>2, <1>4 DEF In
<1> QED BY <1>3, <1>7, <1>8, <1>9, <1>10 DEF OneGateway

LEMMA SaveKeyKeeps ==
    ASSUME WorkTyped, OneGateway, NEW p \in Processes, SaveKey(p)
    PROVE  OneGateway'
<1>1. PICK w : /\ Goes(p, w) /\ OffGateway(w)
               /\ w.key = w.url \/ (w.key = command[p].key /\ w.url = command[p].url)
  BY SaveKeyMoves
<1>2. command'[p] = w /\ \A q \in Processes \ {p} : command'[q] = command[q] BY <1>1, CommandTyped
<1>3. In(p, "saving") BY DEF SaveKey
<1>4. saved'.url = saved.url /\ saved'.key = command[p].key BY DEF SaveKey, WorkTyped
<1>5. command[p].key = command[p].url BY <1>3 DEF OneGateway
<1>6. cut' = (p \in met) /\ met' = met \ {p} BY DEF SaveKey
<1>7. \A q \in Processes \ {p} : In(q, "saving") \/ In(q, "reading") => q \in met'
  BY <1>3, <1>6 DEF OneGateway
<1>8. cut' \/ Matching(saved'.url, saved'.key) BY <1>3, <1>4, <1>5, <1>6 DEF OneGateway, Matching
<1> QED BY <1>1, <1>2, <1>5, <1>6, <1>7, <1>8 DEF OneGateway, In, OffGateway

LEMMA ForgetKeeps ==
    ASSUME WorkTyped, OneGateway, NEW p \in Processes, Logout(p) \/ Disconnect(p) \/ ForgetKey(p)
    PROVE  OneGateway'
<1>1. PICK w : /\ Goes(p, w) /\ OffGateway(w) /\ OffGateway(command[p])
               /\ w.key = w.url \/ (w.key = command[p].key /\ w.url = command[p].url)
  BY ForgetMoves, ForgetKeyMoves
<1>2. command'[p] = w /\ \A q \in Processes \ {p} : command'[q] = command[q] BY <1>1, CommandTyped
<1>3. /\ \/ saved'.url = Nothing /\ saved'.key = saved.key
         \/ saved'.url = saved.url /\ saved'.key = Nothing
      /\ UNCHANGED <<cut, met>>
  BY ForgetMoves DEF ForgetKey, WorkTyped
<1>4. p \in met \/ command[p].key = command[p].url BY <1>1 DEF OneGateway, OffGateway, In
<1> QED BY <1>1, <1>2, <1>3, <1>4 DEF OneGateway, In, OffGateway, Matching

LEMMA KeysStep ==
    ASSUME KeysInv, [WorkNext]_workVars
    PROVE  KeysInv'
<1>1. WorkTyped' BY StaysTyped DEF KeysInv
<1>2. CASE UNCHANGED workVars BY <1>1, <1>2 DEF KeysInv, OneGateway, In, workVars
<1>3. ASSUME NEW p \in Processes, Step(p) PROVE OneGateway'
  <2> USE DEF KeysInv
  <2>1. CASE Code(p) BY <2>1, CodeKeeps
  <2>2. CASE ReadKey(p) BY <2>2, ReadKeyKeeps
  <2>3. CASE DeclinesGateway(p) BY <2>3, DeclinesMoves, OffTheFiles DEF DeclinesGateway
  <2>4. CASE Login(p) \/ PromptGateway(p) \/ Connect(p) BY <2>4, SaveKeeps
  <2>5. CASE SaveKey(p) BY <2>5, SaveKeyKeeps
  <2>6. CASE Logout(p) \/ Disconnect(p) \/ ForgetKey(p) BY <2>6, ForgetKeeps
  <2>7. CASE Turn(p) BY <2>7 DEF Turn, Files, OneGateway, In
  <2>8. CASE Crash(p)
    <3>1. UNCHANGED <<saved, met>> /\ cut' = (cut \/ In(p, "saving")) BY <2>8 DEF Crash
    <3>2. command'[p] = Idle /\ \A q \in Processes \ {p} : command'[q] = command[q]
      BY <2>8, CrashMoves, CommandTyped
    <3>3. Idle.key = Idle.url /\ Idle.stage # "reading" /\ Idle.stage # "saving" BY DEF Idle
    <3> QED BY <3>1, <3>2, <3>3 DEF OneGateway, In
  <2>9. CASE \E w : InProject(p, w)
    <3>1. PICK w : InProject(p, w) BY <2>9
    <3> QED BY <3>1, OffTheFiles DEF InProject
  <2>10. \/ ListKeys(p) \/ CreateKey(p) \/ Locate(p) \/ Resume(p) \/ Choose(p) \/ OpenIndex(p)
         \/ WriteIndex(p) \/ OpenMarker(p) \/ WriteMarker(p) \/ TurnDies(p) \/ Exit(p)
         => \E w : InProject(p, w)
    BY ListKeysMoves, CreateKeyMoves, LocateMoves, ResumeMoves, ChooseMoves, SavingMoves,
       WriteMarkerMoves, ExitMoves
  <2> QED BY <1>3, <2>1, <2>2, <2>3, <2>4, <2>5, <2>6, <2>7, <2>8, <2>9, <2>10 DEF Step
<1> QED BY <1>1, <1>2, <1>3 DEF KeysInv, WorkNext

LEMMA KeysFromTheStart == WorkInit => KeysInv
<1> SUFFICES ASSUME WorkInit PROVE KeysInv OBVIOUS
<1>1. WorkTyped BY TypedFromTheStart
<1>2. \A p \in Processes : command[p] = Idle BY DEF WorkInit
<1>3. Idle.stage = "idle" /\ Idle.key = Idle.url BY DEF Idle
<1>4. saved.url = Nothing BY DEF WorkInit
<1>5. OneGateway BY <1>2, <1>3, <1>4 DEF OneGateway, In, Matching
<1> QED BY <1>1, <1>5 DEF KeysInv

(* However many shells log in, connect and forget against one saved file, no   *)
(* key is sent to a gateway that did not issue it, but by a shell that was     *)
(* started while a save was under way, or after one that was cut short or met  *)
(* another and before the next that nothing interferes with (verify,          *)
(* save_creds, forget_creds, read_creds).                                   *)
THEOREM KeysGoHome == WorkSpec => []KeyGoesHome
<1>1. KeysInv => KeyGoesHome BY DEF KeysInv, OneGateway, KeyGoesHome, In
<1> QED BY <1>1, KeysFromTheStart, KeysStep, PTL DEF WorkSpec

-----------------------------------------------------------------------------
(* The project. *)

IsSaving(p) == In(p, "index open") \/ In(p, "marker") \/ In(p, "marker open")
Writes(p)   == In(p, "index") \/ IsSaving(p)

(* A session that was made is never number 0, and a marker says that a save    *)
(* ended.                                                                   *)
Numbered ==
    /\ 0 \notin left
    /\ index # Nothing => index.current # 0
    /\ \A p \in Processes : Writes(p) => command[p].store.current # 0
    /\ left = {} => marker = 0

(* One process writes at a time, and what it wrote is what it was to write.     *)
OneWriter ==
    /\ \A p, q \in Processes : Writes(p) /\ Writes(q) => p = q
    /\ \A p \in Processes : In(p, "index open") => index = Nothing
    /\ \A p \in Processes : In(p, "marker") \/ In(p, "marker open") => index = command[p].store

(* The project was never left anywhere: at most its first session was begun.   *)
NeverLeft ==
    /\ index # Nothing => index.sessions = {index.current}
    /\ \A p \in Processes : /\ Writes(p) => command[p].store.sessions = {command[p].store.current}
                            /\ In(p, "index") => index = Nothing
                            /\ In(p, "choosing") => index # Nothing /\ command[p].store = index

(* What the files tell is where the project was left, and so is what a save    *)
(* will make them tell; if no save was cut short, the marker tells it too.     *)
Findable ==
    /\ (\A p \in Processes : ~IsSaving(p)) =>
          /\ left = {} \/ Loaded.current \in left
          /\ torn = 0 => marker \in left \/ (left = {} /\ index = Nothing)
    /\ \A p \in Processes : In(p, "index open") /\ torn = 0 => left = {} \/ marker \in left
    /\ \A p \in Processes : Writes(p) => left = {} \/ command[p].store.current \in left
    /\ left = {} => NeverLeft

(* There is one row of the key's name: the one every shell has.               *)
OneOwner ==
    /\ owners \in {0, 1}
    /\ \A p, q \in Processes : In(p, "creating") => owners = 0 /\ (In(q, "creating") => p = q)
    /\ \A p \in Processes : In(p, "locating") \/ command[p].memory = "alive"
                               => command[p].owner = 1 /\ owners = 1
    /\ rows # {} => rows = {1} /\ owners = 1

ProjectInv ==
    /\ WorkTyped /\ Numbered
    /\ clash \/ (OneOwner /\ OneWriter)
    /\ clash \/ torn > 1 \/ Findable

LEMMA OwnerKept ==
    ASSUME WorkTyped, OneOwner, NEW p \in Processes, NEW w, Goes(p, w), UNCHANGED <<owners, rows>>,
           w.stage # "creating", w.stage # "locating",
           w.memory = "alive" => /\ In(p, "locating") \/ command[p].memory = "alive"
                                 /\ w.owner = command[p].owner
    PROVE  OneOwner'
<1>1. command'[p] = w /\ \A q \in Processes \ {p} : command'[q] = command[q] BY CommandTyped
<1> QED BY <1>1 DEF OneOwner, In

OffFiles(c) ==
    /\ c.stage # "choosing" /\ c.stage # "index"
    /\ c.stage # "index open" /\ c.stage # "marker" /\ c.stage # "marker open"

LEMMA ElsewhereKeeps ==
    ASSUME WorkTyped, NEW p \in Processes, NEW w, Goes(p, w), OffFiles(command[p]), OffFiles(w),
           UNCHANGED <<index, marker, left, torn>>
    PROVE  /\ Numbered => Numbered'
           /\ OneWriter => OneWriter'
           /\ Findable => Findable'
<1>1. command'[p] = w /\ \A q \in Processes \ {p} : command'[q] = command[q] BY CommandTyped
<1>2. /\ ~Writes(p) /\ ~Writes(p)' /\ ~In(p, "choosing") /\ ~In(p, "choosing")' /\ ~IsSaving(p) /\ ~IsSaving(p)'
      /\ ~In(p, "index") /\ ~In(p, "index open") /\ ~In(p, "marker") /\ ~In(p, "marker open")
      /\ ~In(p, "index")' /\ ~In(p, "index open")' /\ ~In(p, "marker")' /\ ~In(p, "marker open")'
  BY <1>1 DEF OffFiles, Writes, IsSaving, In
<1>3. \A q \in Processes \ {p} : /\ Writes(q)' = Writes(q) /\ In(q, "choosing")' = In(q, "choosing")
                                 /\ IsSaving(q)' = IsSaving(q) /\ In(q, "index")' = In(q, "index")
                                 /\ In(q, "index open")' = In(q, "index open") /\ In(q, "marker")' = In(q, "marker")
                                 /\ In(q, "marker open")' = In(q, "marker open")
  BY <1>1 DEF Writes, IsSaving, In
<1>4. Loaded' = Loaded BY DEF Loaded
<1>5. ASSUME Numbered PROVE Numbered' BY <1>1, <1>2, <1>3, <1>5 DEF Numbered
<1>6. ASSUME OneWriter PROVE OneWriter' BY <1>1, <1>2, <1>3, <1>6 DEF OneWriter
<1>7. ASSUME NeverLeft PROVE NeverLeft' BY <1>1, <1>2, <1>3, <1>7 DEF NeverLeft
<1>8. ASSUME Findable PROVE Findable' BY <1>1, <1>2, <1>3, <1>4, <1>7, <1>8 DEF Findable
<1> QED BY <1>5, <1>6, <1>8

LEMMA AsideKeeps ==
    ASSUME WorkTyped, NEW p \in Processes, NEW w, Goes(p, w), Aside(p, w)
    PROVE  /\ Numbered => Numbered'
           /\ OneWriter => OneWriter'
           /\ Findable => Findable'
           /\ OneOwner => OneOwner'
           /\ UNCHANGED <<clash, torn>>
<1>1. OffFiles(command[p]) /\ OffFiles(w) BY DEF Aside, OffProject, OffFiles
<1>2. UNCHANGED <<index, marker, left, torn, owners, rows, clash>> BY DEF Aside, Project
<1>3. ASSUME OneOwner PROVE OneOwner' BY <1>2, <1>3, OwnerKept DEF Aside, OffProject
<1> QED BY <1>1, <1>2, <1>3, ElsewhereKeeps

LEMMA NobodyElseWrites ==
    ASSUME NEW p \in Processes, Looks(p), ~clash'
    PROVE  ~clash /\ \A q \in Processes \ {p} : ~Writes(q)
<1>1. ~clash /\ ~Others(p, Writing) BY DEF Looks
<1>2. \A q \in Processes : Writes(q) => command[q].stage \in Writing
  BY DEF Writes, IsSaving, In, Writing, Saving
<1> QED BY <1>1, <1>2 DEF Others

LEMMA KeyRowKeeps ==
    ASSUME WorkTyped, NEW p \in Processes, ListKeys(p) \/ CreateKey(p)
    PROVE  /\ Numbered => Numbered'
           /\ OneWriter => OneWriter'
           /\ Findable => Findable'
           /\ ~clash' => ~clash
           /\ OneOwner /\ ~clash' => OneOwner'
           /\ UNCHANGED torn
<1>1. PICK w : /\ Goes(p, w) /\ OffFiles(w) /\ w.memory = command[p].memory
               /\ \/ /\ ListKeys(p) /\ w.stage = IF owners = 0 THEN "creating" ELSE "locating"
                     /\ w.owner = owners
                  \/ CreateKey(p) /\ w.stage = "locating" /\ w.owner = owners'
  <2>1. CASE ListKeys(p)
    <3>1. PICK w : /\ Goes(p, w) /\ w.stage = IF owners = 0 THEN "creating" ELSE "locating"
                   /\ w.owner = owners /\ w.memory = command[p].memory
      BY <2>1, ListKeysMoves DEF InProject
    <3>2. OffFiles(w) BY <3>1 DEF OffFiles
    <3> QED BY <2>1, <3>1, <3>2
  <2>2. CASE CreateKey(p)
    <3>1. PICK w : /\ Goes(p, w) /\ w.stage = "locating"
                   /\ w.owner = owners' /\ w.memory = command[p].memory
      BY <2>2, CreateKeyMoves DEF InProject
    <3>2. OffFiles(w) BY <3>1 DEF OffFiles
    <3> QED BY <2>2, <3>1, <3>2
  <2> QED BY <2>1, <2>2
<1>2. command'[p] = w /\ \A q \in Processes \ {p} : command'[q] = command[q] BY <1>1, CommandTyped
<1>3. OffFiles(command[p]) BY DEF ListKeys, CreateKey, In, OffFiles
<1>4. UNCHANGED <<index, marker, left, torn>> BY DEF ListKeys, CreateKey
<1>5. ~clash' => ~clash BY DEF ListKeys, CreateKey
<1>6. ASSUME OneOwner, ListKeys(p), ~clash' PROVE OneOwner'
  <2>1. \A q \in Processes \ {p} : ~In(q, "creating") BY <1>6 DEF ListKeys, Others, In
  <2>2. UNCHANGED <<owners, rows>> /\ In(p, "listing") BY <1>6 DEF ListKeys
  <2>3. w.stage = (IF owners = 0 THEN "creating" ELSE "locating") /\ w.owner = owners
    BY <1>1, <1>6 DEF ListKeys, CreateKey, In
  <2>4. command[p].memory = "alive" => owners = 1 BY <1>6 DEF OneOwner
  <2> QED BY <1>1, <1>2, <1>6, <2>1, <2>2, <2>3, <2>4 DEF OneOwner, In
<1>7. ASSUME OneOwner, CreateKey(p) PROVE OneOwner'
  <2>1. owners = 0 /\ \A q \in Processes \ {p} : ~In(q, "creating") BY <1>7 DEF OneOwner, CreateKey
  <2>2. owners' = 1 /\ rows' = rows /\ In(p, "creating") BY <1>7, <2>1 DEF CreateKey
  <2>3. w.stage = "locating" /\ w.owner = owners'
    BY <1>1, <1>7, <2>1 DEF ListKeys, CreateKey, In
  <2>4. rows = {} /\ \A q \in Processes : ~In(q, "locating") /\ command[q].memory # "alive"
    BY <1>7, <2>1 DEF OneOwner
  <2> QED BY <1>1, <1>2, <2>1, <2>2, <2>3, <2>4 DEF OneOwner, In
<1> QED BY <1>1, <1>3, <1>4, <1>5, <1>6, <1>7, ElsewhereKeeps

LEMMA OneSession ==
    ASSUME WorkTyped, Numbered
    PROVE  /\ Loaded.current = 0 => index = Nothing /\ Loaded.sessions = {}
           /\ index # Nothing => Loaded = index
BY DEF Numbered, Loaded, NoStore

LEMMA LocateKeeps ==
    ASSUME WorkTyped, Numbered, NEW p \in Processes, Locate(p)
    PROVE  /\ Numbered'
           /\ ~clash' => ~clash
           /\ OneOwner => OneOwner'
           /\ OneWriter /\ ~clash' => OneWriter'
           /\ Findable /\ ~clash' => Findable'
           /\ UNCHANGED torn
<1>1. PICK w : /\ Goes(p, w) /\ w.owner = command[p].owner /\ w.memory = "alive"
               /\ \/ Loaded.current # 0 /\ w.stage = "open"
                  \/ /\ Loaded.current = 0 /\ w.stage = "index" /\ minted' \in 1..MaxSessions
                     /\ w.store = Current(Loaded, minted')
  BY LocateMoves DEF InProject
<1>2. command'[p] = w /\ \A q \in Processes \ {p} : command'[q] = command[q] BY <1>1, CommandTyped
<1>3. UNCHANGED <<index, marker, left, torn, owners, rows>> /\ In(p, "locating") BY DEF Locate
<1>4. OffFiles(command[p]) BY <1>3 DEF In, OffFiles
<1>5. w.stage # "creating" /\ w.stage # "locating" BY <1>1
<1>6. ASSUME OneOwner PROVE OneOwner' BY <1>1, <1>3, <1>5, <1>6, OwnerKept
<1>7. ~clash' => ~clash BY DEF Locate, Looks
<1>8. CASE w.stage = "open"
  <2>1. OffFiles(w) BY <1>8 DEF OffFiles
  <2> QED BY <1>1, <1>3, <1>4, <1>6, <1>7, <2>1, ElsewhereKeeps
<1>9. CASE w.stage = "index"
  <2>1. /\ Loaded.current = 0 /\ minted' \in 1..MaxSessions
        /\ w.store = Current(Loaded, minted')
    BY <1>1, <1>9
  <2>2. index = Nothing /\ Loaded.sessions = {} BY <2>1, OneSession
  <2>3. w.store.current # 0 /\ w.store.sessions = {w.store.current}
    <3>1. w.store.current = minted' /\ w.store.sessions = Loaded.sessions \union {minted'}
      BY <2>1, LoadedTyped, CurrentTyped
    <3> QED BY <2>1, <2>2, <3>1
  <2>4. Numbered' BY <1>2, <1>3, <2>2, <2>3 DEF Numbered, Writes, IsSaving, In
  <2>5. ASSUME ~clash' PROVE \A q \in Processes \ {p} : ~Writes(q) /\ ~Writes(q)'
    BY <1>2, <2>5, NobodyElseWrites DEF Locate, Writes, IsSaving, In
  <2>6. ASSUME OneWriter, ~clash' PROVE OneWriter'
    BY <1>2, <1>9, <2>5, <2>6 DEF OneWriter, Writes, IsSaving, In
  <2>7. ASSUME Findable, ~clash' PROVE Findable'
    <3>1. \A q \in Processes : ~IsSaving(q) /\ ~IsSaving(q)'
      BY <1>2, <1>3, <1>9, <2>5, <2>7 DEF Writes, IsSaving, In
    <3>2. left = {} BY <2>1, <2>7, <3>1 DEF Findable, Numbered
    <3>3. NeverLeft BY <2>7, <3>2 DEF Findable
    <3>4. \A q \in Processes : ~In(q, "choosing") BY <2>2, <3>3 DEF NeverLeft
    <3>5. NeverLeft' BY <1>2, <1>3, <1>9, <2>2, <2>3, <2>5, <2>7, <3>4 DEF NeverLeft, In
    <3>6. ~In(p, "index open")' /\ \A q \in Processes \ {p} : ~In(q, "index open")'
      BY <1>2, <3>1 DEF IsSaving, In
    <3> QED BY <1>3, <2>2, <3>2, <3>5, <3>6 DEF Findable
  <2> QED BY <1>3, <1>6, <1>7, <2>4, <2>6, <2>7
<1> QED BY <1>1, <1>8, <1>9

LEMMA ResumeKeeps ==
    ASSUME WorkTyped, Numbered, NEW p \in Processes, Resume(p)
    PROVE  /\ Numbered'
           /\ ~clash' => ~clash
           /\ OneOwner => OneOwner'
           /\ OneWriter => OneWriter'
           /\ Findable /\ ~clash' => Findable'
           /\ UNCHANGED torn
<1>1. PICK w : /\ Goes(p, w) /\ w.owner = command[p].owner /\ w.memory = command[p].memory
               /\ w.stage = "choosing" /\ w.store = Loaded
  BY ResumeMoves DEF InProject
<1>2. command'[p] = w /\ \A q \in Processes \ {p} : command'[q] = command[q] BY <1>1, CommandTyped
<1>3. UNCHANGED <<index, marker, left, torn, owners, rows>> /\ In(p, "open") BY DEF Resume
<1>4. ~Writes(p) /\ ~Writes(p)' /\ ~IsSaving(p) /\ ~IsSaving(p)'
  BY <1>1, <1>2, <1>3 DEF Writes, IsSaving, In
<1>5. \A q \in Processes \ {p} : /\ Writes(q)' = Writes(q) /\ IsSaving(q)' = IsSaving(q)
                                 /\ In(q, "choosing")' = In(q, "choosing")
                                 /\ command'[q] = command[q]
  BY <1>2 DEF Writes, IsSaving, In
<1>6. ASSUME OneOwner PROVE OneOwner' BY <1>1, <1>3, <1>6, OwnerKept
<1>7. ~clash' => ~clash BY DEF Resume, Looks
<1>8. Numbered' BY <1>3, <1>4, <1>5 DEF Numbered
<1>9. ASSUME OneWriter PROVE OneWriter' BY <1>1, <1>2, <1>3, <1>4, <1>9 DEF OneWriter, Writes, IsSaving, In
<1>10. ASSUME Findable, ~clash' PROVE Findable'
  <2>1. \A q \in Processes : ~Writes(q) /\ ~Writes(q)' /\ ~IsSaving(q) /\ ~IsSaving(q)'
    BY <1>4, <1>5, <1>10, NobodyElseWrites DEF Resume, Writes
  <2>2. ASSUME NeverLeft, left = {} PROVE NeverLeft'
    <3>1. index # Nothing BY <2>2 DEF Numbered, Loaded, NoStore, Resume
    <3>2. w.store = index BY <1>1, <3>1, OneSession
    <3>3. \A q \in Processes : ~In(q, "index")' BY <2>1 DEF Writes
    <3>4. \A q \in Processes : In(q, "choosing")' => command'[q].store = index
      BY <1>2, <1>5, <2>2, <3>2 DEF NeverLeft, In
    <3> QED BY <1>3, <2>1, <2>2, <3>1, <3>3, <3>4 DEF NeverLeft
  <2>3. \A q \in Processes : ~In(q, "index open")' BY <2>1 DEF IsSaving
  <2>4. Loaded' = Loaded BY <1>3 DEF Loaded
  <2> QED BY <1>3, <1>10, <2>1, <2>2, <2>3, <2>4 DEF Findable
<1> QED BY <1>3, <1>6, <1>7, <1>8, <1>9, <1>10

LEMMA ChooseKeeps ==
    ASSUME WorkTyped, Numbered, NEW p \in Processes, Choose(p)
    PROVE  /\ Numbered'
           /\ ~clash' => ~clash
           /\ OneOwner => OneOwner'
           /\ OneWriter /\ ~clash' => OneWriter'
           /\ Findable /\ ~clash' => Findable'
           /\ UNCHANGED torn
<1>1. PICK w : /\ Goes(p, w) /\ w.owner = command[p].owner /\ w.memory = command[p].memory
               /\ \/ \E id \in command[p].store.sessions \cap 1..MaxSessions :
                        w.stage = "index" /\ w.store = Current(Loaded, id) /\ left' = left \union {id}
                  \/ w.stage = "open" /\ UNCHANGED left
  BY ChooseMoves DEF InProject
<1>2. command'[p] = w /\ \A q \in Processes \ {p} : command'[q] = command[q] BY <1>1, CommandTyped
<1>3. UNCHANGED <<index, marker, torn, owners, rows>> /\ In(p, "choosing") BY DEF Choose
<1>4. w.stage # "creating" /\ w.stage # "locating" BY <1>1
<1>5. ASSUME OneOwner PROVE OneOwner' BY <1>1, <1>3, <1>4, <1>5, OwnerKept
<1>6. ~clash' => ~clash BY DEF Choose, Looks
<1>7. Loaded' = Loaded BY <1>3 DEF Loaded
<1>8. ~Writes(p) /\ ~IsSaving(p) BY <1>3 DEF Writes, IsSaving, In
<1>9. \A q \in Processes \ {p} : /\ Writes(q)' = Writes(q) /\ IsSaving(q)' = IsSaving(q)
                                 /\ In(q, "choosing")' = In(q, "choosing")
                                 /\ In(q, "index open")' = In(q, "index open")
                                 /\ In(q, "index")' = In(q, "index")
                                 /\ command'[q] = command[q]
  BY <1>2 DEF Writes, IsSaving, In
<1>10. ASSUME ~clash' PROVE \A q \in Processes \ {p} : ~Writes(q) /\ ~Writes(q)'
  BY <1>9, <1>10, NobodyElseWrites DEF Choose
<1>11. CASE w.stage = "open" /\ UNCHANGED left
  <2>1. ~Writes(p)' /\ ~IsSaving(p)' /\ ~In(p, "choosing")' /\ ~In(p, "index open")' /\ ~In(p, "index")'
    BY <1>2, <1>11 DEF Writes, IsSaving, In
  <2>2. Numbered' BY <1>3, <1>9, <1>11, <2>1 DEF Numbered
  <2>3. ASSUME OneWriter, ~clash' PROVE OneWriter'
    BY <1>10, <2>1, <2>3 DEF OneWriter, Writes, IsSaving
  <2>4. ASSUME NeverLeft PROVE NeverLeft' BY <1>3, <1>9, <2>1, <2>4 DEF NeverLeft
  <2>5. ASSUME Findable PROVE Findable'
    BY <1>3, <1>7, <1>8, <1>9, <1>11, <2>1, <2>4, <2>5 DEF Findable
  <2> QED BY <1>3, <1>5, <1>6, <2>2, <2>3, <2>5
<1>12. CASE \E id \in command[p].store.sessions \cap 1..MaxSessions :
               w.stage = "index" /\ w.store = Current(Loaded, id) /\ left' = left \union {id}
  <2>1. PICK id \in command[p].store.sessions \cap 1..MaxSessions :
               w.stage = "index" /\ w.store = Current(Loaded, id) /\ left' = left \union {id}
    BY <1>12
  <2>2. w.store.current = id /\ id # 0 /\ left' # {} /\ id \in left'
    BY <2>1, LoadedTyped, CurrentTyped
  <2>3. ~IsSaving(p)' /\ ~In(p, "index open")' /\ ~In(p, "marker")' /\ ~In(p, "marker open")'
    BY <1>2, <2>1 DEF IsSaving, In
  <2>4. Numbered' BY <1>2, <1>3, <1>9, <2>1, <2>2 DEF Numbered
  <2>5. ASSUME OneWriter, ~clash' PROVE OneWriter'
    BY <1>10, <2>3, <2>5 DEF OneWriter, Writes, IsSaving
  <2>6. ASSUME Findable, ~clash' PROVE Findable'
    <3>1. \A q \in Processes : ~IsSaving(q) /\ ~IsSaving(q)' /\ ~In(q, "index open")'
      BY <1>8, <1>10, <2>3, <2>6 DEF Writes, IsSaving
    <3>2. Loaded.current \in left'
      <4>1. CASE left # {} BY <2>1, <2>6, <3>1, <4>1 DEF Findable
      <4>2. CASE left = {}
        <5>1. index # Nothing /\ command[p].store = index /\ index.sessions = {index.current}
          BY <1>3, <2>6, <4>2 DEF Findable, NeverLeft
        <5>2. id = index.current BY <2>1, <5>1
        <5> QED BY <2>1, <5>1, <5>2, OneSession
      <4> QED BY <4>1, <4>2
    <3>3. torn = 0 => marker \in left'
      <4>1. ASSUME torn = 0, marker \notin left PROVE FALSE
        <5>1. left = {} /\ index = Nothing BY <2>6, <3>1, <4>1 DEF Findable
        <5> QED BY <1>3, <2>6, <5>1 DEF Findable, NeverLeft
      <4> QED BY <2>1, <4>1
    <3>4. \A q \in Processes : Writes(q)' => command'[q].store.current \in left'
      BY <1>2, <1>10, <2>2, <2>6
    <3> QED BY <1>3, <1>7, <2>2, <3>1, <3>2, <3>3, <3>4 DEF Findable
  <2> QED BY <1>3, <1>5, <1>6, <2>4, <2>5, <2>6
<1> QED BY <1>1, <1>11, <1>12

Saves(p) == OpenIndex(p) \/ WriteIndex(p) \/ OpenMarker(p)

LEMMA SavesMoves ==
    ASSUME WorkTyped, NEW p \in Processes, Saves(p)
    PROVE  /\ command'[p].store = command[p].store
           /\ \A q \in Processes \ {p} : command'[q] = command[q]
           /\ Writes(p) /\ Writes(p)' /\ IsSaving(p)' /\ ~In(p, "index")' /\ ~In(p, "choosing")'
           /\ OpenIndex(p) => In(p, "index open")' /\ ~In(p, "marker")' /\ ~In(p, "marker open")'
           /\ ~OpenIndex(p) => ~In(p, "index open")'
           /\ UNCHANGED <<left, torn, clash, owners, rows>>
           /\ OneOwner => OneOwner'
<1>1. \E w : /\ Goes(p, w) /\ Keeps(command[p], w)
             /\ \/ OpenIndex(p) /\ w.stage = "index open"
                \/ WriteIndex(p) /\ w.stage = "marker"
                \/ OpenMarker(p) /\ w.stage = "marker open"
  BY SavingMoves DEF Saves, InProject
<1>2. PICK w : /\ Goes(p, w) /\ Keeps(command[p], w)
               /\ \/ OpenIndex(p) /\ w.stage = "index open"
                  \/ WriteIndex(p) /\ w.stage = "marker"
                  \/ OpenMarker(p) /\ w.stage = "marker open"
  BY <1>1
<1>3. command'[p] = w /\ \A q \in Processes \ {p} : command'[q] = command[q] BY <1>2, CommandTyped
<1>4. Writes(p) BY DEF Saves, OpenIndex, WriteIndex, OpenMarker, Writes, IsSaving
<1>5. Writes(p)' /\ IsSaving(p)' /\ ~In(p, "index")' /\ ~In(p, "choosing")'
  BY <1>2, <1>3 DEF Writes, IsSaving, In
<1>6. ~OpenIndex(p) => ~In(p, "index open")' BY <1>2, <1>3 DEF In
<1>7. OpenIndex(p) => ~WriteIndex(p) /\ ~OpenMarker(p) BY DEF OpenIndex, WriteIndex, OpenMarker, In
<1>8. OpenIndex(p) => In(p, "index open")' /\ ~In(p, "marker")' /\ ~In(p, "marker open")'
  BY <1>2, <1>3, <1>7 DEF In
<1>9. UNCHANGED <<left, torn, clash, owners, rows>> BY DEF Saves, OpenIndex, WriteIndex, OpenMarker
<1>10. w.stage # "creating" /\ w.stage # "locating" BY <1>2
<1>11. OneOwner => OneOwner' BY <1>2, <1>9, <1>10, OwnerKept DEF Keeps
<1> QED BY <1>2, <1>3, <1>4, <1>5, <1>6, <1>8, <1>9, <1>11 DEF Keeps

LEMMA SavesKeep ==
    ASSUME WorkTyped, Numbered, NEW p \in Processes, Saves(p)
    PROVE  /\ Numbered'
           /\ OneOwner => OneOwner'
           /\ OneWriter => OneWriter'
           /\ OneWriter /\ Findable => Findable'
           /\ UNCHANGED <<torn, clash>>
<1> DEFINE s == command[p].store
<1>0. s \in Store /\ s # Nothing BY StoreAssumption, FieldsOf DEF WorkTyped
<1>1. /\ command'[p].store = s
      /\ \A q \in Processes \ {p} : command'[q] = command[q]
      /\ Writes(p) /\ Writes(p)' /\ IsSaving(p)' /\ ~In(p, "index")' /\ ~In(p, "choosing")'
      /\ OpenIndex(p) => In(p, "index open")' /\ ~In(p, "marker")' /\ ~In(p, "marker open")'
      /\ ~OpenIndex(p) => ~In(p, "index open")'
      /\ UNCHANGED <<left, torn, clash, owners, rows>>
      /\ OneOwner => OneOwner'
  BY SavesMoves
<1>2. \/ OpenIndex(p) /\ index' = Nothing /\ marker' = marker /\ In(p, "index")
      \/ WriteIndex(p) /\ index' = s /\ marker' = marker /\ In(p, "index open")
      \/ OpenMarker(p) /\ index' = index /\ marker' = 0 /\ In(p, "marker")
  BY DEF Saves, OpenIndex, WriteIndex, OpenMarker
<1>3. s.current # 0 BY <1>1 DEF Numbered
<1>4. \A q \in Processes \ {p} : /\ Writes(q)' = Writes(q) /\ In(q, "choosing")' = In(q, "choosing")
                                 /\ In(q, "index")' = In(q, "index")
  BY <1>1 DEF Writes, IsSaving, In
<1>5. Numbered' BY <1>1, <1>2, <1>3, <1>4 DEF Numbered
<1>6. ASSUME OneWriter PROVE \A q \in Processes \ {p} : ~Writes(q) /\ ~Writes(q)'
  BY <1>1, <1>4, <1>6 DEF OneWriter
<1>7. ASSUME OneWriter PROVE OneWriter'
  <2>1. \A q \in Processes \ {p} : ~In(q, "index open")' /\ ~In(q, "marker")' /\ ~In(q, "marker open")'
    BY <1>6, <1>7 DEF Writes, IsSaving
  <2>2. ~OpenIndex(p) => index' = s
    BY <1>2, <1>7 DEF OneWriter
  <2>3. OpenIndex(p) => index' = Nothing BY <1>2 DEF OpenIndex, WriteIndex, OpenMarker, In
  <2> QED BY <1>1, <1>6, <1>7, <2>1, <2>2, <2>3 DEF OneWriter
<1>8. ASSUME OneWriter, Findable PROVE Findable'
  <2>1. \A q \in Processes \ {p} : ~IsSaving(q) /\ ~In(q, "index") /\ ~In(q, "index open")'
    BY <1>6, <1>8 DEF Writes, IsSaving
  <2>2. left = {} \/ s.current \in left BY <1>1, <1>8 DEF Findable
  <2>3. OpenIndex(p) /\ torn = 0 => left = {} \/ marker' \in left
    <3>1. SUFFICES ASSUME OpenIndex(p), torn = 0 PROVE left = {} \/ marker' \in left OBVIOUS
    <3>2. marker' = marker /\ ~IsSaving(p) BY <3>1 DEF OpenIndex, IsSaving, In
    <3> QED BY <1>8, <2>1, <3>1, <3>2 DEF Findable
  <2>4. ASSUME left = {} PROVE NeverLeft'
    <3>1. NeverLeft BY <1>8, <2>4 DEF Findable
    <3>2. s.sessions = {s.current} BY <1>1, <3>1 DEF NeverLeft
    <3>3. index' # Nothing => index'.sessions = {index'.current}
      <4>1. index' = Nothing \/ index' = s \/ index' = index BY <1>2
      <4>2. index # Nothing => index.sessions = {index.current} BY <3>1 DEF NeverLeft
      <4> HIDE DEF s
      <4> QED BY <3>2, <4>1, <4>2
    <3>4. index' # index => index = Nothing
      BY <1>2, <1>8, <3>1 DEF NeverLeft, OneWriter
    <3>5. \A q \in Processes : In(q, "choosing")' => index' # Nothing /\ command'[q].store = index'
      BY <1>1, <1>4, <3>1, <3>4 DEF NeverLeft
    <3> QED BY <1>1, <1>4, <1>6, <1>8, <2>1, <3>2, <3>3, <3>5 DEF NeverLeft
  <2>5. \A q \in Processes : Writes(q)' => left = {} \/ command'[q].store.current \in left
    BY <1>1, <1>6, <1>8, <2>2
  <2>6. \A q \in Processes : In(q, "index open")' /\ torn = 0 => left = {} \/ marker' \in left
    BY <1>1, <2>1, <2>3
  <2> QED BY <1>1, <2>4, <2>5, <2>6 DEF Findable
<1> QED BY <1>1, <1>5, <1>7, <1>8

(* A save that ends makes up for the ones that were cut short before it.       *)
LEMMA WriteMarkerKeeps ==
    ASSUME WorkTyped, Numbered, NEW p \in Processes, WriteMarker(p)
    PROVE  /\ Numbered'
           /\ UNCHANGED clash
           /\ OneOwner => OneOwner'
           /\ OneWriter => OneWriter' /\ Findable'
<1> DEFINE s == command[p].store
<1>1. PICK w : /\ Goes(p, w) /\ w.stage = "open"
               /\ w.owner = command[p].owner /\ w.memory = command[p].memory
  BY WriteMarkerMoves DEF InProject
<1>2. command'[p] = w /\ \A q \in Processes \ {p} : command'[q] = command[q] BY <1>1, CommandTyped
<1>3. In(p, "marker open") /\ marker' = s.current /\ left' = {s.current} /\ UNCHANGED <<index, owners, rows, clash>>
  BY DEF WriteMarker
<1>4. s \in Store /\ s # Nothing BY StoreAssumption, FieldsOf DEF WorkTyped
<1>5. Writes(p) /\ s.current # 0 BY <1>3 DEF Writes, IsSaving, Numbered
<1>6. ~Writes(p)' /\ ~IsSaving(p)' /\ ~In(p, "index open")' /\ ~In(p, "marker")' /\ ~In(p, "marker open")'
  BY <1>1, <1>2 DEF Writes, IsSaving, In
<1>7. \A q \in Processes \ {p} : Writes(q)' = Writes(q) /\ command'[q] = command[q]
  BY <1>2 DEF Writes, IsSaving, In
<1>8. Numbered' BY <1>3, <1>5, <1>6, <1>7 DEF Numbered
<1>9. OneOwner => OneOwner' BY <1>1, <1>3, OwnerKept
<1>10. ASSUME OneWriter PROVE OneWriter' /\ Findable'
  <2>1. \A q \in Processes : ~Writes(q)' BY <1>5, <1>6, <1>7, <1>10 DEF OneWriter
  <2>2. \A q \in Processes : ~IsSaving(q)' /\ ~In(q, "index open")' /\ ~In(q, "marker")' /\ ~In(q, "marker open")'
    BY <2>1 DEF Writes, IsSaving
  <2>3. index' = s /\ index' # Nothing BY <1>3, <1>4, <1>10 DEF OneWriter
  <2>4. Loaded' = index' BY <2>3 DEF Loaded
  <2> HIDE DEF s
  <2>5. Loaded'.current \in left' BY <1>3, <2>3, <2>4
  <2>6. left' # {} /\ marker' \in left' BY <1>3
  <2> QED BY <2>1, <2>2, <2>5, <2>6 DEF OneWriter, Findable
<1> QED BY <1>3, <1>8, <1>9, <1>10

(* A save that is cut short leaves one of the two files whole, unless the one   *)
(* before it was cut short too.                                             *)
LEMMA CrashKeeps ==
    ASSUME WorkTyped, Numbered, NEW p \in Processes, Crash(p)
    PROVE  /\ Numbered'
           /\ UNCHANGED clash
           /\ OneOwner => OneOwner'
           /\ OneWriter => OneWriter'
           /\ torn <= torn'
           /\ OneWriter /\ Findable /\ torn' < 2 => Findable'
<1>1. command'[p] = Idle /\ \A q \in Processes \ {p} : command'[q] = command[q]
  BY CrashMoves, CommandTyped
<1>2. UNCHANGED <<index, marker, owners, rows, left, clash>> /\ Loaded' = Loaded BY CrashMoves DEF Loaded
<1>3. torn \in Nat /\ torn' = IF IsSaving(p) THEN torn + 1 ELSE torn
  <2>1. command[p].stage \in Saving <=> IsSaving(p) BY DEF Saving, IsSaving, In
  <2> QED BY <2>1, WorkstationAssumption DEF Crash, WorkTyped
<1>4. OffProject(Idle) /\ Idle.memory = "none" BY DEF Idle, OffProject
<1>5. /\ ~Writes(p)' /\ ~IsSaving(p)' /\ ~In(p, "choosing")' /\ ~In(p, "index")'
      /\ ~In(p, "index open")' /\ ~In(p, "marker")' /\ ~In(p, "marker open")'
  BY <1>1, <1>4 DEF OffProject, Writes, IsSaving, In
<1>6. \A q \in Processes \ {p} : /\ Writes(q)' = Writes(q) /\ IsSaving(q)' = IsSaving(q)
                                 /\ In(q, "choosing")' = In(q, "choosing")
                                 /\ In(q, "index open")' = In(q, "index open")
                                 /\ In(q, "index")' = In(q, "index")
                                 /\ In(q, "marker")' = In(q, "marker")
                                 /\ In(q, "marker open")' = In(q, "marker open")
                                 /\ command'[q] = command[q]
  BY <1>1 DEF Writes, IsSaving, In
<1>7. Numbered' BY <1>2, <1>5, <1>6 DEF Numbered
<1>8. OneOwner => OneOwner' BY <1>2, <1>4, CrashMoves, OwnerKept DEF OffProject
<1>9. ASSUME OneWriter PROVE OneWriter' BY <1>2, <1>5, <1>6, <1>9 DEF OneWriter
<1>10. ASSUME NeverLeft PROVE NeverLeft' BY <1>2, <1>5, <1>6, <1>10 DEF NeverLeft
<1>11. ASSUME OneWriter, Findable, torn' < 2 PROVE Findable'
  <2>1. CASE ~IsSaving(p) BY <1>2, <1>3, <1>5, <1>6, <1>10, <1>11, <2>1 DEF Findable
  <2>2. CASE IsSaving(p)
    <3>1. torn = 0 /\ torn' = 1 BY <1>3, <1>11, <2>2
    <3>2. left = {} \/ command[p].store.current \in left BY <1>11, <2>2 DEF Findable, Writes
    <3>3. left = {} \/ Loaded.current \in left
      <4>1. CASE In(p, "index open")
        <5>1. index = Nothing /\ (left = {} \/ marker \in left) BY <1>11, <3>1, <4>1 DEF OneWriter, Findable
        <5>2. marker \in left => marker # 0 BY DEF Numbered
        <5> QED BY <5>1, <5>2 DEF Loaded
      <4>2. CASE In(p, "marker") \/ In(p, "marker open")
        <5>1. index = command[p].store BY <1>11, <4>2 DEF OneWriter
        <5>2. index # Nothing BY <5>1, StoreAssumption, FieldsOf DEF WorkTyped
        <5> QED BY <3>2, <5>1, <5>2 DEF Loaded
      <4> QED BY <2>2, <4>1, <4>2 DEF IsSaving
    <3>4. left' = {} \/ Loaded'.current \in left' BY <1>2, <3>3
    <3>5. torn' # 0 BY <3>1
    <3>6. \A q \in Processes : Writes(q)' => left' = {} \/ command'[q].store.current \in left'
      BY <1>2, <1>5, <1>6, <1>11 DEF Findable
    <3>7. left' = {} => NeverLeft' BY <1>2, <1>10, <1>11 DEF Findable
    <3> QED BY <3>4, <3>5, <3>6, <3>7 DEF Findable
  <2> QED BY <2>1, <2>2
<1> QED BY <1>2, <1>3, <1>7, <1>8, <1>9, <1>11

LEMMA TurnKeeps ==
    ASSUME WorkTyped, NEW p \in Processes, Turn(p)
    PROVE  /\ UNCHANGED <<torn, clash>>
           /\ Numbered => Numbered'
           /\ OneOwner => OneOwner'
           /\ OneWriter => OneWriter'
           /\ Findable => Findable'
<1>1. UNCHANGED <<command, index, marker, owners, left, torn, clash>> BY DEF Turn
<1>2. rows' = rows \union {command[p].owner} /\ command[p].memory = "alive" BY DEF Turn
<1>3. OneOwner => OneOwner' BY <1>1, <1>2 DEF OneOwner, In
<1> QED BY <1>1, <1>3 DEF Numbered, OneWriter, Findable, NeverLeft, Writes, IsSaving, In, Loaded

LEMMA TurnDiesExitMoves ==
    ASSUME WorkTyped, NEW p \in Processes, TurnDies(p) \/ Exit(p)
    PROVE  \E w : Goes(p, w) /\ Aside(p, w)
<1>1. CASE Exit(p)
  <2>1. Goes(p, Idle) /\ OffProject(command[p]) BY <1>1, ExitMoves DEF InProject
  <2>2. Aside(p, Idle) BY <1>1, <2>1, FreshOnes DEF Aside, Exit, Idle
  <2> QED BY <2>1, <2>2
<1>2. CASE TurnDies(p)
  <2>1. PICK w : Goes(p, w) /\ w.stage = "died" /\ Keeps(command[p], w) BY <1>2, SavingMoves DEF InProject
  <2>2. OffProject(w) BY <2>1 DEF OffProject
  <2>3. OffProject(command[p]) BY <1>2 DEF TurnDies, In, OffProject
  <2>4. Aside(p, w) BY <1>2, <2>1, <2>2, <2>3 DEF Aside, TurnDies, Keeps
  <2> QED BY <2>1, <2>4
<1> QED BY <1>1, <1>2

LEMMA ProjectStep ==
    ASSUME ProjectInv, [WorkNext]_workVars
    PROVE  ProjectInv'
<1>0. WorkTyped /\ Numbered BY DEF ProjectInv
<1>1. WorkTyped' BY <1>0, StaysTyped
<1>2. CASE UNCHANGED workVars
  BY <1>1, <1>2 DEF workVars, ProjectInv, Numbered, OneWriter, OneOwner, Findable, NeverLeft, Writes, IsSaving, In, Loaded
<1>3. ASSUME NEW p \in Processes, Step(p)
      PROVE  /\ Numbered'
             /\ ~clash' => ~clash
             /\ OneOwner /\ ~clash' => OneOwner'
             /\ OneWriter /\ ~clash' => OneWriter'
             /\ \/ UNCHANGED torn /\ (OneWriter /\ Findable /\ ~clash' => Findable')
                \/ OneWriter => Findable'
                \/ /\ torn <= torn'
                   /\ OneWriter /\ Findable /\ torn' < 2 => Findable'
  <2>1. CASE \/ Code(p) \/ ReadKey(p) \/ DeclinesGateway(p) \/ Login(p) \/ PromptGateway(p) \/ Connect(p)
             \/ SaveKey(p) \/ Logout(p) \/ Disconnect(p) \/ ForgetKey(p) \/ TurnDies(p) \/ Exit(p)
    <3>1. \E w : Goes(p, w) /\ Aside(p, w)
      BY <1>0, <2>1, CodeMoves, ReadKeyMoves, DeclinesMoves, SaveMoves, SaveKeyMoves, ForgetMoves, ForgetKeyMoves,
         TurnDiesExitMoves
    <3> QED BY <1>0, <3>1, AsideKeeps
  <2>2. CASE ListKeys(p) \/ CreateKey(p) BY <1>0, <2>2, KeyRowKeeps
  <2>3. CASE Locate(p) BY <1>0, <2>3, LocateKeeps
  <2>4. CASE Resume(p) BY <1>0, <2>4, ResumeKeeps
  <2>5. CASE Choose(p) BY <1>0, <2>5, ChooseKeeps
  <2>6. CASE OpenIndex(p) \/ WriteIndex(p) \/ OpenMarker(p) BY <1>0, <2>6, SavesKeep DEF Saves
  <2>7. CASE WriteMarker(p) BY <1>0, <2>7, WriteMarkerKeeps
  <2>8. CASE Turn(p) BY <1>0, <2>8, TurnKeeps
  <2>9. CASE Crash(p) BY <1>0, <2>9, CrashKeeps
  <2> QED BY <1>3, <2>1, <2>2, <2>3, <2>4, <2>5, <2>6, <2>7, <2>8, <2>9 DEF Step
<1>4. torn \in Nat /\ torn' \in Nat BY <1>0, <1>1, WorkstationAssumption DEF WorkTyped
<1>5. clash \in BOOLEAN /\ clash' \in BOOLEAN BY <1>0, <1>1 DEF WorkTyped
<1>6. ASSUME NEW p \in Processes, Step(p) PROVE ProjectInv'
  <2>1. clash' \/ (OneOwner' /\ OneWriter') BY <1>3, <1>6 DEF ProjectInv
  <2>2. clash' \/ torn' > 1 \/ Findable'
    <3>1. SUFFICES ASSUME ~clash', ~(torn' > 1) PROVE Findable' OBVIOUS
    <3>2. OneWriter /\ (torn > 1 \/ Findable) BY <1>3, <1>6, <3>1 DEF ProjectInv
    <3> QED BY <1>3, <1>4, <1>6, <3>1, <3>2
  <2> QED BY <1>1, <1>3, <1>6, <2>1, <2>2 DEF ProjectInv
<1> QED BY <1>2, <1>6 DEF WorkNext

LEMMA ProjectFromTheStart == WorkInit => ProjectInv
<1> SUFFICES ASSUME WorkInit PROVE ProjectInv OBVIOUS
<1>1. WorkTyped BY TypedFromTheStart
<1>2. \A p \in Processes : command[p] = Idle BY DEF WorkInit
<1>3. OffProject(Idle) /\ Idle.memory = "none" BY DEF Idle, OffProject
<1>4. index = Nothing /\ marker = 0 /\ owners = 0 /\ rows = {} /\ left = {} BY DEF WorkInit
<1>5. \A p \in Processes : /\ ~Writes(p) /\ ~In(p, "choosing") /\ ~In(p, "index") /\ ~In(p, "index open")
                            /\ ~In(p, "marker") /\ ~In(p, "marker open") /\ ~In(p, "creating") /\ ~In(p, "locating")
  BY <1>2, <1>3 DEF OffProject, Writes, IsSaving, In
<1>6. Numbered /\ OneWriter BY <1>4, <1>5 DEF Numbered, OneWriter
<1>7. OneOwner BY <1>2, <1>3, <1>4, <1>5 DEF OneOwner
<1>8. NeverLeft BY <1>4, <1>5 DEF NeverLeft
<1>9. Findable BY <1>4, <1>5, <1>8 DEF Findable
<1> QED BY <1>1, <1>6, <1>7, <1>9 DEF ProjectInv

(* The step that finds the session of a project finds one it was left at.      *)
LEMMA PicksUp ==
    ASSUME ProjectInv, [WorkNext]_workVars
    PROVE  \A p \in Processes :
             In(p, "locating") /\ command[p].stage # command'[p].stage /\ command'[p].memory = "alive"
                /\ left # {} /\ torn < 2 /\ ~clash'
             => /\ command'[p].session \in left
                /\ rows \subseteq {command'[p].owner}
<1> SUFFICES ASSUME NEW p \in Processes, In(p, "locating"), command[p].stage # command'[p].stage,
                    command'[p].memory = "alive", left # {}, torn < 2, ~clash'
             PROVE  command'[p].session \in left /\ rows \subseteq {command'[p].owner}
  OBVIOUS
<1>0. WorkTyped /\ Numbered BY DEF ProjectInv
<1>1. PICK q \in Processes : Step(q) BY DEF WorkNext, workVars
<1>2. q = p
  <2>1. UNCHANGED command \/ \E w : Goes(q, w)
    BY <1>0, <1>1, Moves, CrashMoves DEF Turn, InProject
  <2> QED BY <1>0, <2>1, CommandTyped
<1>3. Locate(p)
  <2>1. Locate(p) \/ Crash(p)
    BY <1>1, <1>2 DEF Step, Code, ReadKey, DeclinesGateway, Login, PromptGateway, Connect, Save, SaveKey, Logout,
       Disconnect, Forget, ForgetKey, ListKeys, CreateKey, Resume, Choose, OpenIndex, WriteIndex, OpenMarker,
       WriteMarker, Turn, TurnDies, Exit, In
  <2>2. ASSUME Crash(p) PROVE FALSE
    <3>1. command'[p] = Idle BY <1>0, <2>2, CrashMoves, CommandTyped
    <3> QED BY <3>1 DEF Idle
  <2> QED BY <2>1, <2>2
<1>4. ~clash /\ \A r \in Processes \ {p} : ~Writes(r) BY <1>3, NobodyElseWrites DEF Locate
<1>5. torn \in Nat BY <1>0, WorkstationAssumption DEF WorkTyped
<1>6. OneOwner /\ Findable BY <1>4, <1>5 DEF ProjectInv
<1>7. \A r \in Processes : ~IsSaving(r) BY <1>4 DEF Writes, IsSaving, In
<1>8. Loaded.current \in left /\ Loaded.current # 0 BY <1>6, <1>7, <1>0 DEF Findable, Numbered
<1>9. command'[p].session = Loaded.current /\ command'[p].owner = command[p].owner
  <2>1. PICK w : /\ Goes(p, w) /\ w.owner = command[p].owner
                 /\ w.session = Loaded.current
    BY <1>0, <1>3, <1>8, LocateMoves DEF InProject
  <2> QED BY <1>0, <2>1, CommandTyped
<1>10. rows \subseteq {1} /\ command[p].owner = 1 BY <1>6 DEF OneOwner
<1> QED BY <1>8, <1>9, <1>10

(* A shell comes back to the session and the owner it or another left the       *)
(* project with, for any number of commands, sessions and crashes, unless two   *)
(* were at its files at once or two saves in a row were cut short               *)
(* (_load_session_store, _save_session_store).                              *)
THEOREM LeftWhereItIsFound == WorkSpec => PicksUpWhereLeft
<1>1. ProjectInv /\ [WorkNext]_workVars
      => [\A p \in Processes :
             In(p, "locating") /\ command[p].stage # command'[p].stage /\ command'[p].memory = "alive"
                /\ left # {} /\ torn < 2 /\ ~clash'
             => /\ command'[p].session \in left
                /\ rows \subseteq {command'[p].owner}]_workVars
  BY PicksUp
<1> QED BY <1>1, ProjectFromTheStart, ProjectStep, PTL DEF WorkSpec, PicksUpWhereLeft

-----------------------------------------------------------------------------
(* What the ledgers of sessions tell. *)

(* The ledger tells no less than the row.                                    *)
Remembers(ledger, row) == row.changed \subseteq ledger.changed /\ row.goal \in {ledger.goal, Absent}

ShellRecords == [stage : {"off", "idle", "turn", "saving"}, session : SessionIds \union {Absent},
                 ledger : Ledgers, found : BOOLEAN, apart : BOOLEAN]

LedgersTyped ==
    /\ shell \in [Shells -> ShellRecords]
    /\ records \in [SessionIds -> SUBSET Ledgers]
    /\ happened \in [SessionIds -> [goals : SUBSET Tasks, files : SUBSET Paths]]
    /\ \A c \in Shells : Stage(c, "off") \/ shell[c].session \in SessionIds

(* A shell that is not apart has in its ledger what the row tells.            *)
NothingMissed ==
    \A c \in Shells : Stage(c, "off") \/ shell[c].apart
        \/ \A row \in records[shell[c].session] : Remembers(shell[c].ledger, row)

Honest == LedgersTyped /\ LedgersAreTrue /\ NothingMissed

LEMMA EmptyTells ==
    ASSUME NEW s \in SessionIds
    PROVE  Empty \in Ledgers /\ Tells(Empty, s)
BY DEF Empty, Ledgers, Tells

(* What is read from the database is true, and misses nothing.                *)
LEMMA RowRead ==
    ASSUME Honest, NEW s \in SessionIds
    PROVE  /\ RecordOf(s) \in Ledgers /\ Tells(RecordOf(s), s)
           /\ \A row \in records[s] : Remembers(RecordOf(s), row)
<1>1. CASE records[s] = {}
  BY <1>1, EmptyTells DEF RecordOf
<1>2. CASE records[s] # {}
  <2>1. RecordOf(s) \in records[s]
    BY <1>2 DEF RecordOf
  <2>2. \A row \in records[s] : row = RecordOf(s)
    BY <2>1 DEF Honest, LedgersAreTrue
  <2>3. RecordOf(s) \in Ledgers /\ Tells(RecordOf(s), s)
    BY <2>1 DEF Honest, LedgersTyped, LedgersAreTrue
  <2> QED BY <2>2, <2>3 DEF Remembers
<1> QED BY <1>1, <1>2

(* A shell takes another ledger, or another place, and nothing else changes.  *)
LEMMA ShellChanges ==
    ASSUME Honest, NEW c \in Shells, UNCHANGED <<records, happened>>,
           NEW new \in ShellRecords,
           shell' = [shell EXCEPT ![c] = new],
           new.stage = "off"
           \/ /\ new.session \in SessionIds /\ Tells(new.ledger, new.session)
              /\ new.apart \/ \A row \in records[new.session] : Remembers(new.ledger, row)
    PROVE  Honest'
<1> USE DEF Stage, ShellRecords
<1>1. shell'[c] = new /\ \A d \in Shells \ {c} : shell'[d] = shell[d]
  BY DEF Honest, LedgersTyped
<1>2. LedgersTyped'
  BY <1>1 DEF Honest, LedgersTyped
<1>3. \A l, s : Tells(l, s)' <=> Tells(l, s)
  BY DEF Tells
<1>4. LedgersAreTrue'
  BY <1>1, <1>3 DEF Honest, LedgersAreTrue
<1>5. NothingMissed'
  BY <1>1 DEF Honest, NothingMissed
<1> QED BY <1>2, <1>4, <1>5 DEF Honest

(* A shell opens, resumes, clears or closes a session.                        *)
LEMMA SessionOfShell ==
    ASSUME Honest, NEW c \in Shells, NEW s \in SessionIds,
           ClearShell(c) \/ CloseShell(c) \/ ResumeSession(c, s) \/ \E read \in BOOLEAN : OpenShell(c, s, read)
    PROVE  Honest'
<1> USE DEF Stage, ShellRecords
<1>1. shell[c] \in ShellRecords
  BY DEF Honest, LedgersTyped
<1>2. CASE ClearShell(c)
  <2> DEFINE new == [shell[c] EXCEPT !.ledger = Empty, !.apart = TRUE]
  <2>1. shell[c].session \in SessionIds
    BY <1>2 DEF ClearShell, Honest, LedgersTyped
  <2>2. shell' = [shell EXCEPT ![c] = new]
    BY <1>1, <1>2 DEF ClearShell, Honest, LedgersTyped
  <2>3. Empty \in Ledgers /\ Tells(Empty, shell[c].session)
    BY <2>1, EmptyTells
  <2> QED BY <1>1, <1>2, <2>1, <2>2, <2>3, ShellChanges DEF ClearShell
<1>3. CASE CloseShell(c)
  <2>1. Off \in ShellRecords
    BY EmptyTells DEF Off
  <2> QED BY <1>3, <2>1, ShellChanges DEF CloseShell, Off
<1>4. CASE ResumeSession(c, s)
  <2>1. Resumed(c, s) \in ShellRecords
    BY <1>1, RowRead DEF Resumed
  <2>2. Resumed(c, s).session = s /\ Resumed(c, s).ledger = RecordOf(s)
    BY <1>1 DEF Resumed
  <2> QED BY <1>4, <2>1, <2>2, RowRead, ShellChanges DEF ResumeSession
<1>5. ASSUME NEW read \in BOOLEAN, OpenShell(c, s, read) PROVE Honest'
  <2> DEFINE l == IF read THEN RecordOf(s) ELSE Empty
             new == [Off EXCEPT !.stage = "idle", !.session = s, !.apart = ~read, !.ledger = l]
  <2>1. l \in Ledgers /\ Tells(l, s) /\ (~read \/ \A row \in records[s] : Remembers(l, row))
    BY RowRead, EmptyTells
  <2> HIDE DEF l
  <2>2. new \in ShellRecords
    BY <2>1 DEF Off
  <2>3. new.session = s /\ new.ledger = l /\ (new.apart <=> ~read)
    BY DEF Off
  <2>4. shell' = [shell EXCEPT ![c] = new] /\ UNCHANGED <<records, happened>>
    BY <1>5 DEF OpenShell, l
  <2> HIDE DEF new
  <2> QED BY <2>1, <2>2, <2>3, <2>4, ShellChanges
<1> QED BY <1>2, <1>3, <1>4, <1>5

(* A turn that breaks off, and the steps of a save that write nothing.         *)
LEMMA TurnOver ==
    ASSUME Honest, NEW c \in Shells, BreakOff(c) \/ SelectRow(c) \/ SaveFails(c)
    PROVE  Honest'
<1> USE DEF Stage, ShellRecords
<1>1. shell[c] \in ShellRecords
  BY DEF Honest, LedgersTyped
<1>2. shell[c].stage # "off"
  BY DEF BreakOff, SelectRow, SaveFails
<1>3. PICK stage \in {"idle", "saving"}, found \in BOOLEAN :
          shell' = [shell EXCEPT ![c] = [shell[c] EXCEPT !.stage = stage, !.found = found]]
  <2>1. CASE BreakOff(c) \/ SaveFails(c)
    <3>1. shell' = [shell EXCEPT ![c] = [shell[c] EXCEPT !.stage = "idle", !.found = shell[c].found]]
      BY <1>1, <2>1 DEF BreakOff, SaveFails, Honest, LedgersTyped
    <3>2. shell[c].found \in BOOLEAN
      BY <1>1
    <3> QED BY <3>1, <3>2
  <2>2. CASE SelectRow(c)
    BY <1>1, <2>2 DEF SelectRow, Honest, LedgersTyped
  <2> QED BY <2>1, <2>2
<1> DEFINE new == [shell[c] EXCEPT !.stage = stage, !.found = found]
<1>4. new \in ShellRecords
  BY <1>1
<1>5. /\ new.session = shell[c].session /\ new.ledger = shell[c].ledger /\ new.apart = shell[c].apart
  BY <1>1
<1>6. /\ new.session \in SessionIds /\ Tells(new.ledger, new.session)
      /\ new.apart \/ \A row \in records[new.session] : Remembers(new.ledger, row)
  BY <1>2, <1>5 DEF Honest, LedgersTyped, LedgersAreTrue, NothingMissed
<1>7. UNCHANGED <<records, happened>>
  BY DEF BreakOff, SelectRow, SaveFails
<1> HIDE DEF new
<1> QED BY <1>3, <1>4, <1>6, <1>7, ShellChanges DEF new

(* What is asked and changed is told and happens at once.                     *)
LEMMA TurnHappens ==
    ASSUME Honest, NEW c \in Shells,
           (\E task \in Tasks : BeginTask(c, task)) \/ (\E file \in Paths : ChangeFile(c, file))
    PROVE  Honest'
<1> USE DEF Stage, ShellRecords
<1>c. PICK task, file : (task \in Tasks /\ BeginTask(c, task)) \/ (file \in Paths /\ ChangeFile(c, file))
  OBVIOUS
<1>a. PICK s : s = shell[c].session OBVIOUS
<1>b. PICK old : old = shell[c].ledger OBVIOUS
<1>1. /\ shell[c].stage # "off" /\ s \in SessionIds /\ old \in Ledgers /\ Tells(old, s)
      /\ shell[c].apart \/ \A row \in records[s] : Remembers(old, row)
      /\ happened[s] \in [goals : SUBSET Tasks, files : SUBSET Paths]
  BY <1>a, <1>b, <1>c DEF BeginTask, ChangeFile, Honest, LedgersTyped, LedgersAreTrue, NothingMissed
<1>2. PICK new \in Ledgers, stage \in {"turn"} :
          /\ shell' = [shell EXCEPT ![c] = [shell[c] EXCEPT !.stage = stage, !.ledger = new]]
          /\ Tells(new, s)'
          /\ \A row \in Ledgers : Remembers(old, row) => Remembers(new, row)
  <2>1. CASE task \in Tasks /\ BeginTask(c, task)
    <3>1. Asked(old, task) \in Ledgers
      BY <1>1, <2>1 DEF Asked, Ledgers
    <3>2. shell' = [shell EXCEPT ![c] = [shell[c] EXCEPT !.stage = "turn", !.ledger = Asked(old, task)]]
      BY <1>b, <2>1 DEF BeginTask, Honest, LedgersTyped
    <3>3. happened'[s].goals = happened[s].goals \union {task} /\ happened'[s].files = happened[s].files
      BY <1>a, <1>1, <2>1 DEF BeginTask, Honest, LedgersTyped
    <3>4. Asked(old, task).goal \in {task, old.goal} /\ Asked(old, task).changed = old.changed
      BY <1>1 DEF Asked, Ledgers
    <3>5. \A row \in Ledgers : Remembers(old, row) => Remembers(Asked(old, task), row)
      BY <1>1 DEF Asked, Ledgers, Remembers
    <3>6. /\ Asked(old, task).goal \in happened'[s].goals \union {Absent}
          /\ Asked(old, task).changed \subseteq happened'[s].files
      BY <1>1, <3>3, <3>4 DEF Tells
    <3> QED BY <3>1, <3>2, <3>5, <3>6 DEF Tells
  <2>2. CASE file \in Paths /\ ChangeFile(c, file)
    <3> DEFINE more == [old EXCEPT !.changed = @ \union {file}]
    <3>1. more \in Ledgers /\ more.goal = old.goal /\ more.changed = old.changed \union {file}
      BY <1>1, <2>2 DEF Ledgers
    <3>2. shell' = [shell EXCEPT ![c] = [shell[c] EXCEPT !.stage = "turn", !.ledger = more]]
      <4>1. shell[c] \in ShellRecords /\ shell[c].stage = "turn"
        BY <2>2 DEF ChangeFile, Honest, LedgersTyped
      <4>2. shell' = [shell EXCEPT ![c] = [shell[c] EXCEPT !.ledger = more]]
        BY <1>b, <2>2, <4>1 DEF ChangeFile, Ledgers, Honest, LedgersTyped
      <4>3. [shell[c] EXCEPT !.stage = "turn", !.ledger = more] = [shell[c] EXCEPT !.ledger = more]
        BY <4>1
      <4> QED BY <4>2, <4>3
    <3>3. happened'[s].goals = happened[s].goals /\ happened'[s].files = happened[s].files \union {file}
      BY <1>a, <1>1, <2>2 DEF ChangeFile, Honest, LedgersTyped
    <3>4. \A row \in Ledgers : Remembers(old, row) => Remembers(more, row)
      BY <3>1 DEF Remembers
    <3>5. /\ more.goal \in happened'[s].goals \union {Absent}
          /\ more.changed \subseteq happened'[s].files
      BY <1>1, <3>1, <3>3 DEF Tells
    <3> QED BY <3>1, <3>2, <3>4, <3>5 DEF Tells
  <2> QED BY <1>c, <2>1, <2>2
<1>3. /\ records' = records
      /\ happened' \in [SessionIds -> [goals : SUBSET Tasks, files : SUBSET Paths]]
  <2>1. CASE task \in Tasks /\ BeginTask(c, task)
    BY <1>a, <1>1, <2>1 DEF BeginTask, Honest, LedgersTyped
  <2>2. CASE file \in Paths /\ ChangeFile(c, file)
    BY <1>a, <1>1, <2>2 DEF ChangeFile, Honest, LedgersTyped
  <2> QED BY <1>c, <2>1, <2>2
<1>4. \A q \in SessionIds : /\ happened[q].goals \subseteq happened'[q].goals
                            /\ happened[q].files \subseteq happened'[q].files
  <2>1. CASE task \in Tasks /\ BeginTask(c, task)
    BY <1>a, <1>1, <2>1 DEF BeginTask, Honest, LedgersTyped
  <2>2. CASE file \in Paths /\ ChangeFile(c, file)
    BY <1>a, <1>1, <2>2 DEF ChangeFile, Honest, LedgersTyped
  <2> QED BY <1>c, <2>1, <2>2
<1>5. /\ shell'[c].session = s /\ shell'[c].ledger = new /\ shell'[c].apart = shell[c].apart
      /\ shell'[c].stage = "turn" /\ \A d \in Shells \ {c} : shell'[d] = shell[d]
      /\ shell' \in [Shells -> ShellRecords]
  BY <1>a, <1>2 DEF Honest, LedgersTyped
<1>6. LedgersTyped'
  BY <1>1, <1>3, <1>5 DEF Honest, LedgersTyped
<1>7. LedgersAreTrue'
  <2>1. ASSUME NEW q \in SessionIds, NEW l, Tells(l, q) PROVE l.goal \in happened'[q].goals \union {Absent} /\ l.changed \subseteq happened'[q].files
    BY <1>4, <2>1 DEF Tells
  <2>2. \A q \in SessionIds : (\A a, b \in records'[q] : a = b) /\ \A row \in records'[q] : Tells(row, q)'
    BY <1>3, <2>1 DEF Honest, LedgersAreTrue, Tells
  <2>3. \A d \in Shells : shell'[d].stage = "off" \/ Tells(shell[d].ledger, shell[d].session)'
    BY <1>a, <1>1, <1>2, <1>5, <2>1 DEF Honest, LedgersTyped, LedgersAreTrue, Tells
  <2> QED BY <2>2, <2>3 DEF LedgersAreTrue
<1>8. NothingMissed'
  BY <1>b, <1>1, <1>2, <1>3, <1>5 DEF Honest, LedgersTyped, NothingMissed
<1> QED BY <1>6, <1>7, <1>8 DEF Honest

(* A save that is accepted: every other shell of the session is apart now.     *)
LEMMA RowCommitted ==
    ASSUME Honest, NEW c \in Shells, CommitRow(c)
    PROVE  Honest'
<1> USE DEF Stage, ShellRecords
<1>a. PICK s : s = shell[c].session OBVIOUS
<1>b. PICK old : old = shell[c].ledger OBVIOUS
<1>1. /\ shell[c].stage = "saving" /\ s \in SessionIds /\ old \in Ledgers /\ Tells(old, s)
      /\ records' = [records EXCEPT ![s] = {old}] /\ happened' = happened
  BY <1>a, <1>b DEF CommitRow, Honest, LedgersTyped, LedgersAreTrue
<1>2. /\ shell'[c].session = s /\ shell'[c].ledger = old /\ shell'[c].stage = "idle"
      /\ \A d \in Shells : /\ shell'[d].session = shell[d].session /\ shell'[d].ledger = shell[d].ledger
                           /\ d # c => shell'[d].stage = shell[d].stage
                           /\ d # c => (shell'[d].apart <=> shell[d].apart \/ shell[d].session = s)
      /\ shell' \in [Shells -> ShellRecords]
  <2>1. \A d \in Shells : shell[d] \in ShellRecords
    BY DEF Honest, LedgersTyped
  <2>2. shell' = [d \in Shells |->
            IF d = c THEN [shell[c] EXCEPT !.stage = "idle", !.apart = FALSE]
            ELSE [shell[d] EXCEPT !.apart = @ \/ (shell[d].session = s)]]
    BY <1>a DEF CommitRow
  <2>3. /\ shell'[c].session = s /\ shell'[c].ledger = old /\ shell'[c].stage = "idle"
        /\ shell'[c] \in ShellRecords
    BY <1>a, <1>b, <2>1, <2>2
  <2>4. ASSUME NEW d \in Shells, d # c
        PROVE  /\ shell'[d].session = shell[d].session /\ shell'[d].ledger = shell[d].ledger
               /\ shell'[d].stage = shell[d].stage
               /\ shell'[d].apart <=> shell[d].apart \/ shell[d].session = s
               /\ shell'[d] \in ShellRecords
    <3> DEFINE apart == shell[d].apart \/ shell[d].session = s
    <3>1. shell'[d] = [shell[d] EXCEPT !.apart = apart] /\ apart \in BOOLEAN
      BY <2>1, <2>2, <2>4
    <3> HIDE DEF apart
    <3>2. /\ shell'[d].session = shell[d].session /\ shell'[d].ledger = shell[d].ledger
          /\ shell'[d].stage = shell[d].stage /\ shell'[d].apart = apart
          /\ shell'[d] \in ShellRecords
      BY <2>1, <3>1
    <3> QED BY <3>2 DEF apart
  <2>5. shell' = [d \in Shells |-> shell'[d]]
    BY <2>2
  <2> QED BY <1>a, <1>b, <2>3, <2>4, <2>5
<1>3. LedgersTyped'
  BY <1>1, <1>2 DEF Honest, LedgersTyped
<1>4. \A q \in SessionIds : records'[q] = IF q = s THEN {old} ELSE records[q]
  BY <1>1 DEF Honest, LedgersTyped
<1>5. LedgersAreTrue'
  <2>1. \A l, q : Tells(l, q)' <=> Tells(l, q)
    BY <1>1 DEF Tells
  <2>2. \A q \in SessionIds : (\A a, b \in records'[q] : a = b) /\ \A row \in records'[q] : Tells(row, q)
    BY <1>1, <1>4 DEF Honest, LedgersAreTrue
  <2>3. \A d \in Shells : shell'[d].stage = "off" \/ Tells(shell'[d].ledger, shell'[d].session)
    BY <1>1, <1>2 DEF Honest, LedgersAreTrue
  <2> QED BY <2>1, <2>2, <2>3 DEF LedgersAreTrue
<1>6. NothingMissed'
  <2> SUFFICES ASSUME NEW d \in Shells, shell'[d].stage # "off", ~shell'[d].apart
               PROVE  \A row \in records'[shell'[d].session] : Remembers(shell'[d].ledger, row)
    BY DEF NothingMissed
  <2>1. CASE d = c
    BY <1>1, <1>2, <1>4, <2>1 DEF Remembers
  <2>2. CASE d # c
    <3>1. shell[d].session \in SessionIds /\ shell[d].session # s /\ ~shell[d].apart
      BY <1>2, <2>2 DEF Honest, LedgersTyped
    <3> QED BY <1>2, <1>4, <2>2, <3>1 DEF Honest, NothingMissed
  <2> QED BY <2>1, <2>2
<1> QED BY <1>3, <1>5, <1>6 DEF Honest

LEMMA LedgerStep ==
    ASSUME Honest, [LedgerNext]_ledgerVars
    PROVE  Honest'
<1>1. CASE UNCHANGED ledgerVars
  <2>1. UNCHANGED <<shell, records, happened>>
    BY <1>1 DEF ledgerVars
  <2>2. LedgersTyped'
    BY <2>1 DEF Honest, LedgersTyped, Stage
  <2>3. LedgersAreTrue'
    BY <2>1 DEF Honest, LedgersAreTrue, Stage, Tells
  <2>4. NothingMissed'
    BY <2>1 DEF Honest, NothingMissed, Stage
  <2> QED BY <2>2, <2>3, <2>4 DEF Honest
<1>2. ASSUME NEW c \in Shells, ClearShell(c) \/ CloseShell(c) PROVE Honest'
  <2>1. CASE SessionIds = {}
    <3>1. shell[c].stage = "off"
      BY <2>1 DEF Honest, LedgersTyped, Stage
    <3> QED BY <1>2, <3>1 DEF ClearShell, CloseShell, Stage
  <2>2. CASE SessionIds # {}
    BY <1>2, <2>2, SessionOfShell
  <2> QED BY <2>1, <2>2
<1>3. ASSUME NEW c \in Shells, NEW s \in SessionIds,
             (\E read \in BOOLEAN : OpenShell(c, s, read)) \/ ResumeSession(c, s)
      PROVE  Honest'
  BY <1>3, SessionOfShell
<1>4. ASSUME NEW c \in Shells, BreakOff(c) \/ SelectRow(c) \/ SaveFails(c) PROVE Honest'
  BY <1>4, TurnOver
<1>5. ASSUME NEW c \in Shells, CommitRow(c) PROVE Honest'
  BY <1>5, RowCommitted
<1>6. ASSUME NEW c \in Shells,
             (\E task \in Tasks : BeginTask(c, task)) \/ (\E file \in Paths : ChangeFile(c, file))
      PROVE  Honest'
  BY <1>6, TurnHappens
<1> QED BY <1>1, <1>2, <1>3, <1>4, <1>5, <1>6 DEF LedgerNext

LEMMA HonestFromTheStart == LedgerInit => Honest
<1> USE DEF ShellRecords
<1> SUFFICES ASSUME LedgerInit PROVE Honest OBVIOUS
<1>1. Off \in ShellRecords
  BY DEF Off, Empty, Ledgers
<1>2. \A c \in Shells : shell[c] = Off /\ Off.stage = "off"
  BY DEF LedgerInit, Off
<1>3. LedgersTyped
  BY <1>1, <1>2 DEF LedgerInit, LedgersTyped, Stage
<1>4. LedgersAreTrue /\ NothingMissed
  BY <1>2 DEF LedgerInit, LedgersAreTrue, NothingMissed, Stage
<1> QED BY <1>3, <1>4 DEF Honest

(* A session has one row at most, and neither it nor the ledger of a shell that  *)
(* has the session open tells what was asked or changed in another session,     *)
(* however shells open, resume, clear, break off and save it                    *)
(* (LedgerRepository, _resume_command).                                        *)
THEOREM LedgersTellTheTruth == LedgerSpec => []LedgersAreTrue
<1>1. Honest => LedgersAreTrue
  BY DEF Honest
<1> QED BY <1>1, HonestFromTheStart, LedgerStep, PTL DEF LedgerSpec

(* A saved row forgets its goal or a changed file only by the save of a shell    *)
(* that was cleared, could not read the row, or had opened the session before   *)
(* another shell saved it (build_session, SessionLedger.observe_user).           *)
THEOREM SavedLedgersAreKept == LedgerSpec => SavedIsKept
<1>1. ASSUME Honest, [LedgerNext]_ledgerVars, NEW c \in Shells, Stage(c, "saving"), ~shell[c].apart,
             NEW s \in SessionIds, records'[s] # records[s], shell[c].session = s, shell'[c].stage # "saving",
             NEW old \in records[s], NEW new \in records'[s]
      PROVE  old.changed \subseteq new.changed /\ old.goal \in {new.goal, Absent}
  <2>1. PICK d \in Shells : CommitRow(d)
    <3>1. LedgerNext /\ records' # records
      BY <1>1 DEF ledgerVars
    <3>2. \A d \in Shells : ~ClearShell(d) /\ ~CloseShell(d) /\ ~BreakOff(d) /\ ~SelectRow(d) /\ ~SaveFails(d)
      BY <3>1 DEF ClearShell, CloseShell, BreakOff, SelectRow, SaveFails
    <3>3. \A d, q, x : ~OpenShell(d, q, x)
      BY <3>1 DEF OpenShell
    <3>4. \A d, q : ~ResumeSession(d, q)
      BY <3>1 DEF ResumeSession
    <3>5. \A d, x : ~BeginTask(d, x) /\ ~ChangeFile(d, x)
      <4>1. \A d, x : BeginTask(d, x) => records' = records
        BY ZenonT(30) DEF BeginTask
      <4>2. \A d, x : ChangeFile(d, x) => records' = records
        BY ZenonT(30) DEF ChangeFile
      <4> QED BY <3>1, <4>1, <4>2
    <3> QED BY <3>1, <3>2, <3>3, <3>4, <3>5 DEF LedgerNext
  <2>2. d = c
    <3>1. \A q \in Shells : shell[q] \in ShellRecords
      BY <1>1 DEF Honest, LedgersTyped
    <3>2. ASSUME c # d PROVE shell'[c].stage = shell[c].stage
      <4> DEFINE apart == shell[c].apart \/ shell[c].session = shell[d].session
      <4>1. shell'[c] = [shell[c] EXCEPT !.apart = apart]
        BY <2>1, <3>2 DEF CommitRow
      <4> HIDE DEF apart
      <4> QED BY <3>1, <4>1 DEF ShellRecords
    <3> QED BY <1>1, <3>2 DEF Stage
  <2>3. new = shell[c].ledger
    BY <1>1, <2>1, <2>2 DEF CommitRow, Honest, LedgersTyped
  <2> QED BY <1>1, <2>3 DEF Honest, NothingMissed, Remembers, Stage
<1>2. Honest /\ [LedgerNext]_ledgerVars =>
        [\A c \in Shells : Stage(c, "saving") /\ ~shell[c].apart =>
          \A s \in SessionIds : records'[s] # records[s] /\ shell[c].session = s /\ shell'[c].stage # "saving" =>
              \A old \in records[s], new \in records'[s] :
                  old.changed \subseteq new.changed /\ old.goal \in {new.goal, Absent}]_ledgerVars
  BY <1>1
<1> QED BY <1>2, HonestFromTheStart, LedgerStep, PTL DEF LedgerSpec, SavedIsKept

-----------------------------------------------------------------------------
(* What runs a command. *)

(* A command's task knows what is left of it by where it is: nothing before it *)
(* is started, and no process of its group once that was killed, which it is    *)
(* on every platform but one, and there for all but a "!command". A container   *)
(* that was killed does not run again, unless the kill came before its start.  *)
Accounted ==
    /\ doing \in Doing /\ created \in BOOLEAN
    /\ processes \subseteq {"child", "group", "container"}
    /\ kind # "container" => "container" \notin processes
    /\ Does("idle") => processes = {}
    /\ Does("awaiting killer") => missed \/ (created /\ ~Runs("container"))
    /\ Does("reaping") => /\ ~Runs("child") /\ (Runs("group") => Groupless)
                          /\ missed \/ ~Runs("container")
    /\ kind = "container" => ~Runs("group")
    /\ kind \in Available
    /\ StoppedIsStopped

(* What the processes do by themselves leaves no more of them, once the child  *)
(* is gone.                                                                *)
LEMMA ProcessesAlone ==
    ASSUME Accounted,
           StartsMore \/ ContainerRuns \/ ContainerEnds \/ GroupEnds \/ ChildEnds
    PROVE  Accounted'
<1> USE CommandAssumption DEF Accounted, StoppedIsStopped, Groupless, Available, Does, Runs, Doing, Alone
<1>1. CASE StartsMore BY <1>1 DEF StartsMore
<1>2. CASE ContainerRuns BY <1>2 DEF ContainerRuns
<1>3. CASE ContainerEnds BY <1>3 DEF ContainerEnds
<1>4. CASE GroupEnds BY <1>4 DEF GroupEnds
<1>5. CASE ChildEnds BY <1>5 DEF ChildEnds
<1> QED BY <1>1, <1>2, <1>3, <1>4, <1>5

(* A command starts, ends by itself, or is followed by another.               *)
LEMMA CommandAlone ==
    ASSUME Accounted, Start \/ CannotStart \/ Finish \/ Again
    PROVE  Accounted'
<1> USE CommandAssumption DEF Accounted, StoppedIsStopped, Groupless, Available, Does, Runs, Doing
<1>1. CASE Start BY <1>1 DEF Start
<1>2. CASE CannotStart BY <1>2 DEF CannotStart
<1>3. CASE Finish BY <1>3 DEF Finish
<1>4. CASE Again BY <1>4 DEF Again
<1> QED BY <1>1, <1>2, <1>3, <1>4

(* It is stopped: by its time or by the user, again and again.                *)
LEMMA CommandStopped ==
    ASSUME Accounted, Timeout \/ Interrupt \/ Stopping
    PROVE  Accounted'
<1> USE CommandAssumption DEF Accounted, StoppedIsStopped, Groupless, Available, Does, Runs, Doing, Kill
<1>1. CASE Timeout BY <1>1 DEF Timeout, Stop
<1>2. CASE Interrupt
  <2>1. CASE Does("communicating") BY <1>2, <2>1 DEF Interrupt, Stop
  <2>2. CASE ~Does("communicating")
    <3>1. /\ doing' = "over" /\ UNCHANGED <<platform, kind, created, missed, processes>>
          /\ abandoned' = (doing \in {"calling killer", "awaiting killer"})
      BY <1>2, <2>2 DEF Interrupt
    <3>2. ~abandoned' => Does("reaping")
      BY <1>2, <2>2, <3>1 DEF Interrupt
    <3>3. StoppedIsStopped'
      BY <3>1, <3>2
    <3> QED BY <3>1, <3>3
  <2> QED BY <2>1, <2>2
<1>3. CASE CallKiller BY <1>3 DEF CallKiller
<1>4. CASE CannotKill BY <1>4 DEF CannotKill
<1>5. CASE KillerEnds BY <1>5 DEF KillerEnds
<1>6. CASE Reaped BY <1>6 DEF Reaped
<1> QED BY <1>1, <1>2, <1>3, <1>4, <1>5, <1>6 DEF Stopping

(* A command that is said to be stopped, after its time or on Esc, has left     *)
(* nothing running, unless it was interrupted again while its container was    *)
(* being killed, or that had not begun to run (run_sandboxed, _stop); of a       *)
(* "!command" on Windows the shell has left, and no more is said (_kill).       *)
THEOREM StoppedCommandsAreStopped == CommandSpec => []StoppedIsStopped
<1>1. CommandInit => Accounted
  BY DEF CommandInit, Accounted, StoppedIsStopped, Groupless, Available, Does, Runs, Doing
<1>2. Accounted /\ [CommandNext]_commandVars => Accounted'
  <2> SUFFICES ASSUME Accounted, [CommandNext]_commandVars PROVE Accounted'
    OBVIOUS
  <2>1. CASE CommandNext
    BY <2>1, ProcessesAlone, CommandAlone, CommandStopped DEF CommandNext
  <2>2. CASE UNCHANGED commandVars
    BY <2>2 DEF commandVars, Accounted, StoppedIsStopped, Groupless, Available, Does, Runs, Doing
  <2> QED BY <2>1, <2>2
<1>3. Accounted => StoppedIsStopped
  BY DEF Accounted
<1> QED BY <1>1, <1>2, <1>3, PTL DEF CommandSpec
=============================================================================
