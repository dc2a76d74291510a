---------------------------- MODULE Installation ----------------------------
(***************************************************************************)
(* The gateway as an installation on one machine: its files (config.py,      *)
(* core/db_config_store.py), the databases they point to (db/engine.py), a   *)
(* server that is started on them and goes by what it read then (cli.py      *)
(* serve, app.py), and the owner's commands, which read them anew each time  *)
(* (cli.py) and share accounts, API keys, dashboard sessions and sealed      *)
(* copies with the server (core/auth.py, core/key_vault.py, api/keys.py).    *)
(*                                                                         *)
(* A database has at most one account and one API key, the data of each      *)
(* being immaterial here. A command is one step: the steps that matter are   *)
(* those of a server that is starting, one worker at a time.                *)
(***************************************************************************)
EXTENDS Integers, FiniteSets

CONSTANTS Workers,      \* worker processes of `serve --workers`
          Databases,    \* database URLs
          DefaultDb,    \* settings.database_url
          MaxKeys,      \* bound: admin keys generated
          MaxSessions,  \* bound: dashboard sessions at a time
          MaxChanges,   \* bound: changes of the files the server has read
          Unset

Placeholder == 0    \* INSECURE_ADMIN_KEY
OwnKey      == -1   \* an admin key the owner made up
AdminKeys   == OwnKey..MaxKeys

ASSUME InstallationAssumption ==
    /\ DefaultDb \in Databases /\ Unset \notin Databases /\ Unset \notin AdminKeys
    /\ {MaxKeys, MaxSessions, MaxChanges} \subseteq Nat

VARIABLES
    files,     \* environment and env files, database.json, localgate.config.json
    made,      \* admin keys generated so far
    db,        \* the databases
    server,    \* `localgate serve`
    worker,    \* its worker processes; one unless it is multi
    sessions,  \* dashboard cookies, each with the admin key it is signed with
    changes    \* changes so far (MaxChanges)

installVars == <<files, made, db, server, worker, sessions, changes>>

NoServer == [stage |-> "down", key |-> Placeholder, open |-> FALSE, multi |-> FALSE,
             skipped |-> FALSE, changed |-> FALSE, fresh |-> TRUE]
NoWorker == [stage |-> "down", key |-> Placeholder, db |-> DefaultDb, seen |-> "none", fresh |-> TRUE]
NoKey    == [state |-> "none", sealed |-> Unset, old |-> FALSE]

(* other: LOCALGATE_ADMIN_KEY in the environment or ./.env; user: in the      *)
(* per-user env file; host: LOCALGATE_HOST is an address of the network.     *)
InstallInit ==
    /\ \E other \in {Unset, Placeholder, OwnKey}, host, production \in BOOLEAN, legacy \in (Databases \ {DefaultDb}) \union {Unset} :
          files = [other |-> other, user |-> Unset, host |-> host, production |-> production,
                   db |-> Unset, legacy |-> legacy]
    /\ db \in [Databases -> {[tables |-> t, account |-> FALSE, key |-> NoKey] : t \in {"none", "unstamped"}}]
    /\ made = 0 /\ server = NoServer /\ worker = [w \in Workers |-> NoWorker]
    /\ sessions = {} /\ changes = 0

-----------------------------------------------------------------------------
(* What a process reads in the files as they are.                           *)

KeyOf(f) == IF f.other # Unset THEN f.other ELSE IF f.user # Unset THEN f.user ELSE Placeholder
\* load_settings(), which does not accept the placeholder in production.
Loads(f) == ~(f.production /\ KeyOf(f) = Placeholder)

\* resolve_database_url(): the legacy file counts only without a path given.
CliDb    == IF files.db # Unset THEN files.db ELSE IF files.legacy # Unset THEN files.legacy ELSE DefaultDb
ServerDb == IF files.db # Unset THEN files.db ELSE DefaultDb

(* _write_admin_key and _ensure_admin_key.                                   *)
WithNewKey == [files EXCEPT !.user = made + 1]
NeedsKey   == files.other = Unset /\ files.user = Unset
Ensured    == IF NeedsKey THEN WithNewKey ELSE files
MayMake(n) == made + n <= MaxKeys /\ made' = made + n

(* init_models: an empty database gets every migration, one from before       *)
(* migrations is stamped first. What another process did since the tables     *)
(* were looked at makes the upgrade fail.                                   *)
Migrated(d)    == [db EXCEPT ![d].tables = "head"]
Collides(w)    == worker[w].seen # "head" /\ db[worker[w].db].tables # worker[w].seen

\* old: issued before the admin key was replaced; fresh: started since. A key
\* that the owner sets by hand is not an old one.
Mark(dbs, oldKey(_)) ==
    /\ sessions' = {[s EXCEPT !.old = oldKey(<<s.key, @>>)] : s \in sessions}
    /\ worker' = [w \in Workers |-> [worker[w] EXCEPT !.fresh = ~oldKey(<<worker[w].key, ~@>>)]]
    /\ db' = [d \in Databases |-> [dbs[d] EXCEPT !.key.old = dbs[d].key.sealed # Unset /\ oldKey(<<dbs[d].key.sealed, @>>)]]
    /\ changes < MaxChanges /\ changes' = changes + 1
    /\ server' = [server EXCEPT !.changed = TRUE, !.fresh = ~oldKey(<<server.key, ~@>>)]
KeyReplaced(dbs) == Mark(dbs, LAMBDA known : TRUE)
KeyStays(dbs)   == Mark(dbs, LAMBDA known : known[2] /\ known[1] # KeyOf(files'))

-----------------------------------------------------------------------------
\* variant: the address is looked up in the settings, not in what --host says
RefusesByHost(open, key) == files.host /\ key = Placeholder

(* `localgate serve`: the admin key is ensured and the settings are read; it  *)
(* does not listen on the network with the placeholder.                     *)
Refuses(open, key) == open /\ key = Placeholder
Serve(open, multi) ==
    /\ server.stage = "down" /\ MayMake(IF NeedsKey THEN 1 ELSE 0)
    /\ files' = Ensured
    /\ server' = IF Loads(Ensured) /\ ~Refuses(open, KeyOf(Ensured))
                 THEN [NoServer EXCEPT !.stage = "checked", !.key = KeyOf(Ensured),
                                       !.open = open, !.multi = multi]
                 ELSE server
    /\ UNCHANGED <<db, worker, sessions, changes>>

\* variant: without a terminal to ask in, nothing is opened
FirstAccountAfterAsking ==
    /\ server.stage = "checked"
    /\ \/ db' = [Migrated(CliDb) EXCEPT ![CliDb].account = TRUE]
       \/ UNCHANGED db
    /\ server' = [server EXCEPT !.stage = "running"]
    /\ UNCHANGED <<files, made, worker, sessions, changes>>

(* _first_account_setup: migrates, then asks for the first account if there  *)
(* is a terminal; what fails here is left for the server to report.          *)
FirstAccount ==
    /\ server.stage = "checked"
    /\ \/ \E asked \in BOOLEAN : db' = [Migrated(CliDb) EXCEPT ![CliDb].account = @ \/ asked]
          /\ server' = [server EXCEPT !.stage = "running"]
       \/ server' = [server EXCEPT !.stage = "running", !.skipped = TRUE] /\ UNCHANGED db
    /\ UNCHANGED <<files, made, worker, sessions, changes>>

(* create_app and the start of the lifespan. A worker of several reads the    *)
(* settings again, and uvicorn starts another one for one that died.         *)
WorkerKey == IF server.multi THEN KeyOf(files) ELSE server.key
CreateApp(w) ==
    /\ server.stage = "running" /\ worker[w].stage = "down"
    /\ server.multi \/ \A v \in Workers : worker[v].stage = "down"
    /\ server.multi => Loads(files)
    /\ ~Refuses(files.host, WorkerKey)
    /\ worker' = [worker EXCEPT ![w] = [stage |-> "starting", key |-> WorkerKey, db |-> ServerDb,
                                        seen |-> db[ServerDb].tables, fresh |-> server.multi \/ server.fresh]]
    /\ UNCHANGED <<files, made, db, server, sessions, changes>>

Lifespan(w) ==
    /\ worker[w].stage = "starting" /\ ~Collides(w)
    /\ db' = Migrated(worker[w].db)
    /\ worker' = [worker EXCEPT ![w].stage = "up"]
    /\ UNCHANGED <<files, made, server, sessions, changes>>

(* The database cannot be reached or migrated, create_app refuses, a process   *)
(* dies, or the server is stopped. One worker alone takes the server along.  *)
WorkerDies(w) ==
    /\ worker[w].stage # "down" /\ server.multi
    /\ worker' = [worker EXCEPT ![w] = NoWorker]
    /\ UNCHANGED <<files, made, db, server, sessions, changes>>
Stop ==
    /\ server.stage # "down"
    /\ server' = NoServer /\ worker' = [w \in Workers |-> NoWorker]
    /\ UNCHANGED <<files, made, db, sessions, changes>>

-----------------------------------------------------------------------------
\* variant: the user's file is rewritten whatever takes precedence over it
RotatesAnyway == TRUE

(* What the owner does to the files the server has read: `admin-key --rotate` *)
(* and `init --force`, an edit of ./.env, `db set-url` and the dashboard's    *)
(* database page, which save a URL that could be connected to.              *)
Rotates == files.other = Unset
Rotate ==
    /\ Rotates /\ MayMake(1) /\ files' = WithNewKey /\ KeyReplaced(db)
InitForce ==
    /\ MayMake(1) /\ files' = WithNewKey
    /\ \E dbs \in {db} \union (IF Loads(files') THEN {Migrated(CliDb)} ELSE {}) :
          IF files.other = Unset THEN KeyReplaced(dbs) ELSE KeyStays(dbs)
EditEnv(key) ==
    /\ key # files.other /\ files' = [files EXCEPT !.other = key]
    /\ KeyStays(db) /\ UNCHANGED made
SaveUrl(d) ==
    /\ files.db # d /\ files' = [files EXCEPT !.db = d]
    /\ KeyStays(db) /\ UNCHANGED made
Accepts(w, s) == worker[w].stage = "up" /\ s.key = worker[w].key
DbSetUrl(d) == Loads(files) /\ SaveUrl(d)
UpdateDatabaseUrl(d) == (\E w \in Workers, s \in sessions : Accepts(w, s)) /\ SaveUrl(d)

(* Commands on the database: `init`, `db upgrade`, `users create` and         *)
(* `delete`, `keys create` and `revoke`. Those that create migrate first.     *)
Data == UNCHANGED <<files, made, server, worker, sessions, changes>>
InitCommand ==
    /\ MayMake(IF NeedsKey THEN 1 ELSE 0) /\ files' = Ensured /\ Loads(Ensured)
    /\ db' = Migrated(CliDb) /\ UNCHANGED <<server, worker, sessions, changes>>
DbUpgrade == Loads(files) /\ db' = Migrated(CliDb) /\ Data
UsersCreate == Loads(files) /\ ~db[CliDb].account
               /\ db' = [Migrated(CliDb) EXCEPT ![CliDb].account = TRUE] /\ Data
UsersDelete == Loads(files) /\ db[CliDb].account /\ db' = [db EXCEPT ![CliDb].account = FALSE] /\ Data

\* A copy sealed with the admin key is kept, unless that is the placeholder.
Sealed(key) == [state |-> "active", sealed |-> IF key = Placeholder THEN Unset ELSE key, old |-> FALSE]
KeysCreate == Loads(files) /\ db[CliDb].key.state = "none"
              /\ db' = [Migrated(CliDb) EXCEPT ![CliDb].key = Sealed(KeyOf(files))] /\ Data
Revoked(d) == db[d].key.state = "active" /\ db' = [db EXCEPT ![d].key = [NoKey EXCEPT !.state = "revoked"]] /\ Data
\* A revoked key is not revealed: what is kept of its copy no longer matters.
KeysRevoke == Loads(files) /\ Revoked(CliDb)

(* The dashboard: signing in, with an account or the admin key, and what a    *)
(* session may do. Signing out and deleting an account leave tokens valid,    *)
(* which end by their expiry.                                               *)
SignIn(w) ==
    /\ worker[w].stage = "up" /\ Cardinality(sessions) < MaxSessions
    /\ sessions' = sessions \union {[key |-> worker[w].key, old |-> ~worker[w].fresh]}
    /\ UNCHANGED <<files, made, db, server, worker, changes>>
SessionExpires(s) ==
    /\ sessions' = sessions \ {s}
    /\ UNCHANGED <<files, made, db, server, worker, changes>>
CreateKey(w) ==
    /\ \E s \in sessions : Accepts(w, s)
    /\ db[worker[w].db].key.state = "none"
    /\ db' = [db EXCEPT ![worker[w].db].key = [Sealed(worker[w].key) EXCEPT
                            !.old = worker[w].key # Placeholder /\ ~worker[w].fresh]]
    /\ Data
RevokeKey(w) == (\E s \in sessions : Accepts(w, s)) /\ Revoked(worker[w].db)

Reveals(w) == LET row == db[worker[w].db].key
              IN worker[w].stage = "up" /\ row.state = "active" /\ row.sealed = worker[w].key

InstallNext ==
    \/ \E open, multi \in BOOLEAN : Serve(open, multi)
    \/ FirstAccount \/ Stop
    \/ \E w \in Workers : \/ CreateApp(w) \/ Lifespan(w) \/ WorkerDies(w)
                          \/ SignIn(w) \/ CreateKey(w) \/ RevokeKey(w)
    \/ Rotate \/ InitForce \/ \E key \in {Unset, Placeholder, OwnKey} : EditEnv(key)
    \/ \E d \in Databases : DbSetUrl(d) \/ UpdateDatabaseUrl(d)
    \/ InitCommand \/ DbUpgrade \/ UsersCreate \/ UsersDelete \/ KeysCreate \/ KeysRevoke
    \/ \E s \in sessions : SessionExpires(s)

InstallSpec == InstallInit /\ [][InstallNext]_installVars
-----------------------------------------------------------------------------
(* Properties. *)

InstallTypeOK ==
    /\ files.other \in {Unset, Placeholder, OwnKey} /\ files.user \in {Unset} \union 1..made
    /\ {files.db, files.legacy} \subseteq Databases \union {Unset}
    /\ made \in 0..MaxKeys /\ changes \in 0..MaxChanges
    /\ server.stage \in {"down", "checked", "running"} /\ server.key \in AdminKeys
    /\ \A w \in Workers : worker[w].stage \in {"down", "starting", "up"} /\ worker[w].db \in Databases
    /\ \A s \in sessions : s.key \in AdminKeys

(* What serve has looked at stays true of what it serves: no worker answers    *)
(* the network with the placeholder as admin key, unless the owner changed    *)
(* the files under the running server (serve, create_app).                  *)
NeverOpenWithPlaceholder ==
    server.open /\ ~server.changed => \A w \in Workers : worker[w].stage = "up" => worker[w].key # Placeholder

(* The workers of a server that start together never migrate a database      *)
(* against each other or against a command: it was migrated before, unless    *)
(* that failed, the files changed since, or only the legacy file names a     *)
(* database, which serve's own process reads and the workers do not           *)
(* (_first_account_setup, init_models).                                     *)
LegacyOnly == files.db = Unset /\ files.legacy # Unset
NoCollision ==
    (\E w \in Workers : worker[w].stage = "starting" /\ Collides(w))
        => server.skipped \/ server.changed \/ LegacyOnly

(* Once the admin key is replaced and the server restarted, nothing made     *)
(* under the old one is of use: no session from before is accepted and no     *)
(* sealed copy from before is revealed (admin-key --rotate, require_admin,    *)
(* unseal), as long as the owner sets no older key by hand.                 *)
OldSecretsAreDead ==
    \A w \in Workers : worker[w].fresh =>
        /\ \A s \in sessions : s.old => ~Accepts(w, s)
        /\ db[worker[w].db].key.old => ~Reveals(w)

(* The claim of cli.py:172, that a command opens the same database the server *)
(* would use. It does not where only localgate.config.json names one.        *)
CommandsUseTheServersDatabase ==
    ~server.changed => \A w \in Workers : worker[w].stage = "up" => worker[w].db = CliDb
=============================================================================
