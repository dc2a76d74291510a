# Verification of localgate

localgate is a gateway in front of local language-model servers: it gives
devices API keys, queues their requests fairly for the GPU, fails over between
backends, streams replies, bills tokens, can open an internet address for
itself, and brings a coding agent that works through it. This directory holds
TLA+ models of the parts of it in which several things happen at once or a long
sequence of legal steps could end somewhere illegal, the TLC runs that check
them on small instances, and proofs, checked by TLAPS, that the main invariants
hold for every instance.

Paths below are relative to the repository; `scheduler.py` stands for
`src/localgate/core/scheduler.py`, `chat.py` for `src/localgate/api/chat.py`,
and so on.

## 1. The system

The gateway is one asyncio process per worker. A request is a task; tasks switch
only at an `await`. Threads appear in two places (opening the tunnel, running an
agent tool), other processes in four more (several workers sharing limits through
Redis, `cloudflared`, commands of the agent, and several commands of one user or
owner that share files and a database).

| Component | State it keeps | Operations | Talks to | Hard behaviours | What makes it correct | Module |
|---|---|---|---|---|---|---|
| Inference scheduler (`core/scheduler.py`), one per backend | free slots, per-key counts, queues, round-robin order | acquire, release, timeout, cancellation | chat and the other API handlers | a grant racing a timeout or a hang-up; fairness; lost wake-ups | no slot lost or duplicated, limits kept, no starvation | `Scheduler` |
| Chat turn (`api/chat.py`, `core/streaming.py`) | the lease, the text so far, pending background writes | acquire, stream or call, fail over, cache, record | scheduler, backends, cache, database, Starlette | a client that hangs up at any `await` or `yield`; failover inside a stream | every slot comes back, each reply is billed once | `ChatTurn` |
| Pool and model details (`core/backend_pool.py`, `core/model_info.py`) | lists of models, windows | route, apply_default_num_ctx | backends | lists and details that are old when used, answers out of order | requests go to who serves the model, with a window that fits | `Routing` |
| Transports (`backends/*`) | the stream being read | chat, chat_stream | HTTP servers, the agent | frames cut anywhere, two protocols | the streamed reply is the whole one | `Replies` |
| Shared limits (`core/shared_limits.py`) | one Redis counter per key, with expiry | try_acquire, release | Redis, scheduler | several commands per operation, crashes, expiry | the counter matches the leases | `RedisLeases` |
| Internet tunnel (`core/tunnel.py`, `api/share.py`) | current tunnel, starting, error | start, stop, adopt, shutdown | a thread, `cloudflared`, the Share page | switching during an opening, dying processes | no process forgotten, the switch means what it says | `Tunnel` |
| Keys, limits and quotas (`api/deps.py`, `core/key_policy.py`, `core/rate_limiter.py`) | hits of a window; usage in the database | authenticate, allow, enforce, record | database | quota checked before and billed after; sweeps and window edges | limits kept, overrun only together | `Gateway` |
| Prompt cache (`core/cache.py`) | LRU with expiry | get, set | chat | order of eviction, expiry, keys | only replies to the same question of the same key | `Gateway` |
| Conversation memory (`memory/*`, `db/repositories/conversations.py`) | messages, rolling summaries | record a turn, summarize, recall | backend, database | turns of one session that end together | no summary loses what an earlier one told | `Memory` |
| Installation (`config.py`, `cli.py`, `app.py`, `core/auth.py`, `core/key_vault.py`, `db/engine.py`) | env files, database addresses, databases, sessions, sealed keys | serve, init, admin-key, db, users, keys, the dashboard | files, databases, worker processes | each process reads at its own time; rotation; migrations | never open with the placeholder, old secrets dead | `Installation` |
| Agent: files and the gate (`agent/loop.py`, `tools.py`, `repl.py`) | files seen, checkpoints, modes | read, write, edit, rewind, sub-agents | file system, user | late threads, stale views, interruptions | no blind overwrite, rewinding restores | `AgentWrites` |
| Agent: conversation (`agent/context.py`, `loop.py`, `repl.py`) | messages, ledger, typed-ahead lines | turn, compaction, salvage, interrupt, resume | gateway, memory | compaction under a turn, cut turns | the history stays valid, the task in sight | `Conversation` |
| Agent: ledger row (`db/repositories/ledgers.py`, `agent/memory.py`) | one row per session | load, save | database | two shells of one session, failures | a ledger tells the truth and is kept | `Ledger` |
| Agent: commands (`agent/sandbox.py`, `agent/shell.py`) | processes, a container | run, time out, interrupt | Docker, the kernel | ends by another command, which may fail | what is said to be stopped is stopped | `Commands` |
| User's machine (`gateway_client.py`, `agent/memory.py`, `repl.py`, `cli.py`) | saved gateway, session index | code, login, logout, /connect | gateways | several shells, crashes between writes | a key goes home, a shell finds its session | `Workstation` |
| Web search (`web/*`) | cache of results | search, fetch, research | providers, sites | redirects, failing providers, expiry | recent answers, only checked hosts | `WebSearch` |
| Voice, dashboard, discovery in the network, MCP, bench | | | | | | |

How they interact: a chat request passes the dependencies (key, network, rate,
quota: `Gateway`), asks the pool for backends and their windows (`Routing`),
acquires a slot of the first one's scheduler (`Scheduler`; through Redis first,
when the key has a limit and Redis is configured: `RedisLeases`), and holds the
resulting `Lease` while it talks to the backend (`ChatTurn`, `Replies`). Every
exit path releases the lease, and `Lease.release` is idempotent for that reason.
A finished turn is cached, then recorded (history, summaries, usage: `Gateway`,
`Memory`). An admin's edit of a key is seen by the key's next request only. The
agent sees the gateway as one more backend; a turn (`Conversation`) calls tools
(`AgentWrites`, `Commands`, `WebSearch`), and its shell keeps what is left in the
database and the project (`Ledger`, `Workstation`).

`PROJECT.json` lists all components with their status, and under `hazards` the
places in the code that a test would hardly reach, with the properties that
cover each.

## 2. The modules

| Module | Role | Proofs | Instance |
|---|---|---|---|
| `SlotPool` | abstract specification: what a backend's queue promises | | |
| `Scheduler` | implements `SlotPool` (`RefinesPool`, `QueueImplementsPool`) | `SchedulerProofs` | `MCPool`, `MCScheduler` |
| `Routing` | the pool before the queues | `SchedulerProofs` | `MCPool` |
| `ChatTurn` | uses backends as `SlotPool` promises them | `ChatTurnProofs` | `MCChatTurn`, `MCTunnel` |
| `Workstation`, `Ledger`, `Commands` | the machine of a user | `WorkstationProofs` | `MCChatTurn`, `MCWorkstation` |
| `RedisLeases`, `Tunnel`, `Replies` | what the gateway has outside | `RedisLeasesProofs`, `TunnelProofs`, `ChatTurnProofs` | `MCTunnel`, `MCRedisLeases` |
| `AgentWrites`, `WebSearch` | the tools of the agent | `AgentWritesProofs` | `MCAgentWrites` |
| `Conversation`, `Installation` | the two long-lived commands, `code` and `serve` | `CommandLineProofs` | `MCConversation`, `MCInstallation` |
| `Gateway`, `Memory` | a request around its inference | `GatewayProofs` | `MCGateway` |

Several instances hold more than one module. Those modules share no state, so a
behavior of their conjunction is an interleaving of theirs and shows nothing that
they do not show alone, while its states would multiply. A variable (`part`, `tool`)
therefore chooses one of them in the initial state, and the others stay as they
started; the properties of all of them are checked of every behavior. What really
interacts is in one module, or joined by what one promises the other (`SlotPool`).

Definitions marked *variant* are plausible slips of a change to the code (a
dropped reset, `<=` for `<`, a missing release). No specification uses them. For
each property of a passing run, `PROJECT.json` (`mutants`) names the variant that,
put in place of the definition below it, makes TLC find the property violated:
that is the evidence that the property can fail.

### Scheduler

`pc` is where each request's task is; `waiting`, `turns`, `active`,
`activeByKey` are `_waiting`, `_turns`, `_active`, `_active_by_key`; `asked` is
the `per_key_limit` in a `_Waiter`, read when the request was made. A future that
has its result while its task has not run since is the place `granted`: that is
the instant in which timeouts and cancellations are dangerous, and the four
actions `Timeout*` and `Cancel*` are the branches of `_acquire_local`'s two
`except` clauses.

`_dispatch` is a loop in a synchronous stretch. The model takes one step per
grant (`DispatchGrant`) and one for leaving the loop (`DispatchEnd`);
`dispatching` disables everything else meanwhile, so the stretch is as atomic as
it is in the event loop. `RotatedLemma` and `TurnsAfter` describe the deque after
the rotations; rotating over a whole round without a grant changes nothing, so
the end of the loop leaves `turns` alone. The branch that drops a key whose queue
has vanished is unreachable by `TurnsAreTheWaitingKeys` and not modelled.

### ChatTurn

One `pc` place per `await` or `yield` at which the turn can be suspended. `held`
is the set of unreleased leases, so that holding two at once can be expressed.
`gone` is the client's hang-up; the `Cut*` actions are what Starlette's
`StreamingResponse` then does, which depends on where the generator is: not
started (only the `BackgroundTask` frees the slot), inside an `await` (unwound by
the cancellation), at a `yield` (left behind, closed later by the event loop:
`Finalise`), or inside the final `record()` (cancelled there). Starlette and
asyncio are not part of the repository; these four cases are modelled from how
`chat.py` relies on them and are marked external. The gateway's middleware are
`BaseHTTPMiddleware`s, which hand the disconnect through to the inner response.
A `ServiceBusyError` may come at any moment a slot is asked for (`RefuseSlot`).

An answer without text is cached by the unstreamed path and not by the streamed
one; the model keeps that difference (`Answer`, `DoneSent`).

### RedisLeases

Each Redis command is atomic; each operation of `RedisKeyLeases` is several
commands, hence several places per task. `entry` distinguishes an absent counter
from one without and one with a time to live, `age` counts ticks since `EXPIRE`.
`Vanish` is a crash or a cancellation inside `try_acquire`; `lost` counts INCRs
in the counter that nobody will undo.

### Tunnel

An opening is a task of the event loop (`_open`), a thread (`_open_blocking`)
and a process. `thread` says where the thread is, `process` whether its
`cloudflared` runs. `wanted` is what the switch was last set to, which the code
writes to its audit log only. `Shutdown` is the end of `app.py`'s lifespan;
`LoopEnds` the end of the event loop, after which a thread's result is dropped.

### AgentWrites

The coding agent as far as it changes files. A call to a tool passes the session's
rules (`LimitReached`, `NeedsRead`, `Known`, an edit's preview), then the gate
(`Queue`, `AutoApprove`, `Ask` with `Approve` or `Decline`), then runs in a
thread (`Execute`), and only then does the session hear of it (`FinishRead`,
`FinishWrite`). `call` is the call under way; `late` holds the writes whose
call timed out, was interrupted or belonged to a cancelled sub-agent, while
their thread goes on (`LateWrite`). A question to the user blocks the event
loop, so nothing of the agent happens between `Ask` and the answer, though other
programs and late threads go on. What the model asks for and what the user
answers is arbitrary.

A file is a function from its parts to their text, or `NoFile`. With two parts,
an edit and the reading of one page concern one of them, a rewrite both. `seen`
holds contents where the code holds their hashes. `readPaths`, `seen`,
`rewrites` and `answers` are `_read_paths`, `_seen`, `_task_rewrites` and
`_seen_results`, one for the main session and one for the sub-agent it may
start, whose session is dropped when it ends. `mode`, `pending` and
`checkpoints` belong to the gate.

Four variables are history. `unseen` is what a session has really not seen of a
file. `window` is what the file held from the moment the main session last
looked at it to the end of that turn: the code deliberately lets a file count as
known for the whole turn. `base` is what each file would be without the agent;
`spoiled` are the files for which the checkpoints cannot know that any more,
because somebody changed them after the agent did, or while the user was being
asked, because a late thread wrote after their checkpoints were used up, or
because an undo failed.

### Routing

`listed` is what `_discovered` and `_discovered_at` of each `PooledBackend` say of
the one model there is, `details` the entries of `ModelInfoCache`. A request
passes the backends one by one (`Consider`, `ListModels`); with more than one
member, each is asked for its list if that is due, which is an await, so two
requests may ask the same backend and the older answer may land last.
`ListFails` is an HTTP error, after which the old list is kept; `ListBreaks` any
other exception, which ends the request. A failed first discovery keeps an empty
list for a minute. `Orders` is any order by load. The window is chosen once, by
the first target, and kept over a failover: `WindowsFit` says exactly which
requests it fits. `disturbed` is history: when a backend last changed.

### Replies

One reply, which its server cuts into frames at will (`Frames`), of which each
carries some tokens and fragments of calls. Ollama sends calls whole and without
numbers, which `Number` gives them over all frames of the stream (`tool_index`);
OpenAI's protocol numbers them itself. `Collect` is what `_stream_completion`
of the agent does with a chunk, `FromNativeResponse` and `FinishReason` what the
unstreamed path of the same backend makes of the same reply.
No two fragments of one frame have the same number, so the order they are joined in
does not matter; the calls are taken in the order of their numbers at the end
(`Message`).

### Gateway

One step for each stretch between two awaits of a request: `Arrive` (key, rate),
`Accept` or `Reject` (model, quota), `Recallable` (the history it will be answered
with), `LookUp` (the cache), `Answer`, `Record`. `hits` and `calls` are the
limiter's deques and its counter of calls between sweeps, `entries` the
`OrderedDict` of the cache. Completions, embeddings (`AnswerPlain`) and voice
(`Voice`) take the same path with their own omissions: voice checks no quota and
bills nothing. `RecordFails` is an exception of the memory that is no HTTP error,
after which nobody bills (`broken`).

### Memory

The messages of turns of one session and the rolling summary, with one step for
every database call and the model's writing in between. A message is its
`created_at`, which is taken before its INSERT: `late` marks one that was
committed after a later one, which `messages_after` will never return to a
summary that has passed it. That is the only exception `SummariesKeepThePast`
makes.

### Installation

Four sources may set the admin key (`other` is the environment and `./.env`, `user`
the per-user file), three the database. Every command reads them anew (`CliDb`,
`KeyOf`); a server reads them in its own process when it is started (`Serve`,
`FirstAccount`) and again in each worker (`CreateApp`), which migrates what it
finds (`Lifespan`: looking and migrating are two steps). Cryptography is an
assumption: a session or a sealed copy is the admin key it was made with. `old`
and `fresh` are history: made before a rotation, started after one.

### Workstation, Ledger, Commands

`Workstation` is the user's files, with one step for each access: the saved gateway,
`.localgate/sessions.json` and `.localgate/session_id`, written in place, and the
key row under which history is kept. `Crash` may hit between any two. `left`,
`cut`, `met` and `clash` are history: `cut` says that the URL and the key on disk may
be of two gateways, because of a save that was cut short or met another, and `met`
which processes may have got such a mixture. A save that is alone with the files ends
`cut`.

`Ledger` is the row of a session and the ledgers of the shells that have it open.
`SelectRow` and `CommitRow` are the two halves of a save, each of which may fail.
`happened` is what was really asked and changed.

`Commands` is one command in a container, a sandbox or a shell: `Stop` is a
timeout's path, `Interrupt` the cancellation of whatever is awaited, which may come
again while the first one is being handled (`abandoned`). `platform` is what the code
asks of `sys.platform`: on Windows there are no process groups, so that `Kill` reaches
the child only, and no `sandbox-exec` or `bwrap` (`Available`).

### Conversation

A message is its role, the calls it makes, its size and the requests it still
shows. `Steps` and `Fold` are `ContextManager.compact`: tool results elided before the
last exchange, long assistant texts shortened, then everything before the tail
folded into one pair. `Replies` are the forms a reply takes (calls, text, an announcement, a
described call that can be salvaged), and each action of the loop takes one of
them with everything that follows up to the next request. The shell (`phase`) runs
queued lines, interrupts, clears, compacts, resumes. `excused` marks the two ways in
which the code does leave a call without its results: an interruption after
the history was compacted under the turn (`repl.py:1410`) and a sub-agent whose
backend fails (`loop.py:1740`).

### WebSearch

`Search` starts at the cache, `Skip`, `Finds`, `FindsNothing` and `GivesUp` go along the
chain of providers; a page is looked up, checked, asked for its `robots.txt`
and downloaded, each an await, and starts over for each redirect. `reached` is
history. A host is private or not: addresses that change between the look-up and
the connection are not modelled.

## 3. The runs

| Run | Instance | Shows |
|---|---|---|
| `sched` | 6 requests of 3 keys (one key limited to one at a time), 2 slots, 3 queue places; 2 requests for one model at 2 backends of different kinds | `SlotsConserved`, `CapacityKept`, `NoNeedlessWait`, `NoOvertaking`; `RoutedByWhatIsServed`, `WindowsFit` |
| `sched_live` | 4 requests of 2 keys, 1 slot, 2 queue places | `NoStarvation`; `RefinesPool`: the queue implements `SlotPool`, fairness included |
| `sched_edited` | an admin changes a key's limit between its requests | violates `HeadsServed`, finding 1 |
| `chat` | 2 streams and 1 call, 2 backends with 1 slot each; 2 commands of a user with 2 gateways; 2 shells with 2 sessions; 1 command, on POSIX or Windows | `SlotsFollowTheTurn`, `BilledOnce`, `OnlyRecordingIsCutUnbilled`; `KeyGoesHome`, `PicksUpWhereLeft`; `LedgersAreTrue`, `SavedIsKept`; `StoppedIsStopped` |
| `chat_billing` | the turns of `chat` | violates `RepliesAreBilled`, finding 2 |
| `leases_crash` | 2 requests, limit 1, 1 lost lease | violates `NotStranded`, finding 3 |
| `tunnel` | 3 openings; 4 requests of a key in any workers; 2 streams with failover; one reply of up to 3 calls | `NoForgottenProcess`, `OpeningEnds`, `OffStaysOff`; `NeverOverstated`, `OverrunIsForgotten`; `TurnsEnd`; `StreamedAsWhole` |
| `agent` | 1 file of 2 parts with 2 texts, 4 messages and calls, 1 mishap; a chat and an agent that search for the same | `RewindRestores`, `ForeignWorkIsReadFirst`, `RefusedForUnseenOnly`; `AnswersAreRecent`, `OnlyCheckedHostsAreReached` |
| `conversation` | 2 requests, 3 replies and commands, compaction at 6 messages; 2 workers, 2 databases | `ResultsFollowTheirCalls`, `RequestInSight`, `CompactsAllButTheFresh`, `TypedAheadIsRun`; `NeverOpenWithPlaceholder`, `NoCollision`, `OldSecretsAreDead` |
| `gateway` | 3 requests of 2 keys, limit 1, quota of one exchange, 1 edit; 3 turns of one session | `RateKept`, `OverrunOnlyTogether`, `CachedRepliesFit`, `RepliesAreBilled`; `SummariesKeepThePast` |
| `database` | a legacy settings file | violates `CommandsUseTheServersDatabase`, finding 4 |
| `connect` | a shell that connects to a gateway | violates `MemoryIsNoPrecondition`, finding 5 |

The type invariants of `Scheduler`, `AgentWrites`, `Tunnel` and `RedisLeases`, and
the invariants about the scheduler's queues, are proved (section 5) and no longer
run; those of the other modules were checked while the modules were written and
document what their variables hold.

### Bounds, and why they are enough

- *Scheduler*: with two slots, six requests and three queue places, three keys wait
  at once while both slots are out, one key has two waiters, the queue is full, and
  a key is passed over for being at its own limit. A third slot or a fourth key
  adds no new relation between the counters, the queues and the turns; the
  theorems cover every size. The temporal run has one slot, so that the
  two keys contend for it and the queue is full.
- *Routing*: two backends, one that takes options and one that does not, give both
  kinds of failover; two requests let an old answer overtake a new one. Four ticks
  are twice the lifetime of a list, and one disturbance is a change or a failure.
- *ChatTurn*: one slot per backend makes every failover meet a queue; two backends
  give both directions, three requests give one bystander. `MaxText = 1`
  distinguishes a reply with text from one without, which is all the code asks.
  Streams, backends, commands, gateways and sessions are symmetric; the run with
  the temporal property uses no symmetry.
- *Workstation*: two processes, of which both are at the files of the user or both
  at those of the project, or one at both (`Focus`). `MaxSessions = 2` and
  `MaxOwners = 2` are one more than a project needs, `MaxCrashes = 1` cuts one write;
  what a second one does is a matter of the proof.
- *Commands*: one command at a time, in each of the three ways and on both platforms,
  over and over; it starts one other process in the background.
- *Ledger*: two shells, two sessions, two tasks and one file: every way in which a
  shell can have the ledger of another session, or an older one of its own.
- *RedisLeases*: a fourth task is needed for a DECR, its DEL and two INCRs to overlap.
  `Ttl = 2` separates "renewed in time" from "expired"; `MaxLost` bounds crashes.
- *Tunnel*: three openings are one more than two that overlap or follow one another.
- *Replies*: two tokens and three calls, one of them in two fragments, in every
  division into frames: more than one call in a frame and a call over several.
- *AgentWrites*: no rule of the code relates two files except the order of the
  checkpoints, so one file is enough for TLC, and the proofs cover any number.
  `MaxCalls = 4` gives a message and three calls, or two turns of one call each:
  read, rewrite and edit again, two checkpoints of one file, a sub-agent that
  writes. `MaxMishaps = 1` allows one change by others, time-out, failure,
  interruption or mode switch; `Proposed` are the two files the model writes, each
  with the same text in both parts.
- *WebSearch*: two providers, a result of two pages, one redirect, a cache of one
  entry: entries expire, are refreshed and are read in the tick in which they end.
- *Conversation*: `KeepRecent = 3` is shorter than a reply with two calls and what
  follows it, and the threshold of six is met in the second exchange, so that the
  tail begins inside an exchange and a chain is compacted under its request. With
  two requests one line at most is typed ahead: that several keep their order is a
  matter of the proof (`LinesTypedAheadAreRun`).
- *Installation*: two workers, two databases, two generated keys, one change while
  a server runs. The databases start equally old, and only a server that the
  network reaches is in production (`PartsInit`).
- *Gateway*: limit and quota of one request, a window of two ticks and sweeps after
  every second call put each request on an edge. *Memory*: three turns against a
  threshold of three messages make at least two of them summarize.

`CHECK_DEADLOCK FALSE` is set where the system may really stop: requests may all be
over, a server down, a shell closed, a clock at its bound. `Scheduler` and
`RedisLeases` never stop, and `sched_live` and `leases_crash` check that.

### Fairness, and why the code justifies it

- *Scheduler*: the event loop runs what is ready (`Dispatch`, `Resume`), and
  holders release. Releasing is an assumption about backends and clients:
  every exit path of the handlers releases, but `backend_timeout` bounds one read
  of an answer rather than the whole, and nothing bounds a client that keeps its
  connection open without reading. Strong fairness is used because these actions
  are disabled while another handler's `_dispatch` runs. Timeouts and hang-ups
  are never assumed: the queue serves everybody without them.
- *ChatTurn*: replies end, clients read or hang up (the same assumptions), and a
  slot that keeps becoming free is granted in the end, which is `NoStarvation` of
  the scheduler. No queue timeout is assumed.
- *RedisLeases*: time passes, due commands are sent, requests end, and clients
  keep asking (weak fairness of each).
- *Tunnel*: threads go on, since downloads and the wait for the address have
  timeouts, and the loop resumes a task whose thread is done. Nothing is assumed
  of the user or of `cloudflared`.
- The other modules are about safety and assume none.

## 4. Disagreements between the code and what it says

Each of the first five is a run in which TLC finds a property violated that a
comment or a document of the repository states.

1. **A waiter that leaves wakes nobody** (`sched_edited`, `scheduler.py:238`). Limits
   can be changed while requests wait (`docs/sharing.md:92`), so a waiter with an old
   limit of 1 may stand before one with the new limit 2. When the first times out
   or hangs up, `_forget` does not call `_dispatch`, and the second waits beside a
   free slot until somebody else comes or goes.
2. **A finished reply can go unbilled** (`chat_billing`, `chat.py:423`). After `DONE`
   the generator awaits `record()` in the task that a disconnect cancels, with
   `finished` set and the `finally` block past. `OnlyRecordingIsCutUnbilled` shows
   that this is the only way.
3. **Polling keeps a crashed lease alive** (`leases_crash`, `shared_limits.py:82`).
   Refused attempts renew the time to live, so the counter never expires while
   the key's clients keep asking.
4. **Commands and the server open different databases** (`database`, `app.py:140`)
   when only the legacy `localgate.config.json` names one: the server passes an
   explicit path, for which there is no fallback.
5. **`/connect` closes the backend the memory embeds with** (`connect`,
   `repl.py:949`). The next turn dies of a `RuntimeError` which `augment` does not catch.

Other behaviour that the models show, and that the properties therefore except by
name:

- A DEL by one worker can wipe the INCR of another (`shared_limits.py:90`), and the key
  passes its limit by as many: `OverrunIsForgotten` bounds it by what was wiped. The
  counter errs in one direction only, `NeverOverstated`.
- Switching off does not cancel an opening under way (`tunnel.py:219`): its address
  appears after it. `OffStaysOff` says that this is the only one that can, and that
  there is one at most.
- On Windows, Esc on a `!command` kills the shell that runs it (`shell.py:61`), and what
  that has started goes on, although the docstring of `run_shell` (`shell.py:29`) says
  that it "kills the whole process group". `StoppedIsStopped` excepts what is left of a
  `!command` there (`Groupless`), and nothing else.
- An edit of a file the model never read makes the whole file count as known
  (`loop.py:1662`); a repeated call is told that "no file has changed since" when a
  sub-agent, a command or another program changed one (`loop.py:1449`).
- A message committed after one of a later time is never summarized.
- A rotated admin key is in force after a restart only; `cli.py:725` and
  `docs/api-reference.md:290` can be read as saying at once. `init --force` rewrites
  the per-user env file also when another source takes precedence.
- Two overlapping or cut saves of the gateway can leave one's URL with the
  other's key, until the next save that nothing interferes with. A torn `sessions.json` loses the older sessions. Two saves of the
  index in a row that are cut short lose where the project was: the first may leave
  no marker and the second no index (`memory.py:95`). Proving `PicksUpWhereLeft` for
  any number of crashes is what brought that to light.
- Compaction that kept one recent message only could cut results the model has
  not seen: a note the loop adds after them would be the whole tail. The code keeps
  eight (`context.py:36`), and `CompactionSparesTheFresh` assumes more than one.
- A cached reply comes without the citations and tool calls of the first
  (`chat.py:157`).
- One result with an address that cannot be parsed discards all sources of a
  request, although `_web_sources` says "Never raises"; a chain in which some
  providers fail and the others find nothing caches "No results".
- A ledger misses what plan mode and sub-agents write, and `/undo` is not taken out
  of it. A first load that fails and a later save lose the row, and of two shells that
  have one session open, one writes over what the other has saved (`SavedIsKept` excepts
  both).
- A second Esc while a container is being killed leaves it running
  (`sandbox.py:307`), as does a kill that comes before it exists; `docker kill` is awaited
  without a timeout.
- Voice requests have no quota and are not billed.
- A context window is chosen for the first target only (`WindowsFit`); a failed
  look-up of it is remembered for five minutes.
- A frame that is no JSON is skipped unnoticed (`spoiled`), and so is an error inside an
  OpenAI-compatible stream.

## 5. What is proved

With TLAPS, for every value of the constants, from the constant assumptions stated
in each module (finite sets of requests, positive capacities, limits that are
naturals):

- `SchedulerProofs`: `TypeCorrect`, `SlotsAreConserved`, `CapacityIsKept`,
  `NobodyIsLost`, `EveryWaitingKeyHasATurn`, `NobodyIsOvertaken`,
  `QueueImplementsPool`; and, while no key's limit is edited (`LimitsStay`),
  `NobodyWaitsNeedlessly`; `RequestsGoWhereTheModelIs` and `WindowsAreFitting` of
  `Routing`.
- `ChatTurnProofs`: `SlotsGoBack`, `TurnsAreBilledOnce`, `OnlyTheRecordingIsLost`;
  `StreamsAreWhole` of `Replies`.
- `GatewayProofs`: `TheRateIsKept`, `OverrunNeedsARace`, `TheCacheFits`,
  `RepliesHaveTheirRecord`; `NothingIsForgotten` of `Memory`.
- `RedisLeasesProofs`: `CounterNeverOverstates`, `OverrunsAreForgottenLeases`.
- `TunnelProofs`: `TunnelTypeCorrect`, `NoProcessIsForgotten`, `OffIsFinal`.
- `AgentWritesProofs`: `AgentTypeCorrect`, `RewindingRestores`,
  `ForeignWorkIsLookedAt`, `RefusalsAreForUnseen`; `AnswersStayRecent` and
  `PrivateHostsAreLeftAlone` of `WebSearch`.
- `CommandLineProofs`: `ResultsStayWithTheirCalls`, `RequestsStayInSight`,
  `LinesTypedAheadAreRun` and, if more than one recent message is kept,
  `CompactionSparesTheFresh`; `NobodyServesThePlaceholder`, `WorkersFindItMigrated`
  and `OldSecretsDie` of `Installation`.
- `WorkstationProofs`: `KeysGoHome`, `LeftWhereItIsFound`; `LedgersTellTheTruth`,
  `SavedLedgersAreKept` of `Ledger`; `StoppedCommandsAreStopped` of `Commands`.

Most of the assumptions on the constants are their types. The others that a proof
needed are what the code gives: the requests of a run of the gateway are finitely
many (`GatewayAssumption`), a chain of providers is not empty (`WebAssumption`),
`Nothing` is no list of sessions (`StoreAssumption`), a pool has a member
(`RoutingAssumption`; `BackendPool` refuses to be built without), and a call of a reply
has a fragment, as it has a name (`RepliesAssumption`). There are no more ways of
running a command than the three of the code (`CommandAssumption`).

**The argument for the scheduler.** None of the properties is inductive alone. A
grant keeps the counters right only if the request it picks from a queue is
really waiting and is there once, so `SlotsConserved` needs
`QueuesHoldTheWaiters`; the queue it picks from must exist, which is
`TurnsAreTheWaitingKeys`; `CapacityKept` speaks of tasks and needs both the bound
on the counters (`CountersBounded`) and the agreement of counters and tasks; and
the bound on a key's counter needs that a waiter's limit is one its key had
(`AskedIsALimit`). `Inv` is the conjunction. The proof has one lemma per kind of
step: `AcquireInv`, `ForgetInv`, `GiveBackInv`, `GrantInv`, and `PlaceOnly` for tasks
that merely move on. Beneath them are lemmas about the deque operations
(`WithoutLemma`, `RotatedLemma`, `DropLastLemma`) and about what adding and
removing an owner does to the two cardinalities.

*No needless wait*: `_dispatch` looks at the first waiter of each key only. While
limits stay, all waiters of a key carry the same limit, so the first stands for
the others (`WaiterHasHead`), and the loop ends only when no first waiter may run. A
waiter that leaves wakes nobody, and need not: whoever waits beside it is at
its key's limit, or no slot is free. *Order*: `FairTo` compares the keys in front of
one before and after a step. Joining, leaving, and rotating past those that may not
run keep the relative order (`StaysBehind`, `WithoutKeepsOrder`); only a grant moves a
key, and it moves the one that is served, to the back. *Refinement*: what `SlotPool`
counts is what `Inv` says of the counters, so a grant is `SlotPool`'s grant and what
is only bookkeeping is a stutter (`PoolStep`).

**The argument for the routing.** Of a request that waits, `Told` says that its answer is
true or its backend was disturbed since it asked. A list is then true unless its backend was
disturbed less than the client's timeout before it came (`ListsTrue`), whoever asked and in
whatever order the answers came; details carry the time they were asked for (`DetailsTrue`). `Heard` gathers
this over the members a request has passed: each may have cost a timeout, so it claims
a member's list true after `Span`, which grows with the place in the pool, and at the
end it is the bound of the property. That `Span` grows with the waiting too is what the
passing of time needs.

**The argument for the chat turn.** A lease in `held` is that of the current
target, and there is one only where a generator or call may still be at work
(`HeldWhereWorking`). A hang-up before the generator started frees the lease that
the `BackgroundTask` knows, the first one; so `FirstTargetFirst` says that such a
turn has not failed over yet. There are two ways to bill, and `BilledAtTheEnd` says
that none of them was taken before the end and one at most then. That only the
recording can be lost needs `NoTextYet`: the other places that end a turn without
billing it are those before its first chunk.

**The argument for the stream.** What the reader has is what was sent: the text's
beginning, and of each call that was begun its beginning, under its place. This is
`CallsCollected`; it needs that every fragment is numbered by the place of its call, and
that is true of a native stream because it sends the next calls whole, so `tool_index`
counts those sent (`SentInOrder`, `NumbersAre`). At the end everything was sent, and
what is sorted by number is the reply (`MessageIsWhole`).

**The argument for the gateway.** For the rate, `Counted` ties the hits of a key to
its requests: behind any hit of the deque there are no more requests of the window
than hits, whatever a sweep dropped. So a request that is let past leaves no window with more
than the limit (`FewBetween`). For the records, a billed request has one and any other none
(`OneRecord`), and what is remembered is paid for (`MemoryPaid`). An entry of the cache
is its maker's: key, question, recall and time are those of the request it came
from (`FitEntries`), which changes them no more. For the quota, `Within` remembers
of each accepted request how many records there were when it was checked
(`base`), and that they were below the quota; records are only appended, so one
at which the quota is reached lies behind those.

**The argument for the memory.** A summary ends at a message that exists, tells of
everything up to it, and one of them reaches furthest (`MemInv`). All this is claimed of
the summaries under way too, because a draft is made from the latest one at the time it
began and stored when others may be there (`DraftIsFine`). Times differ, so "after the
latest" has one meaning.

**The argument for the leases.** `NeverOverstated` and the types are inductive.
`OwingAfter` says how the number of owing tasks changes with a task's place; every
INCR and DECR moves the counter along with it, and DEL and expiry only lower it.

**The argument for the tunnel.** `starting` is true exactly while one thread is
open, and no tunnel is active then; so a second opening never begins beside a
running process. `TunnelWasStarted` carries that an opening has no process before
its thread launches it. Switched off, no thread is begun, so an opening that may come to
work might have done so before (`OffStep`), and there is one of these at most
(`OneMayWork`).

**The argument for rewinding.** A write must find its checkpoint in place, and a
checkpoint taken when the user agrees holds what the gate read before it asked.
So `RewindRestores` needs `CallIsAccounted`: a write under way has a checkpoint,
and while the user is asked about a file without one, the file is still what the
gate read, or it is spoiled. Then a new checkpoint joins behind the others
(`CheckpointStep`), a write touches only a file that has one (`WriteStep`), and an
undo either leaves the oldest one of the file or puts back what it holds
(`UndoStep`, `OldestStays`).

**The argument for reading before writing.** The gate accepts a path in `readPaths` or
one whose remembered content is still on disk, and `InWindow` says that in both cases
the file is as it was at some moment since the main session last looked. `AllSeen` says
the converse for refusals: where nothing of a file is unseen, what the session remembers
is what the file holds. Both survive the writes of others and of late threads, because
these widen the window and mark what they changed as unseen (`PutLooks`).

**The argument for the web.** A page under way that has come as far as a connection is at
an address that passed the check (`Sound`); a redirect goes back to the check. An entry of
the cache was said when it was noted, and moving it in the order of the cache does not touch
that time (`SoundlySaid`).

**The argument for the ledgers.** What a shell has in its ledger is true of the
session it has open, and what a row tells of its own, because no action moves a
ledger without its session (`ShellChanges`). For `SavedIsKept` a shell must know no
less than the row it writes over: `NothingMissed` says so of every shell that is
not `apart`, and a commit that changes the row sets the others apart
(`RowCommitted`).

**The argument for the user's files.** Unless `cut`, the two files are of one gateway when
there is no save, a reader that met none will find the key of the URL it has, and a
save that met nobody leaves the two it writes (`OneGateway`): so the mixture ends with
the next of those. For the project, unless two processes were at the files at once, one
process writes at a time and the index is what it is writing (`OneWriter`), and there
is one owner (`OneOwner`). `Findable` says that what the files tell, and what a
save will make them tell, is a session the project was left at, and that the marker tells it
too as long as no save was cut short: that is what a first cut leaves to go by, and why the
property excepts a second one.

**The argument for the commands.** `Accounted` says for each place of the task that
awaits a command what may still run: nothing outside it, no process of its group
once that was killed, except that of a `!command` on Windows, and no container after the
command that removes it, unless that came too early (`missed`). It rests on there being
no sandbox on Windows (`Available`), and on a container's client starting nothing.

**The argument for the history.** A history is `Sound` if the system prompt is first
and nowhere else, only assistants call, every result follows its call, and the user's
words are whole. It stays so when a reply, its results or a note is added (`SoundJoin`,
`CallAdded`, `ResultsAdded`), when an interrupted turn is forgotten (`ForgottenKeeps`),
and when it is compacted (`CompactedKeeps`): the elisions change no role and no call
(`TrimmedKeeps`), and the tail of a fold begins at no result, so no call in front of it has
its results behind (`FoldedKeeps`). `HistInv` adds where calls may be open: nowhere
outside `running`, and there in the last reply only. To forget an interrupted turn the
shell cuts the history at the length it had before, which is safe while nothing before
that place is answered behind it (`ClosedAt`); a compaction in between voids the number,
and this is one of the two exceptions, `excused`. Folding joins sequences with the library's
recursive `FlattenSeq`; that it gives a sequence of messages for every length is shown
by a least counterexample (`FlattenTyped`, with `WFMin`), since induction theorems with
an operator parameter cannot be used.

**The argument for compaction.** `Intact` says that what follows the latest call is whole
as long as it is results and one message at most. The tail begins no later than
the latest exchange if more than one message is kept (`TailBeforeLast`), so the fold
and the cuts happen in front of it (`FoldedIntact`, `TrimmedIntact`), and what is
added behind is whole. `CompactedRest` is the other half: past the threshold nothing
long of the model or its tools stays before the latest exchange.

**The argument for the request in sight.** The ledger names the request of the turn
from the turn's first line on, and updates of the ledger leave the task alone; so it
does not matter what compaction folds. The queue is changed at its two ends only.

**The argument for the installation.** `Proper` says of a server the network reaches that
neither its files, nor it, nor a worker has the placeholder, unless the files changed.
`Ready` says that the database its workers will read was migrated by the first process.
`Aged` says that a key under which something old was made is neither that of a worker
started after the rotation nor that of the files: rotation makes a key that was never
used, and what was made before counts as old from then on.

**Only model-checked.** Every liveness property (`NoStarvation`, `TurnsEnd`,
`OpeningEnds`, the fairness in `RefinesPool`): liveness under fairness and ENABLED are
out of this prover's reach. The five properties that TLC finds violated have no theorem.

## 6. What is not modelled

- Metrics, logging, wording of errors, the Retry-After estimate.
- Upstream requests apart from leases: for a moment after a hang-up a backend may
  still compute a reply whose slot is free again (`chat.py:189`,
  `streaming.py:43`), and a client that keeps its connection open and reads
  nothing keeps its slot (`streaming.py:50`).
- The process's shutdown with background writes pending: `_pending_writes` are
  not awaited (`chat.py:427`).
- Pollers of one key in Redis that refuse each other, each counting while it is
  undone (`shared_limits.py:83`).
- The parts of the agent that touch neither files nor the conversation: git, path
  rules, project overviews; a failed undo and what plan mode leaves behind are
  in `AgentWrites` without a property of their own.
- Text and vectors: chunking, embedding, retrieval, ranking, extraction, the
  estimate of tokens. Their results are sizes or arbitrary members of a set.
- Cryptography, TLS, DNS between a check and a connection.
- Voice programs and audio devices, the dashboard, MCP servers (a foreign protocol
  over a library), the benchmark, finding servers in the network, statistics,
  exports and audit entries, which only read or append.

## 7. Plan

1. *Composition*: `ChatTurn` over several keys with `Scheduler` in place of
   `SlotPool`; upstream requests counted separately from leases.
2. *Conversation* with its memory: what `Ledger` keeps of a compaction, and what
   `Workstation` does to a session between two turns, as one model.
