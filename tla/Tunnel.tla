-------------------------------- MODULE Tunnel --------------------------------
(***************************************************************************)
(* The gateway's internet address: TunnelManager of                        *)
(* src/localgate/core/tunnel.py, the switch on the Share page that drives  *)
(* it (api/share.py), and the shutdown of the gateway (app.py).            *)
(*                                                                         *)
(* Switching on starts an opening: a task of the event loop (_open) that   *)
(* waits for a thread (_open_blocking), which starts a cloudflared process *)
(* and waits for the address it prints.  The thread and the process go on  *)
(* by themselves; the loop hears of the thread's result later.  Switching  *)
(* off, the end of the process and the shutdown come at any moment.        *)
(*                                                                         *)
(* Definitions marked "variant" are slips a change to this code could      *)
(* make; see Scheduler.tla.  Left out: finding and downloading cloudflared *)
(* (it may fail), and the wording of errors.                               *)
(***************************************************************************)
EXTENDS Naturals, FiniteSets

CONSTANTS
  Opening,   \* bound: the openings of one gateway's life, each with its process
  None       \* no tunnel

ASSUME TunnelAssumption == None \notin Opening

VARIABLES
  server,    \* "up", "closing" (app.py's shutdown ran), "down" (the loop ended)
  wanted,    \* what the Share page's switch was last set to
  tunnel,    \* self.tunnel
  starting,  \* self.starting
  failed,    \* self.error is set
  thread,    \* where each opening's thread is
  process    \* each opening's cloudflared

vars == <<server, wanted, tunnel, starting, failed, thread, process>>

(***************************************************************************)
(*   unused     no such opening yet                                        *)
(*   preparing  ensure_cloudflared                                         *)
(*   waiting    cloudflared started, no address yet                        *)
(*   returned   the thread returned a Tunnel, _open has not run since      *)
(*   raised     the thread raised, _open has not run since                 *)
(*   done       _open ended, or was cancelled                              *)
(***************************************************************************)
Place == {"unused", "preparing", "waiting", "returned", "raised", "done"}

Running == {o \in Opening : process[o] = "running"}

\* The active property: the address works.
Active == tunnel \in Running

Goto(o, place) == thread' = [thread EXCEPT ![o] = place]

\* Tunnel.stop: terminate, then kill; the process is gone when it returns.
Stopped(o) == process' = [x \in Opening |-> IF x = o /\ x \in Running THEN "ended" ELSE process[x]]

-----------------------------------------------------------------------------

\* `serve --public` opens a tunnel before the server starts and hands it over.
Init ==
  /\ server = "up"
  /\ tunnel \in Opening \cup {None}
  /\ wanted = (tunnel # None)
  /\ starting = FALSE /\ failed = FALSE
  /\ thread = [o \in Opening |-> IF o = tunnel THEN "done" ELSE "unused"]
  /\ process = [o \in Opening |-> IF o = tunnel THEN "running" ELSE "none"]

\* switch_internet(enabled=True): start does nothing while a tunnel is active or
\* being opened, else it starts an opening.
SwitchOn ==
  /\ server = "up"
  /\ wanted' = TRUE
  /\ IF Active \/ starting
       THEN UNCHANGED <<starting, failed, thread>>
       ELSE /\ starting' = TRUE /\ failed' = FALSE
            /\ \E o \in Opening : thread[o] = "unused" /\ Goto(o, "preparing")
  /\ UNCHANGED <<server, tunnel, process>>

SwitchOffRestartable ==  \* variant: stop also resets starting
  /\ server = "up"
  /\ wanted' = FALSE
  /\ Stopped(tunnel)
  /\ tunnel' = None /\ failed' = FALSE /\ starting' = FALSE
  /\ UNCHANGED <<server, thread>>

\* switch_internet(enabled=False): stop.  An opening under way is not told.
SwitchOff ==
  /\ server = "up"
  /\ wanted' = FALSE
  /\ Stopped(tunnel)
  /\ tunnel' = None /\ failed' = FALSE
  /\ UNCHANGED <<server, starting, thread>>

-----------------------------------------------------------------------------
(* The thread: _open_blocking and start_quick_tunnel.                       *)

Launch(o) ==
  /\ thread[o] = "preparing"
  /\ process' = [process EXCEPT ![o] = "running"]
  /\ Goto(o, "waiting")
  /\ UNCHANGED <<server, wanted, tunnel, starting, failed>>

\* No cloudflared to be had, or it cannot be run.
PrepareFails(o) ==
  /\ thread[o] = "preparing"
  /\ Goto(o, "raised")
  /\ UNCHANGED <<server, wanted, tunnel, starting, failed, process>>

AddressedPublishes(o) ==  \* variant: the thread sets self.tunnel itself
  /\ thread[o] = "waiting"
  /\ tunnel' = o
  /\ Goto(o, "returned")
  /\ UNCHANGED <<server, wanted, starting, failed, process>>

\* The address was printed; the process may have ended right after.
Addressed(o) ==
  /\ thread[o] = "waiting"
  /\ Goto(o, "returned")
  /\ UNCHANGED <<server, wanted, tunnel, starting, failed, process>>

\* The deadline passed or the process ended without an address.
NoAddress(o) ==
  /\ thread[o] = "waiting"
  /\ Stopped(o)
  /\ Goto(o, "raised")
  /\ UNCHANGED <<server, wanted, tunnel, starting, failed>>

\* cloudflared crashes or is killed from outside; its thread may be waiting.
ProcessEnds(o) ==
  /\ o \in Running
  /\ Stopped(o)
  /\ UNCHANGED <<server, wanted, tunnel, starting, failed, thread>>

-----------------------------------------------------------------------------
(* The event loop: _open after its await, and the end of the server.        *)

Publish(o) ==
  /\ thread[o] = "returned" /\ server # "down"
  /\ tunnel' = o
  /\ starting' = FALSE
  /\ Goto(o, "done")
  /\ UNCHANGED <<server, wanted, failed, process>>

ReportUnfinished(o) ==  \* variant: starting is reset on success only
  /\ thread[o] = "raised" /\ server # "down"
  /\ failed' = TRUE
  /\ Goto(o, "done")
  /\ UNCHANGED <<server, wanted, tunnel, starting, process>>

Report(o) ==
  /\ thread[o] = "raised" /\ server # "down"
  /\ failed' = TRUE
  /\ starting' = FALSE
  /\ Goto(o, "done")
  /\ UNCHANGED <<server, wanted, tunnel, process>>

\* The end of app.py's lifespan; the requests are drained.
Shutdown ==
  /\ server = "up"
  /\ server' = "closing"
  /\ Stopped(tunnel)
  /\ tunnel' = None /\ failed' = FALSE
  /\ UNCHANGED <<wanted, starting, thread>>

\* The loop ends and cancels _open; its thread goes on, its result is dropped.
LoopEnds ==
  /\ server = "closing"
  /\ server' = "down"
  /\ starting' = FALSE
  /\ UNCHANGED <<wanted, tunnel, failed, thread, process>>

-----------------------------------------------------------------------------

ThreadStep(o) == Launch(o) \/ PrepareFails(o) \/ Addressed(o) \/ NoAddress(o)

LoopStep(o) == Publish(o) \/ Report(o)

Next ==
  \/ SwitchOn \/ SwitchOff \/ Shutdown \/ LoopEnds
  \/ \E o \in Opening : ThreadStep(o) \/ LoopStep(o) \/ ProcessEnds(o)

Spec == Init /\ [][Next]_vars

\* A thread goes on: its downloads and its wait for the address have timeouts.
\* The event loop resumes a task whose thread is done.
Fairness == \A o \in Opening : WF_vars(ThreadStep(o)) /\ WF_vars(LoopStep(o))

FairSpec == Spec /\ Fairness

-----------------------------------------------------------------------------
(***************************************************************************)
(* Correctness                                                             *)
(***************************************************************************)

\* self.tunnel is only ever a tunnel whose opening is over.
TypeOK ==
  /\ server \in {"up", "closing", "down"}
  /\ wanted \in BOOLEAN /\ starting \in BOOLEAN /\ failed \in BOOLEAN
  /\ thread \in [Opening -> Place]
  /\ process \in [Opening -> {"none", "running", "ended"}]
  /\ tunnel \in {o \in Opening : thread[o] = "done"} \cup {None}

\* While the gateway lives, a cloudflared that exposes it is either the one the
\* switch would stop or belongs to the opening the Share page reports, and there
\* is never a second one: no order of switching on and off, failing openings and
\* dying processes leaves an address open that nobody can close.
NoForgottenProcess ==
  server # "down" =>
    /\ \A o \in Running : o = tunnel \/ (starting /\ thread[o] \in {"waiting", "returned"})
    /\ Cardinality(Running) <= 1

\* Every opening comes to its end, so that the Share page, which polls while
\* "starting" and keeps its switch disabled, is usable again.
OpeningEnds == starting ~> ~starting

\* "Turn the gateway's internet address on or off" (api/share.py): while the switch is
\* off no address can begin to work but one that worked or was being opened already,
\* and there is one at most.  An opening that is under way when the switch is turned
\* off is not told and may still bring its address, but nothing comes after it, however
\* often the switch was turned on and off before; and with none there is none.
MayWork ==
  {o \in Opening : thread[o] \in {"preparing", "waiting", "returned"} \/ (o = tunnel /\ o \in Running)}
OffStaysOff ==
  [][server # "down" /\ ~wanted /\ ~wanted' =>
       MayWork' \subseteq MayWork /\ Cardinality(MayWork) <= 1]_vars

=============================================================================
