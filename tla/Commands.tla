-------------------------------- MODULE Commands -------------------------------
(***************************************************************************)
(* A program that runs for the user: run_command of the agent in a sandbox    *)
(* (agent/sandbox.py run_sandboxed, _stop) and "!command" of the shell         *)
(* (agent/shell.py run_shell, agent/repl.py _run_user_shell), with timeouts    *)
(* and with Esc (agent/interrupt.py), which cancels whatever is awaited.       *)
(*                                                                         *)
(* Of the processes of a command there are its direct child, the others of    *)
(* the child's process group, and with Docker or Podman, whose child is only  *)
(* their client, the container. Processes that leave their group are out of   *)
(* reach. Windows has no such groups: there "group" is what else the child    *)
(* has started. What is printed, and who may run what without asking, is left *)
(* out.                                                                    *)
(***************************************************************************)
EXTENDS Naturals

CONSTANTS Kinds   \* which ways of running there are
ASSUME CommandAssumption == Kinds \subseteq {"container", "sandbox", "shell"}

VARIABLES
    platform,   \* sys.platform: "win32", or any other, which is "posix"
    kind,       \* of the command
    doing,      \* where the task that awaits it is
    processes,  \* what runs of it: "child", "group", "container"
    created,    \* has the container run yet?
    abandoned,  \* history: it was interrupted while a container was being killed
    missed,     \* history: the container was to be killed before it ran
    told        \* what is told the model: "nothing", "output", "timeout", "interrupted"

commandVars == <<platform, kind, doing, processes, created, abandoned, missed, told>>

Doing == {"idle", "communicating", "calling killer", "awaiting killer", "reaping", "over"}
Does(where) == doing = where
Runs(p) == p \in processes

(* detect_sandbox: sandbox-exec and bubblewrap are of macOS and Linux.          *)
Available == {k \in Kinds : platform = "win32" => k # "sandbox"}

CommandInit ==
    /\ platform \in {"posix", "win32"} /\ kind \in Available
    /\ doing = "idle" /\ processes = {} /\ created = FALSE
    /\ abandoned = FALSE /\ missed = FALSE /\ told = "nothing"

-----------------------------------------------------------------------------
(* The command. A client leaves when its container has; where the command has  *)
(* its own process namespace (a container, bubblewrap), everything leaves with  *)
(* its first process, elsewhere what it started in the background stays.        *)
Alone == UNCHANGED <<platform, kind, doing, abandoned, missed, told>>
StartsMore ==
    /\ Runs("child") /\ kind # "container" /\ ~Runs("group")
    /\ processes' = processes \union {"group"} /\ UNCHANGED created /\ Alone
ContainerRuns ==
    /\ Runs("child") /\ kind = "container" /\ ~created
    /\ processes' = processes \union {"container"} /\ created' = TRUE /\ Alone
ContainerEnds ==
    /\ Runs("container") /\ processes' = processes \ {"container"} /\ UNCHANGED created /\ Alone
GroupEnds ==
    /\ Runs("group") /\ processes' = processes \ {"group"} /\ UNCHANGED created /\ Alone
ChildEnds ==
    /\ Runs("child") /\ ~Runs("container") /\ (kind = "container" => created)
    /\ processes' \in {processes \ {"child"}} \union (IF kind = "sandbox" THEN {{}} ELSE {})
    /\ UNCHANGED created /\ Alone

-----------------------------------------------------------------------------
(* It is started, as the leader of a new group where there are groups. It may  *)
(* not be possible.                                                         *)
Start ==
    /\ Does("idle") /\ doing' = "communicating" /\ processes' = {"child"}
    /\ UNCHANGED <<platform, kind, created, abandoned, missed, told>>
CannotStart ==
    /\ Does("idle") /\ doing' = "over" /\ UNCHANGED <<platform, kind, processes, created, abandoned, missed, told>>

(* Its output ends when nobody has it open any more: the child has left, and   *)
(* what it left behind has closed it.                                         *)
Finish ==
    /\ Does("communicating") /\ ~Runs("child")
    /\ doing' = "over" /\ told' = "output" /\ UNCHANGED <<platform, kind, processes, created, abandoned, missed>>

\* variant: only the program that was started is killed, on every platform
KillChild == processes' = processes \ {"child"}

(* killpg where there are groups, and kill of the child: the end of _stop, and   *)
(* all of _kill. On Windows what the child has started goes on.                 *)
Kill == processes' = processes \ (IF platform = "win32" THEN {"child"} ELSE {"child", "group"})

(* _stop: a container is killed by its name, by a program that is awaited, and   *)
(* only then the child, which is its client. A "!command" is killed at once.    *)
Stop ==
    IF kind = "container" THEN doing' = "calling killer" /\ UNCHANGED processes
    ELSE doing' = "reaping" /\ Kill
Timeout ==
    /\ Does("communicating") /\ kind # "shell" /\ Stop /\ told' = "timeout"
    /\ UNCHANGED <<platform, kind, created, abandoned, missed>>

(* Esc and Ctrl+C cancel the task as often as they are pressed: first in        *)
(* communicate, or in the loop over the lines, then in _stop, which they end    *)
(* where it is. They are read while the task waits.                            *)
Interrupt ==
    /\ ~Does("idle") /\ ~Does("over") /\ told' = "interrupted"
    /\ abandoned' = (doing \in {"calling killer", "awaiting killer"})
    /\ IF Does("communicating") THEN Stop ELSE doing' = "over" /\ UNCHANGED processes
    /\ UNCHANGED <<platform, kind, created, missed>>

(* A kill of what has not begun to run finds nothing; an OSError is as much.     *)
CallKiller ==
    /\ Does("calling killer") /\ doing' = "awaiting killer"
    /\ processes' = processes \ {"container"} /\ missed' = ~created
    /\ UNCHANGED <<platform, kind, created, abandoned, told>>
CannotKill ==
    /\ Does("calling killer") /\ doing' = "reaping" /\ Kill /\ missed' = TRUE
    /\ UNCHANGED <<platform, kind, created, abandoned, told>>
KillerEnds ==
    /\ Does("awaiting killer") /\ doing' = "reaping" /\ Kill
    /\ UNCHANGED <<platform, kind, created, abandoned, missed, told>>
Reaped ==
    /\ Does("reaping") /\ ~Runs("child") /\ doing' = "over"
    /\ UNCHANGED <<platform, kind, processes, created, abandoned, missed, told>>

Again ==
    /\ Does("over") /\ processes = {} /\ doing' = "idle" /\ kind' \in Available
    /\ created' = FALSE /\ abandoned' = FALSE /\ missed' = FALSE /\ told' = "nothing"
    /\ UNCHANGED <<platform, processes>>

Stopping == CallKiller \/ CannotKill \/ KillerEnds \/ Reaped
CommandNext ==
    \/ StartsMore \/ ContainerRuns \/ ContainerEnds \/ GroupEnds \/ ChildEnds
    \/ Start \/ CannotStart \/ Finish \/ Timeout \/ Interrupt \/ Stopping \/ Again
CommandSpec == CommandInit /\ [][CommandNext]_commandVars

-----------------------------------------------------------------------------
(* Properties. *)

CommandTypeOK ==
    /\ platform \in {"posix", "win32"} /\ kind \in Available /\ doing \in Doing
    /\ processes \subseteq {"child", "group", "container"} /\ abandoned \in BOOLEAN
    /\ told \in {"nothing", "output", "timeout", "interrupted"}

(* Where a command has no group that could be killed, and no container.        *)
Groupless == platform = "win32" /\ kind = "shell"

(* A command that is said to be stopped, after its time or on Esc, has left      *)
(* nothing running, however it was being run and whatever it had started in the *)
(* background, unless it was interrupted again while its container was being     *)
(* killed, or that had not begun to run ("timed out (stopped)", _stop). Of a      *)
(* "!command" on Windows only the shell itself is sure to be gone (_kill): what    *)
(* the docstring of run_shell says of its process group is true elsewhere.       *)
StoppedIsStopped ==
    Does("over") /\ told \in {"timeout", "interrupted"} /\ ~abandoned /\ ~missed
    => processes \subseteq (IF Groupless THEN {"group"} ELSE {})
=============================================================================
