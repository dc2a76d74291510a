-------------------------------- MODULE Routing --------------------------------
(***************************************************************************)
(* Which backends of the pool a request for a model is tried on             *)
(* (core/backend_pool.py route), by the lists of models they gave when they  *)
(* were last asked, and the context window it asks for (core/model_info.py   *)
(* apply_default_num_ctx), by what the first of them said of the model.      *)
(*                                                                         *)
(* There is one model. The order by load is any order: Scheduler has the     *)
(* load. Left out are backends whose models are configured, requests that    *)
(* bring a window of their own, and details that are only displayed. Slots   *)
(* and streams of the calls are in ChatTurn.                                *)
(***************************************************************************)
EXTENDS Integers, SequencesExt, FiniteSetsExt

CONSTANTS Members,       \* the pool, in the order of LOCALGATE_BACKENDS
          TakesOptions,  \* accepts_options: the Ollama-like ones
          Askers,        \* requests
          Windows,       \* context windows the model may have
          DefaultCtx,    \* default_num_ctx
          Unknown,
          DISCOVERY_SECONDS, CACHE_SECONDS,
          ReplyTime,     \* timeout of the HTTP client
          MaxNow, MaxDisturbances   \* bounds

ASSUME RoutingAssumption ==
    /\ Members \in Seq(ToSet(Members)) /\ Members # <<>>
    /\ Windows \subseteq Nat \ {0} /\ DefaultCtx \in Nat /\ Unknown \notin Nat
    /\ {DISCOVERY_SECONDS, CACHE_SECONDS, ReplyTime, MaxNow, MaxDisturbances} \subseteq Nat

VARIABLES
    clock,
    backend,    \* what each backend serves: present, window; and whether it is up
    listed,     \* _discovered (does it have the model?) and _discovered_at
    details,    \* ModelInfoCache._entries
    ask,        \* the requests
    disturbed,  \* history: when a backend last changed, or failed to say what it has
    disturbances

routingVars == <<clock, backend, listed, details, ask, disturbed, disturbances>>

Backends == ToSet(Members)
Primary == Members[1]
LongAgo == -(DISCOVERY_SECONDS + CACHE_SECONDS + 1)
Waiting == {"listing", "looking"}
\* What a backend may be; who takes no options does not tell a window either.
States == [present : BOOLEAN, window : Windows, up : BOOLEAN]
Possible(b, state) == b \in TakesOptions \/ state.window = Min(Windows)
NotAsked == [stage |-> "idle", next |-> 1, serving |-> {}, targets |-> <<>>, ctx |-> Unknown,
             sent |-> 0, answer |-> Unknown]
In(r, stage) == ask[r].stage = stage
Ends(r) == ask' = [ask EXCEPT ![r] = [NotAsked EXCEPT !.stage = "ended"]]

RoutingInit ==
    /\ clock = 0 /\ disturbances = 0
    /\ backend \in [Backends -> States] /\ \A b \in Backends : Possible(b, backend[b])
    /\ listed = [b \in Backends |-> [present |-> FALSE, at |-> LongAgo]]
    /\ details = [b \in Backends |-> [window |-> Unknown, at |-> LongAgo]]
    /\ ask = [r \in Askers |-> NotAsked]
    /\ disturbed = [b \in Backends |-> 0]

-----------------------------------------------------------------------------
(* The backends: models are pulled and removed, servers stop and start. No    *)
(* reply is waited for longer than the client's timeout; between replies a    *)
(* request does not wait.                                                   *)
Late(r) == ask[r].stage \in Waiting /\ clock - ask[r].sent >= ReplyTime
Passes ==
    /\ clock < MaxNow /\ clock' = clock + 1
    /\ \A r \in Askers : ~Late(r) /\ ~In(r, "routing") /\ ~In(r, "routed")
    /\ UNCHANGED <<backend, listed, details, ask, disturbed, disturbances>>
Disturb(b) ==
    /\ disturbances < MaxDisturbances /\ disturbances' = disturbances + 1
    /\ \E state \in States \ {backend[b]} : Possible(b, state) /\ backend' = [backend EXCEPT ![b] = state]
    /\ disturbed' = [disturbed EXCEPT ![b] = clock]
    /\ UNCHANGED <<clock, listed, details, ask>>

(* What a backend answers is what it has at that moment.                      *)
World == UNCHANGED <<clock, backend, disturbances>>
Asked(r) == IF In(r, "listing") THEN Members[ask[r].next] ELSE ask[r].targets[1]
Replies(r) ==
    /\ ask[r].stage \in Waiting /\ ask[r].answer = Unknown /\ backend[Asked(r)].up
    /\ ask' = [ask EXCEPT ![r].answer = backend[Asked(r)]]
    /\ UNCHANGED <<listed, details, disturbed>> /\ World
Failing(r) == ask[r].answer = Unknown /\ (~backend[Asked(r)].up \/ Late(r))
Disturbed(r) == disturbed' = [disturbed EXCEPT ![Asked(r)] = clock]

-----------------------------------------------------------------------------
\* variant: a list that came once is good for ever
DueOnce(b) == listed[b].at = LongAgo

(* route asks the members one after the other, and each its backend when the   *)
(* list it has is too old. Two requests may both ask.                        *)
Due(b) == clock - listed[b].at > DISCOVERY_SECONDS
Considered(r, present) ==
    [ask[r] EXCEPT !.stage = "routing", !.next = @ + 1, !.sent = 0, !.answer = Unknown,
                   !.serving = @ \union (IF present THEN {Members[ask[r].next]} ELSE {})]
Checks(r) == In(r, "routing") /\ ask[r].next <= Len(Members)
StartRoute(r) ==
    /\ In(r, "idle")
    /\ ask' = [ask EXCEPT ![r].stage = "routing", ![r].next = IF Len(Members) = 1 THEN 2 ELSE 1]
    /\ UNCHANGED <<listed, details, disturbed>> /\ World
Consider(r) ==
    /\ Checks(r)
    /\ LET b == Members[ask[r].next]
       IN ask' = [ask EXCEPT ![r] = IF Due(b) THEN [@ EXCEPT !.stage = "listing", !.sent = clock]
                                    ELSE Considered(r, listed[b].present)]
    /\ UNCHANGED <<listed, details, disturbed>> /\ World
ListModels(r) ==
    /\ In(r, "listing") /\ ask[r].answer # Unknown
    /\ listed' = [listed EXCEPT ![Asked(r)] = [present |-> ask[r].answer.present, at |-> clock]]
    /\ ask' = [ask EXCEPT ![r] = Considered(r, ask[r].answer.present)]
    /\ UNCHANGED <<details, disturbed>> /\ World

(* An HTTP error keeps the last good list, for as long as a new one. Any other  *)
(* (a body that is not what it should be) fails the request.                  *)
ListFails(r) ==
    /\ In(r, "listing") /\ Failing(r) /\ Disturbed(r)
    /\ listed' = [listed EXCEPT ![Asked(r)].at = clock]
    /\ ask' = [ask EXCEPT ![r] = Considered(r, listed[Asked(r)].present)]
    /\ UNCHANGED details /\ World
ListBreaks(r) ==
    /\ In(r, "listing") /\ ask[r].answer # Unknown /\ Disturbed(r)
    /\ Ends(r)
    /\ UNCHANGED <<listed, details>> /\ World

(* Least load first; the primary when nobody claims the model.                *)
Orders(serving) == IF serving = {} \/ Len(Members) = 1 THEN {<<Primary>>} ELSE SetToSeqs(serving)
Routed(r) ==
    /\ In(r, "routing") /\ ~Checks(r)
    /\ \E targets \in Orders(ask[r].serving) :
          ask' = [ask EXCEPT ![r].stage = "routed", ![r].targets = targets, ![r].serving = {}]
    /\ UNCHANGED <<listed, details, disturbed>> /\ World

-----------------------------------------------------------------------------
\* variant: details are kept until they are asked for again
FreshOnceKnown(b) == details[b].at # LongAgo

(* apply_default_num_ctx looks at the first target only. What was found is     *)
(* kept under the time it was asked for, the failure to find it as well.      *)
Fresh(b) == clock - details[b].at < CACHE_SECONDS
Ctx(window) == IF window = Unknown THEN DefaultCtx ELSE Min({DefaultCtx, window})
Chosen(r, ctx) == [ask[r] EXCEPT !.stage = "calling", !.next = 1, !.ctx = ctx, !.sent = 0, !.answer = Unknown]
ChooseWindow(r) ==
    /\ In(r, "routed")
    /\ LET b == ask[r].targets[1]
       IN ask' = [ask EXCEPT ![r] = IF b \notin TakesOptions THEN Chosen(r, Unknown)
                                    ELSE IF Fresh(b) THEN Chosen(r, Ctx(details[b].window))
                                    ELSE [@ EXCEPT !.stage = "looking", !.sent = clock]]
    /\ UNCHANGED <<listed, details, disturbed>> /\ World
Window(state) == IF state.present THEN state.window ELSE Unknown
Remembered(r, window) == [details EXCEPT ![Asked(r)] = [window |-> window, at |-> ask[r].sent]]
LookUpModel(r) ==
    /\ In(r, "looking") /\ ask[r].answer # Unknown
    /\ details' = Remembered(r, Window(ask[r].answer))
    /\ ask' = [ask EXCEPT ![r] = Chosen(r, Ctx(Window(ask[r].answer)))]
    /\ UNCHANGED <<listed, disturbed>> /\ World
LookUpFails(r) ==
    /\ In(r, "looking") /\ Failing(r) /\ Disturbed(r)
    /\ details' = Remembered(r, Unknown)
    /\ ask' = [ask EXCEPT ![r] = Chosen(r, DefaultCtx)]
    /\ UNCHANGED listed /\ World

(* call_with_failover: the same payload goes from target to target.           *)
Target(r) == ask[r].targets[ask[r].next]
Generate(r) ==
    /\ In(r, "calling") /\ backend[Target(r)].up
    /\ Ends(r)
    /\ UNCHANGED <<listed, details, disturbed>> /\ World
FailOver(r) ==
    /\ In(r, "calling") /\ ~backend[Target(r)].up
    /\ IF ask[r].next < Len(ask[r].targets) THEN ask' = [ask EXCEPT ![r].next = @ + 1] ELSE Ends(r)
    /\ UNCHANGED <<listed, details, disturbed>> /\ World

RoutingNext ==
    \/ Passes \/ \E b \in Backends : Disturb(b)
    \/ \E r \in Askers :
          \/ Replies(r) \/ StartRoute(r) \/ Consider(r) \/ ListModels(r) \/ ListFails(r) \/ ListBreaks(r)
          \/ Routed(r) \/ ChooseWindow(r) \/ LookUpModel(r) \/ LookUpFails(r) \/ Generate(r) \/ FailOver(r)
RoutingSpec == RoutingInit /\ [][RoutingNext]_routingVars

-----------------------------------------------------------------------------
(* Properties. *)

RoutingTypeOK ==
    /\ \A b \in Backends : listed[b].at \in LongAgo..clock /\ details[b].at \in LongAgo..clock
    /\ \A r \in Askers : ask[r].stage \in {"idle", "routing", "routed", "calling", "ended"} \union Waiting

(* A backend that has served the model undisturbed for as long as lists are     *)
(* trusted, and replies are waited for, is among the targets of a request that *)
(* is routed, and one that has not served it is not, but for the primary when  *)
(* no other has it; whichever of the requests asked, and in whatever order     *)
(* the answers came (BackendPool.route, PooledBackend.models).                *)
Settled(b) == clock - disturbed[b] > DISCOVERY_SECONDS + Len(Members) * ReplyTime
RoutedByWhatIsServed ==
    [][\A r \in Askers : In(r, "routing") /\ ask'[r].stage = "routed" /\ Len(Members) > 1 =>
          \A b \in Backends : Settled(b) =>
              LET target == b \in ToSet(ask'[r].targets)
              IN IF backend[b].present THEN target ELSE target => ask'[r].targets = <<Primary>>]_routingVars

(* A request that is served by an Ollama-like backend asks for a window, unless *)
(* it came there by failing over from one of another kind; and the window is    *)
(* no larger than the model's on the backend it was meant for, if that has been *)
(* undisturbed for as long as details are kept (apply_default_num_ctx,          *)
(* call_with_failover).                                                       *)
Served(r) == In(r, "calling") /\ ask'[r].stage = "ended" /\ backend[Target(r)].up /\ backend[Target(r)].present
WindowsFit ==
    [][\A r \in Askers :
          /\ Served(r) /\ {ask[r].targets[1], Target(r)} \subseteq TakesOptions => ask[r].ctx # Unknown
          /\ LET target == ask[r].targets[1]
             IN (In(r, "routed") \/ In(r, "looking")) /\ ask'[r].stage = "calling" /\ target \in TakesOptions
                /\ backend[target].present /\ clock - disturbed'[target] > CACHE_SECONDS + ReplyTime
                => ask'[r].ctx = Min({DefaultCtx, backend[target].window})]_routingVars
=============================================================================
