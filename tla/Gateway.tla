------------------------------ MODULE Gateway ------------------------------
(***************************************************************************)
(* What the gateway does for a request around the inference itself: who is  *)
(* asking (api/deps.py, db/repositories/keys.py), how often (core/          *)
(* rate_limiter.py), how much (core/key_policy.py), what is recalled for it *)
(* and what is remembered of it (api/chat.py), whether the reply is already *)
(* known (core/cache.py), and what it is billed (db/repositories/usage.py), *)
(* while the owner edits and revokes keys (api/keys.py).                    *)
(*                                                                         *)
(* All keys use one session id, as two owners may. A conversation's memory  *)
(* is the number of exchanges stored; summaries are in Memory. The queue,   *)
(* the stream and its disconnects are in Scheduler and ChatTurn: here the   *)
(* backend answers a request or fails it.                                   *)
(***************************************************************************)
EXTENDS Integers, SequencesExt, FiniteSetsExt

CONSTANTS Keys, Requests, Questions,
          MaxTime,     \* bound: the clock
          MaxEdits,    \* bound: changes the owner makes
          Quotas,      \* bound: token quotas a key may have; NoQuota is none
          NoQuota,
          Cost,        \* tokens of an exchange
          Period,      \* length of a quota period
          Window,      \* window_seconds
          Limit,       \* rate_limit_per_min
          SweepEvery,  \* sweep_every
          TTL,         \* ttl_seconds of the cache; 0: for ever
          Capacity,    \* max_entries of the cache
          None

ASSUME GatewayAssumption ==
    /\ IsFiniteSet(Requests)
    /\ Quotas \subseteq Nat \ {0} /\ NoQuota \notin Nat
    /\ {Cost, Period, Window, Limit, SweepEvery, Capacity} \subseteq Nat \ {0}
    /\ {TTL, MaxTime, MaxEdits} \subseteq Nat
    /\ None \notin Keys \union Requests \union Questions

VARIABLES
    now,      \* the clock
    key,      \* the API key rows
    hits,     \* limiter._hits: times of the hits of each key
    calls,    \* limiter._calls_since_sweep
    entries,  \* cache._entries, least recently used first
    usage,    \* the usage records, in the order they were written
    memory,   \* exchanges stored for the session of each key
    req,      \* the requests
    edits     \* changes made so far (MaxEdits)

vars == <<now, key, hits, calls, entries, usage, memory, req, edits>>

Stages == {"idle", "known", "accepted", "asking", "answered",
           "billed", "spoken", "refused", "failed", "broken"}
Never   == -1
Forever == MaxTime + 1
Idle == [stage |-> "idle", key |-> None, chat |-> FALSE, question |-> None, quota |-> NoQuota,
         store |-> FALSE, at |-> 0, base |-> 0, period |-> Never, recalled |-> 0, from |-> None, made |-> Never]

-----------------------------------------------------------------------------
(* Helpers.                                                                 *)

Expired(k) == key[k].expires <= now
Fail(r) == req' = [req EXCEPT ![r] = [Idle EXCEPT !.stage = "failed", !.key = req[r].key, !.at = req[r].at]]
At(r, stage) == req[r].stage = stage

\* Tokens a key used in the quota period of the present moment.
PeriodStart == (now \div Period) * Period
TokensSince(k, start) ==
    Cost * Cardinality({i \in DOMAIN usage : /\ req[usage[i].by].key = k /\ ~usage[i].cached
                                             /\ usage[i].at >= start})
\* variant: the quota may be used up to and including
ExhaustedAfter(k, quota) == quota # NoQuota /\ TokensSince(k, PeriodStart) > quota
Exhausted(k, quota) == quota # NoQuota /\ TokensSince(k, PeriodStart) >= quota

\* The hits still in the window: the list is in order of time, so those that have
\* left it are its first ones, up to the last that has.
Gone(times) == Max({0} \union {i \in DOMAIN times : times[i] <= now - Window})
Live(times) == SubSeq(times, Gone(times) + 1, Len(times))
\* variant: the sweep forgets the callers that were busy instead of the quiet ones
StaleSwapped(times) == times = <<>> \/ Last(times) > now - Window
Stale(times) == times = <<>> \/ Last(times) <= now - Window

\* variant: the digest of the client's own body
CacheKeyOfBody(r, recalled) == <<req[r].key, req[r].question>>

\* What the digest of a payload stands for: whose it is, what is asked, and
\* what was recalled for it.
CacheKey(r, recalled) == <<req[r].key, req[r].question, recalled>>
Entry(c) == {i \in DOMAIN entries : entries[i].for = c}
TooOld(e) == TTL # 0 /\ now - e.at > TTL
Without(c) == IF Entry(c) = {} THEN entries ELSE RemoveAt(entries, CHOOSE i \in Entry(c) : TRUE)
Newest(s) == SubSeq(s, Len(s) - Min({Len(s), Capacity}) + 1, Len(s))

-----------------------------------------------------------------------------
Init ==
    /\ now = 0 /\ calls = 0 /\ entries = <<>> /\ usage = <<>> /\ edits = 0
    /\ \E q \in Quotas : key = [k \in Keys |->
          [revoked |-> FALSE, expires |-> Forever, quota |-> q, store |-> TRUE]]
    /\ hits = [k \in Keys |-> <<>>] /\ memory = [k \in Keys |-> 0]
    /\ req = [r \in Requests |-> Idle]

Tick == now < MaxTime /\ now' = now + 1
        /\ UNCHANGED <<key, hits, calls, entries, usage, memory, req, edits>>

Rest == UNCHANGED <<now, key, edits>>

(* allow() sweeps the keys that have gone quiet, counts the hits of this one *)
(* in the window and records the request if it may pass.                    *)
Allows(k) == Len(Live(hits[k])) < Limit
Allow(k) ==
    LET due  == calls + 1 >= SweepEvery
        live == Live(hits[k])
    IN /\ calls' = (calls + 1) % SweepEvery
       /\ hits' = [j \in Keys |-> IF j = k THEN IF Allows(k) THEN Append(live, now) ELSE live
                                 ELSE IF due /\ Stale(hits[j]) THEN <<>> ELSE hits[j]]

(* require_api_key and enforce_rate_limit. The row as it is now is what the  *)
(* request goes by until it ends.                                           *)
Known(k) == ~key[k].revoked /\ ~Expired(k)
Arrive(r, k, chat, question) ==
    /\ At(r, "idle") /\ Known(k) /\ Allow(k)
    /\ req' = [req EXCEPT ![r] = IF Allows(k)
                    THEN [@ EXCEPT !.key = k, !.chat = chat, !.question = question, !.at = now,
                           !.quota = key[k].quota, !.store = chat /\ key[k].store, !.stage = "known"]
                    ELSE [@ EXCEPT !.key = k, !.stage = "refused"]]
    /\ UNCHANGED <<entries, usage, memory>> /\ Rest

\* Turned away at the door: the limiter does not count it.
Reject(r, k) ==
    /\ At(r, "idle") /\ ~Known(k)
    /\ req' = [req EXCEPT ![r] = [@ EXCEPT !.key = k, !.stage = "refused"]]
    /\ UNCHANGED <<hits, calls, entries, usage, memory>> /\ Rest

(* enforce_key_access, before any work is done for the request.             *)
Accept(r) ==
    /\ At(r, "known")
    /\ IF Exhausted(req[r].key, req[r].quota) THEN Fail(r)
       ELSE req' = [req EXCEPT ![r] = [@ EXCEPT !.base = Len(usage), !.period = now \div Period,
                                                !.stage = "accepted"]]
    /\ UNCHANGED <<hits, calls, entries, usage, memory>> /\ Rest

(* _augment_with_memory and cache.get. What was recalled was read before:   *)
(* nothing for a key that stores nothing, nothing when the backend cannot    *)
(* embed, else as much as was stored by then. An entry found too old goes.   *)
Recallable(r) == IF req[r].store THEN 0..memory[req[r].key] ELSE {0}
\* variant: a hit is returned without being recorded
LookUpUnrecorded(r) ==
    /\ At(r, "accepted") /\ req[r].chat
    /\ \E m \in Recallable(r) :
          LET found == Entry(CacheKey(r, m))
              e     == entries[CHOOSE i \in found : TRUE]
              hit   == found # {} /\ ~TooOld(e)
          IN /\ entries' = IF found = {} THEN entries
                           ELSE IF hit THEN Append(Without(e.for), e) ELSE Without(e.for)
             /\ req' = [req EXCEPT ![r] = [@ EXCEPT !.recalled = m, !.from = IF hit THEN e.from ELSE None,
                                                   !.stage = IF hit THEN "billed" ELSE "asking"]]
    /\ UNCHANGED <<hits, calls, usage, memory>> /\ Rest
LookUp(r) ==
    /\ At(r, "accepted") /\ req[r].chat
    /\ \E m \in Recallable(r) :
          LET found == Entry(CacheKey(r, m))
              e     == entries[CHOOSE i \in found : TRUE]
              hit   == found # {} /\ ~TooOld(e)
          IN /\ entries' = IF found = {} THEN entries
                           ELSE IF hit THEN Append(Without(e.for), e) ELSE Without(e.for)
             /\ req' = [req EXCEPT ![r] = [@ EXCEPT !.recalled = m, !.from = IF hit THEN e.from ELSE None,
                                                   !.stage = IF hit THEN "answered" ELSE "asking"]]
    /\ UNCHANGED <<hits, calls, usage, memory>> /\ Rest

(* A completion or an embedding recalls nothing and goes straight to the      *)
(* backend.                                                                 *)
Complete(r) ==
    /\ At(r, "accepted") /\ ~req[r].chat
    /\ req' = [req EXCEPT ![r].stage = "asking"]
    /\ UNCHANGED <<hits, calls, entries, usage, memory>> /\ Rest

(* The backend answers; the reply is cached before it is recorded.           *)
CacheSet(r) ==
    LET for == CacheKey(r, req[r].recalled)
    IN Newest(Append(Without(for), [for |-> for, at |-> now, from |-> r]))
Answer(r) ==
    /\ At(r, "asking") /\ req[r].chat
    /\ entries' = CacheSet(r)
    /\ req' = [req EXCEPT ![r] = [@ EXCEPT !.stage = "answered", !.from = r, !.made = now]]
    /\ UNCHANGED <<hits, calls, usage, memory>> /\ Rest

AnswerPlain(r) ==
    /\ At(r, "asking") /\ ~req[r].chat
    /\ req' = [req EXCEPT ![r] = [@ EXCEPT !.stage = "answered", !.from = r, !.made = now]]
    /\ UNCHANGED <<hits, calls, entries, usage, memory>> /\ Rest

(* Speech and transcriptions are done by the gateway itself: the limiter has   *)
(* counted them, no quota is asked and nothing is billed.                     *)
Voice(r) ==
    /\ At(r, "known") /\ ~req[r].chat
    /\ req' = [req EXCEPT ![r] = [Idle EXCEPT !.stage = "spoken", !.key = req[r].key, !.at = req[r].at]]
    /\ UNCHANGED <<hits, calls, entries, usage, memory>> /\ Rest
VoiceFails(r) ==
    /\ At(r, "known") /\ ~req[r].chat /\ Fail(r)
    /\ UNCHANGED <<hits, calls, entries, usage, memory>> /\ Rest

BackendFails(r) ==
    /\ At(r, "asking") /\ Fail(r)
    /\ UNCHANGED <<hits, calls, entries, usage, memory>> /\ Rest

(* _record_turn: history and memory, then the usage. An HTTP error of the    *)
(* embedding is survived; any other exception ends the recording before the  *)
(* usage. Nothing in between is read here; Memory has the steps.            *)
Remember(r, exchanges) == memory' = [memory EXCEPT ![req[r].key] = @ + exchanges]
Stored(r) == IF req[r].store THEN {0, 1} ELSE {0}
Billed(r) == Append(usage, [by |-> r, at |-> now, cached |-> req[r].from # r])
Record(r) ==
    /\ At(r, "answered")
    /\ req' = [req EXCEPT ![r] = [@ EXCEPT !.stage = "billed", !.quota = NoQuota, !.base = 0, !.period = Never,
                                           !.store = FALSE]]
    /\ \E exchanges \in Stored(r) : Remember(r, exchanges)
    /\ usage' = Billed(r)
    /\ UNCHANGED <<hits, calls, entries>> /\ Rest
RecordFails(r) ==
    /\ At(r, "answered") /\ req[r].store
    /\ req' = [req EXCEPT ![r].stage = "broken"]
    /\ \E exchanges \in Stored(r) : Remember(r, exchanges)
    /\ UNCHANGED <<hits, calls, entries, usage>> /\ Rest

Edit == edits < MaxEdits /\ edits' = edits + 1
        /\ UNCHANGED <<now, hits, calls, entries, usage, memory, req>>
Revoke(k) == Edit /\ key' = [key EXCEPT ![k].revoked = TRUE]
UpdateKey(k) == Edit /\ \/ \E q \in (Quotas \union {NoQuota}) \ {key[k].quota} : key' = [key EXCEPT ![k].quota = q]
                        \/ key' = [key EXCEPT ![k].store = FALSE]
                        \/ key' = [key EXCEPT ![k].expires = now + 1]

Handle(r) ==
    \/ \E k \in Keys, chat \in BOOLEAN, q \in Questions : Arrive(r, k, chat, q)
    \/ \E k \in Keys : Reject(r, k)
    \/ Accept(r) \/ LookUp(r) \/ Complete(r)
    \/ Answer(r) \/ AnswerPlain(r) \/ Voice(r) \/ VoiceFails(r) \/ BackendFails(r) \/ Record(r) \/ RecordFails(r)
Next == \/ Tick \/ \E k \in Keys : Revoke(k) \/ UpdateKey(k)
        \/ \E r \in Requests : Handle(r)

Spec == Init /\ [][Next]_vars
-----------------------------------------------------------------------------
(* Properties. *)

Ended == {"billed", "refused", "failed", "broken"}
Served(r) == req[r].from # None

(* Every variable holds a value the code can give it; the cache has one entry *)
(* per payload and never more than max_entries, and the limiter never holds  *)
(* more hits of a key than its limit (PromptCache, RateLimiter).             *)
TypeOK ==
    /\ now \in 0..MaxTime /\ calls \in 0..(SweepEvery - 1) /\ edits \in 0..MaxEdits
    /\ key \in [Keys -> [revoked : BOOLEAN, expires : 0..Forever, store : BOOLEAN,
                       quota : Quotas \union {NoQuota}]]
    /\ \A k \in Keys : hits[k] \in Seq(0..now) /\ Len(hits[k]) <= Limit /\ memory[k] \in Nat
    /\ Len(entries) <= Capacity /\ Cardinality({entries[i].for : i \in DOMAIN entries}) = Len(entries)
    /\ \A i \in DOMAIN usage : usage[i].by \in Requests /\ usage[i].at \in 0..now
    /\ \A r \in Requests : req[r].stage \in Stages /\ (At(r, "idle") <=> req[r] = Idle)

(* In no window of the limiter's length does a key get more requests past it *)
(* than its limit, whatever is swept and whoever else calls (RateLimiter).   *)
Passed(r) == req[r].stage \notin {"idle", "refused"}
RateKept ==
    \A k \in Keys : \A t \in 0..now :
        Cardinality({r \in Requests : /\ req[r].key = k /\ Passed(r)
                                       /\ t - Window < req[r].at /\ req[r].at <= t}) <= Limit

(* Once the records of a period have made up its quota, a key is charged only *)
(* for requests that were already past their check: those that were under    *)
(* way when the quota was reached, or came from the period before            *)
(* (enforce_key_access, tokens_since).                                       *)
PeriodOf(t) == t \div Period
Charged(k, p, upTo) == {i \in 1..upTo : /\ req[usage[i].by].key = k /\ ~usage[i].cached
                                        /\ PeriodOf(usage[i].at) = p}
Overrun(r) ==
    \E j \in Charged(req[r].key, PeriodOf(now), Len(usage)) :
        /\ Cost * Cardinality(Charged(req[r].key, PeriodOf(now), j)) >= req[r].quota
        /\ req[r].base >= j /\ req[r].period = PeriodOf(now)
OverrunOnlyTogether ==
    [][\A r \in Requests : At(r, "answered") /\ req'[r].stage = "billed" /\ req[r].from = r
                            /\ req[r].quota # NoQuota => ~Overrun(r)]_vars

(* A reply out of the cache was made for the same key, the same question and *)
(* the same recalled memory, and not longer ago than the cache keeps replies, *)
(* however often it was served since (cache_key, PromptCache).                *)
Found(r) == At(r, "accepted") /\ req'[r].from # None
Fits(r, s) ==
    /\ req[s].key = req[r].key /\ req[s].question = req[r].question
    /\ req[s].recalled = req'[r].recalled /\ req[r].chat /\ req[s].chat
    /\ TTL # 0 => now - req[s].made <= TTL
CachedRepliesFit == [][\A r \in Requests : Found(r) => Fits(r, req'[r].from)]_vars

(* Every request that got a reply, cached or not, is billed once it has ended, *)
(* unless its memory failed by something other than the backend's HTTP, and  *)
(* no more is remembered than chat requests were billed or failed so         *)
(* (_record_turn, _store_memory).                                            *)
RepliesAreBilled ==
    /\ \A r \in Requests : Served(r) /\ req[r].stage \in Ended \ {"broken"} =>
          Cardinality({i \in DOMAIN usage : usage[i].by = r}) = 1
    /\ \A k \in Keys : memory[k] <=
          Cardinality({r \in Requests : req[r].key = k /\ req[r].chat /\ req[r].stage \in {"billed", "broken"}})
=============================================================================
