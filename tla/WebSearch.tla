------------------------------ MODULE WebSearch ------------------------------
(***************************************************************************)
(* Answers from the web: the chain of search providers and its memory         *)
(* (web/search.py), the fetching of pages (web/fetch.py), the numbered        *)
(* sources of a chat request (web/research.py, api/chat.py), and the agent's  *)
(* tools web_search and fetch_url. One chain, as each process has one.       *)
(*                                                                         *)
(* Each await is a step: a provider that answers or fails, and of a page the  *)
(* look-up of its host, its robots.txt and its download. A page is a name; of  *)
(* a URL that redirects only its host changes. What is done with the prompt    *)
(* is in Gateway and ChatTurn.                                              *)
(***************************************************************************)
EXTENDS Integers, Sequences, SequencesExt

CONSTANTS Requests, Agents, \* chat requests with web_search, and the agent's calls among them
          Queries, QueryOf,
          Providers,        \* the chain: a sequence
          Sites, Results,   \* pages, and what a provider may find: a set of sequences of them
          Hosts, Private, HostOf, Nowhere,
          AllowPrivate,     \* settings.fetch_allow_private
          MaxSources, MAX_REDIRECTS, TTL, CacheSize,
          MaxTick           \* bound: the clock

ASSUME WebAssumption ==
    /\ Agents \subseteq Requests /\ QueryOf \in [Requests -> Queries] /\ Len(Providers) \in Nat \ {0}
    /\ Results \subseteq Seq(Sites) \ {<<>>}
    /\ Private \subseteq Hosts /\ HostOf \in [Sites -> Hosts] /\ AllowPrivate \in BOOLEAN
    /\ {MaxSources, MAX_REDIRECTS, TTL, CacheSize, MaxTick} \subseteq Nat

VARIABLES
    tick,
    known,    \* SearchChain._cache, the entry to be evicted first in front; since, heard: history
    ask,
    reached   \* history: hosts a page or a robots.txt was asked of

webVars == <<tick, known, ask, reached>>

\* tried, failed: providers asked, and those that raised. The two kinds of
\* caller ask for different numbers of results, so they share no entry.
Unread(at) == [at |-> at, host |-> Nowhere, hops |-> 0]
Fresh == [stage |-> "idle", tried |-> 0, failed |-> 0, found |-> <<>>, age |-> 0,
          pages |-> [s \in Sites |-> Unread("none")], sources |-> <<>>]
Key(r) == <<QueryOf[r], r \in Agents>>

WebInit ==
    /\ tick = 0 /\ known = <<>> /\ ask = [r \in Requests |-> Fresh]
    /\ reached = {}

-----------------------------------------------------------------------------
Stands(r, stage) == ask[r].stage = stage
Becomes(r, record) == ask' = [ask EXCEPT ![r] = record]

(* A failed search is told to the model, or goes back beside the reply.       *)
Searchless == [Fresh EXCEPT !.stage = "prompt"]

(* With results, an agent has all it wants; of a chat the first pages are     *)
(* fetched, all at once.                                                    *)
Fetching(record, found) ==
    LET first == SubSeq(found, 1, IF Len(found) < MaxSources THEN Len(found) ELSE MaxSources)
    IN [record EXCEPT !.stage = IF first = <<>> THEN "prompt" ELSE "fetching", !.found = first,
           !.pages = [s \in Sites |-> IF s \in ToSet(first) THEN [at |-> "check", host |-> HostOf[s], hops |-> 0] ELSE @[s]]]
Found(r, found, age) ==
    LET record == [Fresh EXCEPT !.age = age]
    IN IF r \in Agents THEN [record EXCEPT !.stage = "told", !.found = found] ELSE Fetching(record, found)

(* _web_sources, research and SearchChain.search up to the first await.       *)
Live(entry) == tick - entry.at < TTL
\* variant: what is given anew counts as said anew
RecalledAnew(i) == Append(RemoveAt(known, i), [known[i] EXCEPT !.at = tick])
Recalled(i) == Append(RemoveAt(known, i), known[i])
Search(r) ==
    /\ Stands(r, "idle")
    /\ LET entries == {i \in DOMAIN known : known[i].key = Key(r) /\ Live(known[i])}
       IN IF entries # {}
          THEN \E i \in entries :
                  known' = Recalled(i) /\ Becomes(r, Found(r, known[i].found, tick - known[i].since))
          ELSE known' = known /\ Becomes(r, [ask[r] EXCEPT !.stage = "searching"])
    /\ UNCHANGED <<tick, reached>>

(* Web search is switched off, or the message has no words.                  *)
Skip(r) ==
    /\ Stands(r, "idle") /\ Becomes(r, Searchless)
    /\ UNCHANGED <<tick, known, reached>>

(* An entry that was there keeps its place, though not its time.              *)
Stored(r, found, heard) ==
    LET entry == [key |-> Key(r), at |-> tick, since |-> tick, heard |-> heard, found |-> found]
        old   == {i \in DOMAIN known : known[i].key = Key(r)}
        all   == IF old = {} THEN Append(known, entry)
                 ELSE [i \in DOMAIN known |-> IF i \in old THEN entry ELSE known[i]]
    IN IF Len(all) > CacheSize THEN SubSeq(all, Len(all) - CacheSize + 1, Len(all)) ELSE all

(* One provider after the other: the first that finds something. When the      *)
(* last of them is through, nothing found is an answer too, unless they all    *)
(* failed.                                                                  *)
Finds(r) ==
    /\ Stands(r, "searching")
    /\ \E found \in Results : known' = Stored(r, found, ask[r].tried + 1 - ask[r].failed) /\ Becomes(r, Found(r, found, 0))
    /\ UNCHANGED <<tick, reached>>
AllFailed(failed) == failed = Len(Providers)
FindsNothing(r, fails) ==
    LET failed == ask[r].failed + (IF fails THEN 1 ELSE 0)
    IN /\ Stands(r, "searching")
       /\ IF ask[r].tried + 1 < Len(Providers)
          THEN known' = known /\ Becomes(r, [ask[r] EXCEPT !.tried = @ + 1, !.failed = failed])
          ELSE IF AllFailed(failed) THEN known' = known /\ Becomes(r, Searchless)
          ELSE known' = Stored(r, <<>>, Len(Providers) - failed) /\ Becomes(r, Found(r, <<>>, 0))
       /\ UNCHANGED <<tick, reached>>

(* A body of another shape than the provider promises raises what no caller    *)
(* of the chain expects; in a chat so does a URL that httpx cannot parse.     *)
Breaks(r) ==
    /\ \/ Stands(r, "searching")
       \/ r \notin Agents /\ Stands(r, "fetching") /\ \E s \in Sites : ask[r].pages[s].at \in {"robots", "get"}
    /\ Becomes(r, [Fresh EXCEPT !.stage = "failed"])
    /\ UNCHANGED <<tick, known, reached>>

(* The agent's timeout around a call.                                        *)
GivesUp(r) ==
    /\ r \in Agents /\ ask[r].stage \in {"searching", "fetching"}
    /\ Becomes(r, Searchless) /\ UNCHANGED <<tick, known, reached>>

-----------------------------------------------------------------------------
(* fetch_page, of a page of a search or of the tool fetch_url. A page that     *)
(* fails, or takes too long, is replaced by what the search said of it.       *)
Page(r, s, at) == Stands(r, "fetching") /\ ask[r].pages[s].at = at
Reads(r, s, at)  == Becomes(r, [ask[r] EXCEPT !.pages[s].at = at])
Closes(r, s, at) == Becomes(r, [ask[r] EXCEPT !.pages[s] = Unread(at)])
FetchUrl(r, s) ==
    /\ Stands(r, "idle") /\ r \in Agents
    /\ Becomes(r, Fetching(ask[r], <<s>>)) /\ UNCHANGED <<tick, known, reached>>

MayReach(host) == AllowPrivate \/ host \notin Private
CheckDestination(r, s) ==
    /\ Page(r, s, "check")
    /\ IF MayReach(ask[r].pages[s].host) THEN Reads(r, s, "robots") ELSE Closes(r, s, "snippet")
    /\ UNCHANGED <<tick, known, reached>>
(* A port or a host name that is none raises a ValueError: the search failed,  *)
(* with the pages that could be read (what is under way for them is wasted).  *)
BadAddress(r, s) ==
    /\ Page(r, s, "check") /\ Becomes(r, Searchless) /\ UNCHANGED <<tick, known, reached>>

Reaches(r, s) == reached' = reached \union {ask[r].pages[s].host}
RobotsAllows(r, s) ==
    /\ Page(r, s, "robots") /\ Reaches(r, s)
    /\ Reads(r, s, "get") \/ Closes(r, s, "snippet")
    /\ UNCHANGED <<tick, known>>
\* Text, or a page without any, or with too much; HTTP errors, no text page.
Download(r, s) ==
    /\ Page(r, s, "get") /\ Reaches(r, s)
    /\ \E at \in {"text", "snippet"} : Closes(r, s, at)
    /\ UNCHANGED <<tick, known>>
\* variant: the client follows redirects by itself
RedirectedUnchecked(page, host) ==
    IF page.hops < MAX_REDIRECTS THEN [at |-> "get", host |-> host, hops |-> page.hops + 1]
    ELSE Unread("snippet")
Redirected(page, host) ==
    IF page.hops < MAX_REDIRECTS THEN [at |-> "check", host |-> host, hops |-> page.hops + 1]
    ELSE Unread("snippet")
Redirect(r, s) ==
    /\ Page(r, s, "get") /\ Reaches(r, s)
    /\ \E host \in Hosts : Becomes(r, [ask[r] EXCEPT !.pages[s] = Redirected(@, host)])
    /\ UNCHANGED <<tick, known>>
FetchTimeout(r, s) ==
    /\ Stands(r, "fetching") /\ ask[r].pages[s].at \in {"check", "robots", "get"} /\ Closes(r, s, "snippet")
    /\ UNCHANGED <<tick, known, reached>>

(* The sources: those of the pages that have a passage, numbered; a search     *)
(* result need not have a snippet.                                          *)
Numbered(r, sites) == [i \in DOMAIN sites |-> [index |-> i, site |-> sites[i], text |-> ask[r].pages[sites[i]].at]]
Rank(r) ==
    /\ Stands(r, "fetching") /\ \A s \in Sites : ask[r].pages[s].at \in {"none", "text", "snippet"}
    /\ IF r \in Agents THEN Becomes(r, [Fresh EXCEPT !.stage = "told"])
       ELSE \E blank \in SUBSET Sites :
               /\ \A s \in blank : ask[r].pages[s].at = "snippet"
               /\ Becomes(r, [Fresh EXCEPT !.stage = "prompt",
                      !.sources = Numbered(r, SelectSeq(ask[r].found, LAMBDA s : s \notin blank))])
    /\ UNCHANGED <<tick, known, reached>>

(* The model has its prompt; the caller asks again, or for something else.     *)
AskAgain(r) ==
    /\ ask[r].stage \in {"told", "prompt", "failed"}
    /\ Becomes(r, Fresh) /\ UNCHANGED <<tick, known, reached>>
Tick == tick < MaxTick /\ tick' = tick + 1 /\ UNCHANGED <<known, ask, reached>>

WebNext ==
    \/ Tick
    \/ \E r \in Requests :
         \/ Search(r) \/ Skip(r) \/ Finds(r) \/ (\E fails \in BOOLEAN : FindsNothing(r, fails))
         \/ Breaks(r) \/ GivesUp(r) \/ Rank(r) \/ AskAgain(r)
         \/ \E s \in Sites : \/ FetchUrl(r, s) \/ CheckDestination(r, s) \/ BadAddress(r, s)
                             \/ RobotsAllows(r, s) \/ Download(r, s) \/ Redirect(r, s) \/ FetchTimeout(r, s)
WebSpec == WebInit /\ [][WebNext]_webVars
-----------------------------------------------------------------------------
(* Properties. *)

WebTypeOK ==
    /\ tick \in 0..MaxTick /\ Len(known) <= CacheSize /\ reached \subseteq Hosts
    /\ \A r \in Requests :
          /\ ask[r].stage \in {"idle", "searching", "fetching", "prompt", "told", "failed"}
          /\ ask[r].tried < Len(Providers) /\ ask[r].failed <= ask[r].tried
          /\ ToSet(ask[r].found) \subseteq Sites /\ Len(ask[r].sources) <= MaxSources

(* What a caller is given was said by a provider less than a TTL before, how   *)
(* often it was given since, and "nothing" only if one of them said so        *)
(* (SearchChain.search).                                                    *)
AnswersAreRecent ==
    /\ \A r \in Requests : ask[r].age = 0 \/ ask[r].age < TTL
    /\ \A i \in DOMAIN known : known[i].found = <<>> => known[i].heard > 0

(* Whatever a search found and wherever a page redirects to, neither a page    *)
(* nor a robots.txt is asked of a host of a private network, unless that is   *)
(* allowed (check_destination, fetch_page).                                 *)
OnlyCheckedHostsAreReached == AllowPrivate \/ reached \cap Private = {}
=============================================================================
