---------------------------- MODULE MCAgentWrites ----------------------------
(***************************************************************************)
(* An instance for TLC of what the agent's tools do outside the agent:       *)
(* AgentWrites.tla, the files, and WebSearch.tla, the web, which a chat       *)
(* request searches too. They share no state: a behavior is one of one of     *)
(* them.                                                                    *)
(***************************************************************************)
EXTENDS AgentWrites, WebSearch, TLC

CONSTANTS file1, part1, part2, text1, text2, chat, agent, words, page, other, web, lan, duckduckgo, brave

MCPath == {file1}
MCPart == {part1, part2}
MCValue == {text1, text2}
MCProposed == {[z \in Part |-> text] : text \in Value}
MCSymmetry == Permutations(MCValue) \cup Permutations(MCPart)

\* A chat and the agent search for the same; the cache has room for one of them.
MCQueryOf == [r \in Requests |-> words]
MCProviders == <<duckduckgo, brave>>
MCResults == {<<page, other>>}
MCHostOf == [s \in Sites |-> web]

VARIABLE tool   \* the one that runs

\* Of the two, only the files may start in several ways.
ToolsInit ==
    /\ tool \in {"files", "web"} /\ Init /\ WebInit
    /\ tool # "files" => disk = [p \in Path |-> NoFile] /\ mode = "manual"
ToolsNext ==
    \/ tool = "files" /\ Next /\ UNCHANGED <<tool, webVars>>
    \/ tool = "web" /\ WebNext /\ UNCHANGED <<tool, vars>>
ToolsSpec == ToolsInit /\ [][ToolsNext]_<<tool, vars, webVars>>
=============================================================================
