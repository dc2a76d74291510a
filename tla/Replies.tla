-------------------------------- MODULE Replies --------------------------------
(***************************************************************************)
(* One streamed reply of an inference server, as it is read by the agent:     *)
(* cut by the server into frames, Ollama's own (backends/ollama.py            *)
(* chat_stream) or those of OpenAI (backends/openai_compat.py chat_stream),   *)
(* made into chunks, and put together again (agent/loop.py _stream_completion).  *)
(*                                                                         *)
(* A text is a sequence of tokens; a tool call is the sequence of fragments   *)
(* its name and arguments are sent in. The ids of calls and token counts are  *)
(* left out. A gateway in between relays the chunks as they are.             *)
(***************************************************************************)
EXTENDS Integers, SequencesExt, FiniteSets

CONSTANTS Tokens,    \* of texts; and fragments of calls
          Answers    \* replies: text, calls, and whether the limit of tokens ends them

ASSUME RepliesAssumption ==
    Answers \subseteq [text : Seq(Tokens), calls : Seq(Seq(Tokens) \ {<<>>}), long : BOOLEAN]

VARIABLES
    reply,      \* what the server has to say
    native,     \* does it speak Ollama's own protocol?
    sent,       \* how much of it went: tokens, and fragments of each call
    toolIndex,  \* tool_index of the native chat_stream
    collected,  \* what the reader has: content_parts, and tool_calls by index
    finish,     \* finish_reason
    reading,    \* of the stream: "open", "ended", "failed", "stopped" early by the reader
    spoiled     \* history: a frame was no JSON and skipped

replyVars == <<reply, native, sent, toolIndex, collected, finish, reading, spoiled>>

Calls == DOMAIN reply.calls
RepliesInit ==
    /\ reply \in Answers /\ native \in BOOLEAN
    /\ sent = [text |-> 0, calls |-> [i \in Calls |-> 0]]
    /\ toolIndex = 0 /\ collected = [text |-> <<>>, calls |-> <<>>]
    /\ finish = "none" /\ reading = "open" /\ spoiled = FALSE

-----------------------------------------------------------------------------
(* Frames: the next tokens, none perhaps, and of the calls what comes next.     *)
(* Ollama sends the next calls whole and without a number, the others one      *)
(* fragment of a call under its number, from 0 on.                           *)
Unsent == {i \in Calls : sent.calls[i] < Len(reply.calls[i])}
NextParts ==
    IF native THEN {[i \in Calls |-> IF i <= last THEN Len(reply.calls[i]) ELSE sent.calls[i]] : last \in {0} \union Unsent}
    ELSE {[i \in Calls |-> sent.calls[i] + (IF i = one THEN 1 ELSE 0)] : one \in {0} \union Unsent}
Frames == {[text |-> n, calls |-> parts] : n \in sent.text..Len(reply.text), parts \in NextParts} \ {sent}
All == [text |-> Len(reply.text), calls |-> [i \in Calls |-> Len(reply.calls[i])]]

(* _openai_tool_calls numbers the calls of a frame from tool_index on.         *)
Parts(f) == {i \in Calls : f.calls[i] # sent.calls[i]}
Before(S, n) == Cardinality({m \in S : m < n})
\* variant: each frame numbers its calls from the start
NumberInFrame(f, i) == IF native THEN Before(Parts(f), i) ELSE i - 1
Number(f, i) == IF native THEN toolIndex + Before(Parts(f), i) ELSE i - 1
Delta(f) ==
    [text |-> SubSeq(reply.text, sent.text + 1, f.text),
     calls |-> {[index |-> Number(f, i), part |-> SubSeq(reply.calls[i], sent.calls[i] + 1, f.calls[i])] : i \in Parts(f)}]
Advanced(f) == IF native THEN toolIndex + Cardinality(Parts(f)) ELSE toolIndex

(* _stream_completion: a fragment goes to the end of the call with its number;     *)
(* no two fragments of a frame have the same one.                            *)
SoFar(n) == IF n \in DOMAIN collected.calls THEN collected.calls[n] ELSE <<>>
Collect(delta) ==
    [text |-> collected.text \o delta.text,
     calls |-> [n \in DOMAIN collected.calls \union {call.index : call \in delta.calls} |->
                  IF \E call \in delta.calls : call.index = n
                  THEN SoFar(n) \o (CHOOSE call \in delta.calls : call.index = n).part ELSE SoFar(n)]]
Message(c) ==
    LET order(place) == CHOOSE n \in DOMAIN c.calls : Before(DOMAIN c.calls, n) = place - 1
    IN [text |-> c.text, calls |-> [place \in 1..Cardinality(DOMAIN c.calls) |-> c.calls[order(place)]]]

(* from_native_response: the same reply when it is not streamed.               *)
FromNativeResponse == [text |-> reply.text, calls |-> reply.calls]
FinishReason(calls) == IF calls THEN "tool_calls" ELSE IF reply.long THEN "length" ELSE "stop"

-----------------------------------------------------------------------------
Read(f) ==
    /\ reading = "open" /\ sent' = f /\ toolIndex' = Advanced(f) /\ collected' = Collect(Delta(f))
    /\ UNCHANGED <<reply, native, spoiled>>
Frame(f) == f # All /\ Read(f) /\ UNCHANGED <<reading, finish>>

(* The last frame says that it is, and why; the others' servers say why in a    *)
(* chunk and end with [DONE].                                               *)
LastFrame ==
    /\ (All \in Frames \/ sent = All) /\ Read(All) /\ reading' = "ended"
    /\ finish' = FinishReason(IF native THEN toolIndex' > 0 ELSE Calls # {})

(* A frame that cannot be parsed is skipped; when it was the last the lines    *)
(* simply end.                                                              *)
SkipFrame ==
    /\ reading = "open" /\ spoiled' = TRUE
    /\ \E f \in Frames \union {All} : sent' = f /\ reading' = IF f = All THEN "ended" ELSE "open"
    /\ UNCHANGED <<reply, native, toolIndex, collected, finish>>

(* A native error frame, or the connection fails: the error goes to the reader. *)
StreamFails ==
    /\ reading = "open" /\ reading' = "failed"
    /\ UNCHANGED <<reply, native, sent, toolIndex, collected, finish, spoiled>>

(* The agent stops reading when the text so far is a tool call in words and    *)
(* there was no real one; what else the chunk has is not looked at.            *)
StopEarly ==
    /\ reading = "open" /\ DOMAIN collected.calls = {} /\ \E f \in Frames :
          /\ f.text > sent.text /\ sent' = f /\ toolIndex' = Advanced(f)
          /\ collected' = [collected EXCEPT !.text = @ \o Delta(f).text]
    /\ reading' = "stopped"
    /\ UNCHANGED <<reply, native, finish, spoiled>>

RepliesNext == (\E f \in Frames : Frame(f)) \/ LastFrame \/ SkipFrame \/ StreamFails \/ StopEarly
RepliesSpec == RepliesInit /\ [][RepliesNext]_replyVars

-----------------------------------------------------------------------------
(* Properties. *)

RepliesTypeOK ==
    /\ reply \in Answers /\ toolIndex \in 0..Len(reply.calls)
    /\ reading \in {"open", "ended", "failed", "stopped"} /\ finish \in {"none", "tool_calls", "length", "stop"}

(* A reply that was streamed to its end is the one that would have come in one *)
(* piece, call by call, and for the same reason, however the server cut it     *)
(* into frames; and its text is never anything but a beginning of that one's   *)
(* (chat_stream and chat of both backends, _stream_completion).                  *)
StreamedAsWhole ==
    ~spoiled => /\ IsPrefix(collected.text, reply.text)
                /\ reading = "ended" => Message(collected) = FromNativeResponse
                                      /\ finish = FinishReason(reply.calls # <<>>)
=============================================================================
