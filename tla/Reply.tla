-------------------------------- MODULE Reply --------------------------------
(***************************************************************************)
(* What a gateway says in one body, and the reply both wire formats make   *)
(* of it (src/src/llm/reply.rs, response.rs, anthropic.rs).  A text is a   *)
(* sequence of fragments; a message is a sequence of blocks, which are the *)
(* fields of an OpenAI message or the content of an Anthropic one.         *)
(***************************************************************************)
EXTENDS Integers, SequencesExt

Newline == "newline"
NoArguments == <<"{}">>

(* A block: its type, its text (the arguments of a call), and what a call  *)
(* or an opaque block carries besides.  What is left out is empty.         *)
Block == [type : STRING, id : Seq(STRING), name : Seq(STRING), text : Seq(STRING),
          signature : Seq(STRING)]
ReasoningFields == <<"reasoning_content", "reasoning", "reasoning_details">>
ReplayTypes == {"thinking", "redacted_thinking"}

(* The elements of a sequence at some of its places, in their order. *)
Selected(s, places) == FlattenSeq([i \in DOMAIN s |-> IF i \in places THEN <<s[i]>> ELSE <<>>])

OfType(blocks, types) == Selected(blocks, {i \in DOMAIN blocks : blocks[i].type \in types})
Texts(blocks, types) ==
  [i \in DOMAIN blocks |-> IF blocks[i].type \in types THEN blocks[i].text ELSE <<>>]
Concat(blocks, types) == FlattenSeq(Texts(blocks, types))

(* Non-empty texts with a newline between each two. *)
Joined(texts) ==
  FlattenSeq([i \in DOMAIN texts |->
                IF texts[i] # <<>> /\ \E j \in 1..i - 1 : texts[j] # <<>>
                THEN <<Newline>> \o texts[i] ELSE texts[i]])

(* RequestedToolCall: absent arguments are an empty object. *)
Requested(b) ==
  [id |-> b.id, name |-> b.name, arguments |-> IF b.text = <<>> THEN NoArguments ELSE b.text]
Requests(calls) == [i \in DOMAIN calls |-> Requested(calls[i])]

(* What a call comes to that is no reply. *)
Failed(class) == [failed |-> class]
Refused == Failed("refused")
EmptyChoices == Failed("empty choices")

LlmReply(thinking, output, finish, calls, usage, replay) ==
  [thinking |-> thinking, output |-> output, finish_reason |-> finish, tool_calls |-> calls,
   usage |-> usage, replay |-> replay]

(* TokenUsage: what went in, cached tokens included, and what came out. *)
NoUsage == [prompt |-> 0, completion |-> 0]
TokenUsage(m) == [prompt |-> m.usage.input + m.usage.cached, completion |-> m.usage.output]

parse_reply(m) ==
  IF m.blocks = <<>> THEN EmptyChoices
  ELSE IF Concat(m.blocks, {"refusal"}) # <<>> THEN Refused
  ELSE LlmReply(
         Joined([f \in 1..3 |-> Concat(m.blocks, {ReasoningFields[f]})]),
         Concat(m.blocks, {"text"}),
         m.stop,
         Requests(OfType(m.blocks, {"tool_use"})),
         [prompt |-> m.usage.input, completion |-> m.usage.output], <<>>)

(* stop_reason in the vocabulary of finish_reason. *)
finish_reason(stop) ==
  CASE stop \in {"end_turn", "stop_sequence"} -> "stop"
    [] stop \in {"max_tokens", "model_context_window_exceeded"} -> "length"
    [] stop = "tool_use" -> "tool_calls"
    [] OTHER -> stop

(* Blocks of a type it does not know are passed over. *)
parse_response(m) ==
  IF m.stop = "refusal" THEN Refused
  ELSE LlmReply(
         Joined(Texts(m.blocks, {"thinking"})),
         Concat(m.blocks, {"text"}),
         finish_reason(m.stop),
         Requests(OfType(m.blocks, {"tool_use"})),
         TokenUsage(m),
         OfType(m.blocks, ReplayTypes))

Parsed(format, m) == IF format = "openai" THEN parse_reply(m) ELSE parse_response(m)
=============================================================================
