------------------------------- MODULE Stream --------------------------------
(***************************************************************************)
(* One model call whose reply is streamed (src/src/llm/stream.rs and       *)
(* stream/): the gateway's events framed as lines, lines cut into chunks,  *)
(* an assembler for each wire format, bodies that end too early, and the   *)
(* attempts that start over (client.rs).  Gateway has the same call's      *)
(* time; here a chunk is late or not.                                      *)
(***************************************************************************)
EXTENDS Reply

CONSTANTS
  Messages,     \* of each format: what the gateway may say
  Styles,       \* of each format: how gateways stream it
  MaxAttempts

VARIABLES
  format,
  phase,        \* ready for an attempt; reading one body, or a stream; answered
  attempt, timeouts,
  said, style,  \* the gateway's message, and how it streams it
  sent,         \* pieces sent of its head, of each block, of its tail
  wire,         \* bytes not read yet
  sse,          \* SseParser: the line being received, the data of the event
  asm,          \* Assembler
  shown,        \* what the observer collected of this attempt
  outcome       \* the reply, or the class of the error

sender == <<said, style, sent>>
reader == <<wire, sse, asm>>
call == <<phase, attempt, timeouts, sender, reader, shown, outcome>>

Nothing == [text |-> <<>>, thinking |-> <<>>, calls |-> <<>>]
Pending == Failed("not yet")
Silent == [blocks |-> <<>>]

Timeout == Failed("timeout")
Transport == Failed("transport")
Overloaded == Failed("overloaded")
Rejected == Failed("rejected")
Retryable == {Timeout, Transport, Overloaded}
Errors == Retryable \cup {Rejected}

(* What the gateways say (external).  The fields of an OpenAI message have *)
(* a text, and its reasoning comes in the order of the fields; a gateway   *)
(* that does not number its calls gives each an id, and gives it once.  An *)
(* Anthropic reply has output, and signs no text and no call.  The         *)
(* newline between two thoughts and the arguments that stand for none are  *)
(* not what a gateway says.                                                *)
Message == [blocks : Seq(Block), stop : STRING, usage : [input : Nat, cached : Nat, output : Nat]]
CallBlocks(m) == {i \in DOMAIN m.blocks : m.blocks[i].type = "tool_use"}
Wellformed(m) ==
  /\ m \in Message
  /\ \A i \in DOMAIN m.blocks : Newline \notin ToSet(m.blocks[i].text)
  /\ \A i \in CallBlocks(m) : m.blocks[i].text # NoArguments /\ Len(m.blocks[i].id) <= 1
  /\ \A i, j \in CallBlocks(m) : m.blocks[i].id = m.blocks[j].id => i = j \/ m.blocks[i].id = <<>>
OpenaiMessage(m) ==
  /\ \A i \in DOMAIN m.blocks \ CallBlocks(m) :
       /\ m.blocks[i].type \in ToSet(ReasoningFields) \cup {"text", "refusal"}
       /\ m.blocks[i].text # <<>>
  /\ \A i, j \in DOMAIN m.blocks, f, g \in 1..3 :
       /\ i < j /\ m.blocks[i].type = ReasoningFields[f] /\ m.blocks[j].type = ReasoningFields[g]
       => f <= g
AnthropicMessage(m) ==
  /\ m.usage.output > 0
  /\ \A i \in DOMAIN m.blocks : m.blocks[i].type \in {"text", "tool_use"} => m.blocks[i].signature = <<>>

Style == [indexed : BOOLEAN, merged : BOOLEAN, repeats : BOOLEAN]
ASSUME GatewayAssumption ==
  /\ DOMAIN Messages = {"openai", "anthropic"}
  /\ \A f \in DOMAIN Messages : Styles[f] \subseteq Style /\ \A m \in Messages[f] : Wellformed(m)
  /\ \A m \in Messages["openai"] : OpenaiMessage(m)
  /\ \A m \in Messages["anthropic"] : AnthropicMessage(m)
  /\ \A s \in Styles["openai"], m \in Messages["openai"] :
       s.indexed \/ (~s.repeats /\ \A i \in CallBlocks(m) : m.blocks[i].id # <<>>)

Put(f, i, v) == [k \in DOMAIN f \cup {i} |-> IF k = i THEN v ELSE f[k]]

-----------------------------------------------------------------------------
(* The gateway (external).  Pieces of a part of the message come in order, *)
(* parts one after the other, but numbered calls may come interleaved.     *)
NoIndex == 0
CallDelta(index, id, name, text) ==
  [type |-> "call", index |-> index, id |-> id, name |-> name, text |-> text]
CallsUpTo(blocks, p) == Cardinality({i \in 1..p : blocks[i].type = "tool_use"})
CallPieces(b, index, s) ==
  LET first == IF s.merged /\ b.text # <<>> THEN 1 ELSE 0
      Again(x) == IF s.repeats THEN x ELSE <<>>
  IN <<CallDelta(index, b.id, b.name, SubSeq(b.text, 1, first))>>
     \o [k \in 1..Len(b.text) - first |->
           CallDelta(index, Again(b.id), Again(b.name), <<b.text[k + first]>>)]
Pieces(m, s, p) ==
  LET b == m.blocks[p] IN
  IF b.type = "tool_use"
  THEN CallPieces(b, IF s.indexed THEN CallsUpTo(m.blocks, p) ELSE NoIndex, s)
  ELSE [k \in DOMAIN b.text |-> [type |-> "delta", field |-> b.type, text |-> <<b.text[k]>>]]

OpenaiTail(m) ==
  (IF m.blocks = <<>> \/ m.stop = "" THEN <<>> ELSE <<[type |-> "finish", reason |-> m.stop]>>)
  \o <<[type |-> "usage", usage |-> m.usage], [type |-> "[DONE]"]>>
OpenaiScript(m, s) ==
  <<<<>>>> \o [p \in DOMAIN m.blocks |-> Pieces(m, s, p)] \o <<OpenaiTail(m)>>

DeltaType(b) ==
  IF b.type = "text" THEN "text_delta"
  ELSE IF b.type = "thinking" THEN "thinking_delta" ELSE "input_json_delta"
Announced(b) == IF b.type \in {"thinking", "text", "tool_use"}
                THEN [b EXCEPT !.text = <<>>, !.signature = <<>>] ELSE b
BlockEvents(b, p) ==
  LET Delta(type, text) ==
        [type |-> "content_block_delta", index |-> p, delta |-> type, text |-> text] IN
  <<[type |-> "content_block_start", index |-> p, block |-> Announced(b)]>>
  \o (IF Announced(b) = b THEN <<>>
      ELSE [k \in DOMAIN b.text |-> Delta(DeltaType(b), <<b.text[k]>>)])
  \o (IF b.type = "thinking" THEN <<Delta("signature_delta", b.signature)>> ELSE <<>>)

AnthropicHead(m) == <<[type |-> "message_start", usage |-> [m.usage EXCEPT !.output = 1]]>>
AnthropicTail(m, s) ==
  <<[type |-> "message_delta", stop |-> m.stop,
     usage |-> IF s.repeats THEN m.usage ELSE [m.usage EXCEPT !.input = 0]],
    [type |-> "message_stop"]>>
AnthropicScript(m, s) ==
  <<AnthropicHead(m)>> \o [p \in DOMAIN m.blocks |-> BlockEvents(m.blocks[p], p)]
  \o <<AnthropicTail(m, s)>>

Script(m, s) == IF format = "openai" THEN OpenaiScript(m, s) ELSE AnthropicScript(m, s)

IsCall(m, part) == part - 1 \in CallBlocks(m)
Interleaves(i, j) ==
  format = "openai" /\ style.indexed /\ IsCall(said, i) /\ IsCall(said, j) /\ sent[j] > 0

(* An event's line comes in two halves, its end, and the blank line. *)
Byte(part, payload) == [part |-> part, payload |-> payload]
Eol == Byte("eol", "none")
Event(payload) == <<Byte("head", payload), Byte("rest", payload), Eol, Eol>>

SendPart(i) ==
  LET script == Script(said, style) IN
  /\ sent[i] < Len(script[i])
  /\ \A j \in 1..i - 1 : sent[j] = Len(script[j]) \/ Interleaves(i, j)
  /\ sent' = [sent EXCEPT ![i] = sent[i] + 1]
  /\ wire' = Event(script[i][sent[i] + 1])

(* An error object in the stream, a payload that is no JSON, a keep-alive. *)
Stray == {Event([type |-> "error", class |-> c]) : c \in {Overloaded, Rejected}}
         \cup {Event([type |-> "garbage"]), <<Byte("comment", "none"), Eol>>}

Send ==
  /\ phase = "stream" /\ wire = <<>>
  /\ \/ \E i \in DOMAIN sent : SendPart(i)
     \/ wire' \in Stray /\ UNCHANGED sent
  /\ UNCHANGED <<format, phase, attempt, timeouts, said, style, sse, asm, shown, outcome>>

-----------------------------------------------------------------------------
(* OpenAI chunks. *)
NewCall == [id |-> <<>>, name |-> <<>>, arguments |-> <<>>]
OpenaiNew ==
  [text |-> <<>>, refusal |-> <<>>, reasoning |-> [f \in ToSet(ReasoningFields) |-> <<>>],
   calls |-> <<>>, last |-> NoIndex, finish |-> "", usage |-> NoUsage, choice |-> FALSE,
   done |-> FALSE]

(* Mutant: every fragment without an index continues the last call. *)
MutCallIndex(a, p) ==
  IF p.index # NoIndex THEN p.index
  ELSE IF a.last # NoIndex THEN a.last ELSE Cardinality(DOMAIN a.calls) + 1
CallIndex(a, p) ==
  IF p.index # NoIndex THEN p.index
  ELSE IF p.id = <<>> /\ a.last # NoIndex THEN a.last ELSE Cardinality(DOMAIN a.calls) + 1

Filled(old, new) == IF old = <<>> THEN new ELSE old
apply_call(a, p) ==
  LET index == CallIndex(a, p)
      entry == IF index \in DOMAIN a.calls THEN a.calls[index] ELSE NewCall
  IN [a EXCEPT !.choice = TRUE, !.last = index,
               !.calls = Put(a.calls, index,
                             [id |-> Filled(entry.id, p.id), name |-> Filled(entry.name, p.name),
                              arguments |-> entry.arguments \o p.text])]

(* The field a delta's text goes to. *)
apply(a, p) ==
  LET chosen == [a EXCEPT !.choice = TRUE] IN
  IF p.field = "text" THEN [chosen EXCEPT !.text = a.text \o p.text]
  ELSE IF p.field = "refusal" THEN [chosen EXCEPT !.refusal = a.refusal \o p.text]
  ELSE [chosen EXCEPT !.reasoning[p.field] = a.reasoning[p.field] \o p.text]

OpenaiFeed(a, p) ==
  CASE p.type = "delta" -> apply(a, p)
    [] p.type = "call" -> apply_call(a, p)
    [] p.type = "finish" -> [a EXCEPT !.choice = TRUE, !.finish = p.reason]
    [] p.type = "usage" ->
         [a EXCEPT !.usage = [prompt |-> p.usage.input, completion |-> p.usage.output]]
    [] OTHER -> [a EXCEPT !.done = TRUE]

(* into_values of the BTreeMap: the calls by their indexes.                *)
Values(calls) ==
  FlattenSeq([i \in 1..Max({0} \cup DOMAIN calls) |->
                IF i \in DOMAIN calls THEN <<calls[i]>> ELSE <<>>])
OpenaiFinish(a) ==
  IF a.finish = "" /\ ~a.done THEN Transport
  ELSE IF ~a.choice THEN EmptyChoices
  ELSE IF a.refusal # <<>> THEN Refused
  ELSE LlmReply(
         Joined([f \in 1..3 |-> a.reasoning[ReasoningFields[f]]]),
         a.text, a.finish,
         [i \in DOMAIN Values(a.calls) |->
            LET c == Values(a.calls)[i] IN
            Requested([id |-> c.id, name |-> c.name, text |-> c.arguments])],
         a.usage, <<>>)

-----------------------------------------------------------------------------
(* Anthropic events. *)
NoCounts == [input |-> 0, cached |-> 0, output |-> 0]
AnthropicNew ==
  [slots |-> <<>>, by_index |-> <<>>, stop |-> "", usage |-> NoCounts, stopped |-> FALSE]

start_block(a, p) ==
  IF p.block.type \notin ReplayTypes \cup {"text", "tool_use"} THEN a
  ELSE [a EXCEPT !.slots = Append(a.slots, p.block),
                 !.by_index = Put(a.by_index, p.index, Len(a.slots) + 1)]

Folds(delta, type) ==
  \/ delta = "text_delta" /\ type = "text"
  \/ delta = "thinking_delta" /\ type = "thinking"
  \/ delta = "input_json_delta" /\ type = "tool_use"

(* Mutant: the wire's index is taken for the slot's. *)
MutSlotOf(a, index) == IF index \in DOMAIN a.slots THEN index ELSE 0
SlotOf(a, index) == IF index \in DOMAIN a.by_index THEN a.by_index[index] ELSE 0

apply_delta(a, p) ==
  LET s == SlotOf(a, p.index) IN
  IF s = 0 THEN a
  ELSE IF Folds(p.delta, a.slots[s].type)
  THEN [a EXCEPT !.slots[s].text = a.slots[s].text \o p.text]
  ELSE IF p.delta = "signature_delta" /\ a.slots[s].type = "thinking"
  THEN [a EXCEPT !.slots[s].signature = a.slots[s].signature \o p.text]
  ELSE a

(* Counts only grow. *)
merge_usage(u, v) == [k \in DOMAIN u |-> IF u[k] >= v[k] THEN u[k] ELSE v[k]]

AnthropicFeed(a, p) ==
  CASE p.type = "message_start" -> [a EXCEPT !.usage = merge_usage(a.usage, p.usage)]
    [] p.type = "content_block_start" -> start_block(a, p)
    [] p.type = "content_block_delta" -> apply_delta(a, p)
    [] p.type = "message_delta" ->
         [a EXCEPT !.stop = p.stop, !.usage = merge_usage(a.usage, p.usage)]
    [] p.type = "message_stop" -> [a EXCEPT !.stopped = TRUE]
    [] OTHER -> a

AnthropicFinish(a) ==
  IF a.stop = "" /\ ~a.stopped THEN Transport
  ELSE parse_response([blocks |-> a.slots, stop |-> a.stop, usage |-> a.usage])

-----------------------------------------------------------------------------
(* Either format, and what the observer sees of a payload: fragments of    *)
(* the text and the thinking, and of each call with what is known of it.   *)
Assembler == IF format = "openai" THEN OpenaiNew ELSE AnthropicNew
Feed(a, p) == IF format = "openai" THEN OpenaiFeed(a, p) ELSE AnthropicFeed(a, p)
Assembled(a) == IF format = "openai" THEN OpenaiFinish(a) ELSE AnthropicFinish(a)

ShowText(text) == [shown EXCEPT !.text = shown.text \o text]
ShowThinking(text) == [shown EXCEPT !.thinking = shown.thinking \o text]
ShowCall(index, id, name, text) ==
  LET before == IF index \in DOMAIN shown.calls THEN shown.calls[index].fragment ELSE <<>> IN
  [shown EXCEPT !.calls = Put(shown.calls, index,
                              [id |-> id, name |-> name, fragment |-> before \o text])]

ShownOpenai(p) ==
  IF p.type = "delta"
  THEN IF p.field = "text" THEN ShowText(p.text)
       ELSE IF p.field = "refusal" THEN shown ELSE ShowThinking(p.text)
  ELSE IF p.type = "call"
  THEN LET c == apply_call(asm, p).calls[CallIndex(asm, p)] IN
       ShowCall(CallIndex(asm, p), c.id, c.name, p.text)
  ELSE shown

ShownAnthropic(p) ==
  IF p.type = "content_block_start" /\ p.block.type = "tool_use"
  THEN ShowCall(CallsUpTo(asm.slots, Len(asm.slots)) + 1, p.block.id, p.block.name, <<>>)
  ELSE IF p.type # "content_block_delta" \/ SlotOf(asm, p.index) = 0 THEN shown
  ELSE LET s == SlotOf(asm, p.index)
           b == asm.slots[s] IN
       IF ~Folds(p.delta, b.type) THEN shown
       ELSE IF b.type = "text" THEN ShowText(p.text)
       ELSE IF b.type = "thinking" THEN ShowThinking(p.text)
       ELSE ShowCall(CallsUpTo(asm.slots, s), b.id, b.name, p.text)

Shown(p) == IF format = "openai" THEN ShownOpenai(p) ELSE ShownAnthropic(p)

Ends(p) == p.type \in {"[DONE]", "message_stop"}

-----------------------------------------------------------------------------
Idle ==
  /\ phase' = "ready" /\ attempt' = 1 /\ timeouts' = 0
  /\ said' = Silent /\ style' = Silent /\ sent' = <<>>
  /\ wire' = <<>> /\ sse' = [line |-> <<>>, data |-> <<>>] /\ asm' = <<>>
  /\ shown' = Nothing /\ outcome' = Pending

StreamInit ==
  /\ format \in DOMAIN Messages
  /\ phase = "ready" /\ attempt = 1 /\ timeouts = 0
  /\ said = Silent /\ style = Silent /\ sent = <<>>
  /\ wire = <<>> /\ sse = [line |-> <<>>, data |-> <<>>] /\ asm = <<>>
  /\ shown = Nothing /\ outcome = Pending

Return(result) ==
  /\ phase' = "answered" /\ outcome' = result
  /\ UNCHANGED <<format, attempt, sender, reader, shown>>

(* The body is of one piece or a stream, as the gateway likes. *)
Open ==
  /\ phase = "ready"
  /\ phase' \in {"body", "stream"}
  /\ said' \in Messages[format] /\ style' \in Styles[format]
  /\ sent' = [i \in 1..Len(said'.blocks) + 2 |-> 0]
  /\ asm' = Assembler
  /\ UNCHANGED <<format, attempt, timeouts, wire, sse, shown, outcome>>

(* An attempt fails for good, or the next one starts over: a Retry is      *)
(* shown, and nothing shown or assembled before it counts any more.        *)
AttemptFails(error) ==
  LET spent == timeouts + (IF error = Timeout THEN 1 ELSE 0) IN
  /\ timeouts' = spent
  /\ \/ Return(error)
     \/ /\ error \in Retryable /\ spent <= 1 /\ attempt < MaxAttempts
        /\ phase' = "ready" /\ attempt' = attempt + 1
        /\ said' = Silent /\ style' = Silent /\ sent' = <<>>
        /\ wire' = <<>> /\ sse' = [line |-> <<>>, data |-> <<>>] /\ asm' = <<>>
        /\ shown' = Nothing
        /\ UNCHANGED <<format, outcome>>

(* A connection that fails, an error status, a silence. *)
Broken == phase \in {"body", "stream"} /\ \E error \in Errors : AttemptFails(error)

WholeBody ==
  /\ phase = "body"
  /\ Return(Parsed(format, said))
  /\ UNCHANGED timeouts

Finish(a) ==
  IF Assembled(a) \in Errors THEN AttemptFails(Assembled(a))
  ELSE Return(Assembled(a)) /\ UNCHANGED timeouts

(* The body is over: an event still open is dropped. *)
BodyEnds == phase = "stream" /\ Finish(asm)

(* The end of a line: a data line is kept, the blank line gives the event. *)
TakeLine ==
  /\ sse' = [line |-> <<>>,
             data |-> IF sse.line = <<>> THEN <<>>
                      ELSE IF Head(sse.line).part = "comment" THEN sse.data
                      ELSE Append(sse.data, Head(sse.line).payload)]
  /\ wire' = Tail(wire)

Dispatches == sse.line = <<>> /\ sse.data # <<>>

Chunk ==
  /\ phase = "stream" /\ wire # <<>>
  /\ IF Head(wire).part # "eol"
     THEN /\ sse' = [sse EXCEPT !.line = Append(sse.line, Head(wire))]
          /\ wire' = Tail(wire)
          /\ UNCHANGED <<phase, attempt, timeouts, sender, asm, shown, outcome>>
     ELSE IF ~Dispatches
     THEN TakeLine /\ UNCHANGED <<phase, attempt, timeouts, sender, asm, shown, outcome>>
     ELSE LET p == Head(sse.data) IN
          IF p.type = "error" THEN AttemptFails(p.class)
          ELSE IF p.type = "garbage" THEN AttemptFails(Rejected)
          ELSE IF Ends(p) THEN Finish(Feed(asm, p))
          ELSE /\ TakeLine
               /\ asm' = Feed(asm, p) /\ shown' = Shown(p)
               /\ UNCHANGED <<phase, attempt, timeouts, sender, outcome>>
  /\ UNCHANGED format

CallNext == Open \/ Send \/ Broken \/ WholeBody \/ BodyEnds \/ Chunk
=============================================================================
