---------------------------- MODULE Conversation -----------------------------
(***************************************************************************)
(* The Turns of a Session as the gateway reads them: each reply, however   *)
(* it came, and the results of its calls join the history                  *)
(* (src/src/research/agent_loop/runner.rs, dispatch.rs); the next request  *)
(* is made of what of the history fits (context.rs) and put in the         *)
(* gateway's format (src/src/llm/request.rs, anthropic.rs).  --trace       *)
(* records what was sent, by what is new in it (src/src/research/trace.rs). *)
(***************************************************************************)
EXTENDS Stream

CONSTANTS
  Objects,       \* texts that are a JSON object
  Results,       \* what a tool call may come to: [text, size]
  FixedSize,     \* of the system prompt and the goal
  MaxContext,    \* max_context_chars
  MaxTools,      \* max_tools_per_turn, at least one
  MaxTurns,      \* turns of the budget
  StreamedTurns  \* bound: later replies come in one body

ASSUME ConversationAssumption ==
  /\ {FixedSize, MaxContext, StreamedTurns} \subseteq Nat
  /\ {MaxTools, MaxTurns} \subseteq Nat \ {0}
  /\ Objects \subseteq Seq(STRING) /\ NoArguments \in Objects
  /\ Results \subseteq [text : Seq(STRING), size : Nat]

VARIABLES
  turn, history,
  dropped,       \* Turns the last request left out
  request,       \* the messages of the last request, as the gateway reads them
  spoken,        \* what the gateway said in each Turn that was answered
  retained, trace  \* TraceState: the last request traced; the rows of all of them

talk == <<turn, history, dropped, request, spoken>>
traced == <<retained, trace>>
conversation == <<call, format, talk, traced>>

Space == " "
Goal == <<"goal">>
System == <<"system">>

-----------------------------------------------------------------------------
(* History.  A size stands for the characters of a text. *)
SizeOf(text) == Len(text)
SumOf(sizes) ==
  LET sum[i \in 0..Len(sizes)] == IF i = 0 THEN 0 ELSE sum[i - 1] + sizes[i] IN sum[Len(sizes)]
EntrySize(e) ==
  IF e.kind = "text" THEN SizeOf(e.text) + e.size
  ELSE SizeOf(e.text) + SumOf([i \in DOMAIN e.replay |->
                                 SizeOf(e.replay[i].text) + SizeOf(e.replay[i].signature)])
       + SumOf([i \in DOMAIN e.calls |-> SizeOf(e.calls[i].arguments)])
       + SumOf([i \in DOMAIN e.results |-> e.results[i].size])

Since(h, k) == SubSeq(h, k + 1, Len(h))
Fits(sizes, k) == FixedSize + SumOf(Since(sizes, k)) <= MaxContext

(* Turns to drop, the oldest first: the newest is never one.  The mutant   *)
(* drops it too.                                                           *)
MutDropped(h) ==
  LET sizes == [i \in DOMAIN h |-> EntrySize(h[i])] IN
  Min({k \in 0..Len(h) : Fits(sizes, k)})
Dropped(h) ==
  LET sizes == [i \in DOMAIN h |-> EntrySize(h[i])] IN
  Min({k \in 0..Len(h) : Fits(sizes, k) \/ k >= Len(h) - 1})

(* ChatMessages, of an assistant with what it asked for and thought. *)
ChatMessage(role, text, calls, replay, id) ==
  [role |-> role, text |-> text, calls |-> calls, replay |-> replay, id |-> id]
Says(role, text) == ChatMessage(role, text, <<>>, <<>>, <<>>)

Assistant(e) == ChatMessage("assistant", e.text, e.calls, e.replay, <<>>)
EntryMessages(e) ==
  IF e.kind = "text"
  THEN (IF e.text = <<>> THEN <<>> ELSE <<Says("assistant", e.text)>>)
       \o <<Says("user", e.observation)>>
  ELSE <<Assistant(e)>>
       \o [i \in DOMAIN e.results |->
             ChatMessage("tool", e.results[i].text, <<>>, <<>>, e.results[i].id)]

assemble(h, k) ==
  <<Says("system", System), Says("user", Goal)>>
  \o (IF k = 0 THEN <<>> ELSE <<Says("user", <<"truncated", ToString(k)>>)>>)
  \o FlattenSeq([i \in 1..Len(h) - k |-> EntryMessages(h[k + i])])

-----------------------------------------------------------------------------
(* The Messages API: consecutive results make one user message, a blank    *)
(* text is left out, a message with nothing in it too.                     *)
NonBlank(text) == IF ToSet(text) \subseteq {Space} THEN <<>> ELSE <<[type |-> "text", text |-> text]>>

(* A stream keeps the arguments of a call as they came, and those of a     *)
(* call that max_tokens cut are no JSON; the runner only warns of the cut. *)
(* A body may hold JSON that is no object.  The API takes only objects.    *)
(* The mutant sends what there is.                                         *)
MutToolInput(arguments) == arguments
tool_input(arguments) == IF arguments \in Objects THEN arguments ELSE NoArguments
ToolUse(c) ==
  [type |-> "tool_use", id |-> c.id, name |-> c.name, input |-> tool_input(c.arguments)]
ToolResult(m) == [type |-> "tool_result", id |-> m.id, text |-> m.text]

(* Mutant: the blocks to echo come after the text. *)
MutAssistantContent(m) ==
  NonBlank(m.text) \o m.replay \o [i \in DOMAIN m.calls |-> ToolUse(m.calls[i])]
AssistantContent(m) ==
  m.replay \o NonBlank(m.text) \o [i \in DOMAIN m.calls |-> ToolUse(m.calls[i])]

Content(m) ==
  CASE m.role = "assistant" -> AssistantContent(m)
    [] m.role = "tool" -> <<ToolResult(m)>>
    [] OTHER -> NonBlank(m.text)
WireRole(m) == IF m.role = "assistant" THEN "assistant" ELSE "user"

(* Mutant: a message for each result. *)
MutJoins(messages, i) == FALSE
Joins(messages, i) == i > 1 /\ messages[i].role = "tool" /\ messages[i - 1].role = "tool"

(* The contents of a message and of the results that join it. *)
Group(messages, i) ==
  FlattenSeq([j \in DOMAIN messages |->
                IF j >= i /\ \A n \in i + 1..j : Joins(messages, n)
                THEN Content(messages[j]) ELSE <<>>])
Mapped(messages, i) ==
  IF messages[i].role = "system" \/ Joins(messages, i) \/ Group(messages, i) = <<>> THEN <<>>
  ELSE <<[role |-> WireRole(messages[i]), content |-> Group(messages, i)]>>
map_messages(messages) == FlattenSeq([i \in DOMAIN messages |-> Mapped(messages, i)])

Wire(messages) == IF format = "openai" THEN messages ELSE map_messages(messages)

-----------------------------------------------------------------------------
(* Ids the model left out are made up, of the Turn and the position. *)
MutResolve(calls) == calls
resolve_call_ids(calls) ==
  [i \in DOMAIN calls |->
     IF calls[i].id = <<>> THEN [calls[i] EXCEPT !.id = <<turn, i>>] ELSE calls[i]]

(* A call over the cap gets a result too; the last result of a Turn says   *)
(* how many are left.                                                      *)
Note == <<"turns left", ToString(MaxTurns - turn)>>
ResultFor(i, c, outcomes, last) ==
  LET r == IF i > MaxTools THEN [text |-> <<"not executed">>, size |-> 1] ELSE outcomes[i] IN
  [id |-> c.id, text |-> r.text \o (IF i = last THEN Note ELSE <<>>), size |-> r.size]

ToolTurn(calls, outcomes) ==
  [kind |-> "tool", text |-> outcome.output, calls |-> calls,
   results |-> [i \in DOMAIN calls |-> ResultFor(i, calls[i], outcomes, Len(calls))],
   replay |-> outcome.replay]
TextTurn ==
  [kind |-> "text", text |-> outcome.output, observation |-> <<"repair">> \o Note, size |-> 1]

(* The row of a request: what is new in it, if all of the last one is      *)
(* still there, or else all of it.  The system prompt is apart.  The       *)
(* mutant compares no more than the lengths.                               *)
TraceRow(full, messages) == [full |-> full, messages |-> messages]
MutModelRow(current) ==
  TraceRow(Len(current) < Len(retained), Since(current, Min({Len(retained), Len(current)})))
model_row(current) ==
  IF IsPrefix(retained, current) THEN TraceRow(FALSE, Since(current, Len(retained)))
  ELSE TraceRow(TRUE, current)

Traced == Tail(assemble(history, dropped))
trace_model == \E current \in {Traced} : retained' = current /\ trace' = Append(trace, model_row(current))

TalkInit ==
  /\ StreamInit
  /\ turn = 1 /\ history = <<>> /\ dropped = 0 /\ spoken = <<>>
  /\ retained = <<>> /\ trace = <<>>
  /\ request = Wire(assemble(<<>>, 0))

(* The reply has calls and the Turn is not the last, or it is no answer:   *)
(* the entry joins the history and the next request goes out.              *)
NextTurn(entry) ==
  /\ \E h \in {Append(history, entry)} : \E k \in {Dropped(h)} :
       \E messages \in {assemble(h, k)} :
         history' = h /\ dropped' = k /\ request' = Wire(messages)
  /\ turn' = turn + 1 /\ spoken' = Append(spoken, said)
  /\ Idle
  /\ UNCHANGED <<format, traced>>

Replied == phase = "answered" /\ outcome \notin Errors \cup {Refused, EmptyChoices}

ToolsRun ==
  /\ Replied /\ outcome.tool_calls # <<>> /\ turn < MaxTurns
  /\ LET calls == resolve_call_ids(outcome.tool_calls) IN
     \E outcomes \in [DOMAIN calls -> Results] : NextTurn(ToolTurn(calls, outcomes))

NoAnswer ==
  /\ Replied /\ outcome.tool_calls = <<>> /\ turn < MaxTurns
  /\ NextTurn(TextTurn)

(* A call that ends is traced, whatever came of it.                        *)
CallStep ==
  /\ CallNext
  /\ turn > StreamedTurns => phase' # "stream"
  /\ IF phase' = "answered" THEN trace_model ELSE UNCHANGED traced
  /\ UNCHANGED talk

TalkNext == CallStep \/ ToolsRun \/ NoAnswer

TalkSpec == TalkInit /\ [][TalkNext]_conversation

-----------------------------------------------------------------------------
(* Every call keeps the promise of ModelCall, although the reply comes in  *)
(* fragments, interleaved or cut, over attempts that start over (stream.rs *)
(* and client.rs).                                                         *)
Promised == INSTANCE ModelCall WITH said <- said, shown <- shown, outcome <- outcome
KeepsItsPromise == Promised!Spec

(* Whom a message of a request answers and asks, in either format. *)
Asks(m) ==
  IF format = "openai" THEN {m.calls[i].id : i \in DOMAIN m.calls}
  ELSE {m.content[i].id : i \in {j \in DOMAIN m.content : m.content[j].type = "tool_use"}}
Answers(m) ==
  IF format = "openai" THEN IF m.role = "tool" THEN <<m.id>> ELSE <<>>
  ELSE LET results == OfType(m.content, {"tool_result"}) IN [i \in DOMAIN results |-> results[i].id]

(* The answers between a message and the next that answers nothing. *)
AnswersAfter(k) ==
  FlattenSeq([j \in DOMAIN request |->
                IF j > k /\ \A i \in k + 1..j : Answers(request[i]) # <<>>
                THEN Answers(request[j]) ELSE <<>>])

(* In every request the calls of a Turn are answered, each once, before    *)
(* anything else is said, in one message where the format asks for one,    *)
(* and nothing is answered that was not asked (context.rs,                 *)
(* assert_valid_tool_pairing; anthropic.rs, map_messages).                 *)
CallsAnswered ==
  \A k \in DOMAIN request :
    /\ LET answers == AnswersAfter(k) IN
       Answers(request[k]) = <<>> =>
         /\ ToSet(answers) = Asks(request[k])
         /\ IsInjective(answers)
    /\ format = "anthropic" /\ k < Len(request) =>
         Answers(request[k]) = <<>> \/ Answers(request[k + 1]) = <<>>

(* A Turn that called tools is echoed as the gateway said it: the thinking *)
(* it must see again verbatim, first and in order (request.rs,             *)
(* ReplayBlocks), then the calls, each with the same arguments if they are *)
(* an object, and with an empty one if they are not, as of a call that was *)
(* cut (anthropic.rs, tool_input).                                         *)
Thoughts(m) == OfType(m.content, ReplayTypes)
Echoes(i, m) ==
  LET blocks == spoken[i].blocks
      uses == OfType(m.content, {"tool_use"})
      calls == OfType(blocks, {"tool_use"}) IN
  /\ Thoughts(m) = OfType(blocks, ReplayTypes)
  /\ Thoughts(m) = SubSeq(m.content, 1, Len(Thoughts(m)))
  /\ DOMAIN uses = DOMAIN calls
  /\ \A k \in DOMAIN calls :
       LET arguments == Requested(calls[k]).arguments IN
       /\ arguments \in Objects => uses[k].input = arguments
       /\ arguments \notin Objects => uses[k].input = NoArguments

TurnEchoed ==
  format = "anthropic" =>
    LET turns == Selected([i \in DOMAIN history |-> i],
                      {i \in dropped + 1..Len(history) : history[i].kind = "tool"})
        asking == Selected(request, {k \in DOMAIN request : Asks(request[k]) # {}})
    IN Len(asking) = Len(turns) /\ \A k \in DOMAIN turns : Echoes(turns[k], asking[k])

(* The transcript is append-only, so the gateway's cache of the last       *)
(* request serves the next (anthropic.rs), until Turns are dropped; the    *)
(* newest Turn is never dropped, and a dropped one never comes back        *)
(* (context.rs, truncate_history).                                         *)
TranscriptGrows ==
  [][turn' # turn =>
       /\ dropped' >= dropped /\ dropped' < Len(history')
       /\ dropped' = dropped => IsStrictPrefix(request, request')]_conversation

(* Who reads the rows of the trace in their order knows the request of     *)
(* every Turn, also after Turns were dropped from it (trace.rs,            *)
(* model_row).                                                             *)
Retold ==
  FlattenSeq([i \in DOMAIN trace |->
                IF \E j \in i + 1..Len(trace) : trace[j].full THEN <<>> ELSE trace[i].messages])
TraceRetells == phase = "answered" => Len(trace) = turn /\ Retold = Traced
=============================================================================
