------------------------------ MODULE ModelCall ------------------------------
(***************************************************************************)
(* What one model call promises its caller, however the gateway sends the  *)
(* reply (src/src/llm/client.rs, chat_observed: "the returned reply is the *)
(* same whether the gateway streamed or sent one body"; reply.rs): the     *)
(* fragments shown belong to the attempt in flight, the next attempt       *)
(* starts over, and a call that returns a reply returns the whole of what  *)
(* was said in its last attempt, all of it shown or none of it.            *)
(***************************************************************************)
EXTENDS Reply

CONSTANTS Messages, Errors   \* what the gateway may say; errors that are no reply
VARIABLES format, said, shown, outcome

vars == <<format, said, shown, outcome>>

Nothing == [text |-> <<>>, thinking |-> <<>>, calls |-> <<>>]
Pending == Failed("not yet")
Silent == [blocks |-> <<>>]

(* What the fragments of a reply come to when all are shown. *)
Plain(text) == Selected(text, {i \in DOMAIN text : text[i] # Newline})
Thought(reply) == Plain(reply.thinking)
Argued(call) == IF call.arguments = NoArguments THEN <<>> ELSE call.arguments
Shows(reply) ==
  [text |-> reply.output, thinking |-> Thought(reply),
   calls |-> [i \in DOMAIN reply.tool_calls |->
                [id |-> reply.tool_calls[i].id, name |-> reply.tool_calls[i].name,
                 fragment |-> Argued(reply.tool_calls[i])]]]

(* Each part shown begins that part of the whole. *)
Begins(part, whole) ==
  /\ IsPrefix(part.text, whole.text)
  /\ IsPrefix(part.thinking, whole.thinking)
  /\ \A i \in DOMAIN part.calls :
       /\ i \in DOMAIN whole.calls
       /\ part.calls[i].id = whole.calls[i].id
       /\ part.calls[i].name = whole.calls[i].name
       /\ IsPrefix(part.calls[i].fragment, whole.calls[i].fragment)

(* An OpenAI body may end before the counts that follow the reply. *)
Replies ==
  {Parsed(format, said)} \cup
    IF format = "openai" THEN {[Parsed(format, said) EXCEPT !.usage = NoUsage]} ELSE {}

Init ==
  /\ format \in {"openai", "anthropic"}
  /\ said = Silent /\ shown = Nothing /\ outcome = Pending

Attempt ==
  /\ outcome = Pending
  /\ said' \in Messages[format] \cup {Silent} /\ shown' = Nothing
  /\ UNCHANGED <<format, outcome>>

Show ==
  /\ outcome = Pending /\ said # Silent
  /\ Parsed(format, said) \in {Refused, EmptyChoices} \/ Begins(shown', Shows(Parsed(format, said)))
  /\ UNCHANGED <<format, said, outcome>>

Answer ==
  /\ outcome = Pending /\ said # Silent
  /\ Parsed(format, said) \notin {Refused, EmptyChoices}
  /\ outcome' \in Replies
  /\ shown \in {Nothing, Shows(outcome')}
  /\ UNCHANGED <<format, said, shown>>

Decline ==
  /\ outcome = Pending /\ said # Silent
  /\ Parsed(format, said) \in {Refused, EmptyChoices}
  /\ outcome' = Parsed(format, said)
  /\ UNCHANGED <<format, said, shown>>

Fail ==
  /\ outcome = Pending
  /\ outcome' \in Errors
  /\ UNCHANGED <<format, said, shown>>

(* The caller asks again, with the next Turn. *)
Ask ==
  /\ outcome' = Pending /\ said' = Silent /\ shown' = Nothing
  /\ UNCHANGED format

Next == Attempt \/ Show \/ Answer \/ Decline \/ Fail \/ Ask

Spec == Init /\ [][Next]_vars
=============================================================================
