--------------------------- MODULE MCConversation ----------------------------
EXTENDS Conversation

Signed(type, text, signature) ==
  [type |-> type, id |-> <<>>, name |-> <<>>, text |-> text, signature |-> signature]
Writes(type, text) == Signed(type, text, <<>>)
Calls(id, text) == [Writes("tool_use", text) EXCEPT !.id = id, !.name = <<"fetch">>]
Counts(i, c, o) == [input |-> i, cached |-> c, output |-> o]
MessageOf(blocks, stop, usage) == [blocks |-> blocks, stop |-> stop, usage |-> usage]

(* Two calls whose arguments interleave; thought of two kinds, then a text *)
(* that is no answer; two calls, one without arguments; a refusal; no      *)
(* choice.                                                                 *)
Openai ==
  { MessageOf(<<Writes("reasoning_content", <<"t">>), Calls(<<"x">>, <<"a", "b">>), Calls(<<"y">>, <<"c", "d">>)>>,
            "tool_calls", Counts(5, 0, 3)),
    MessageOf(<<Writes("reasoning", <<"t">>), Writes("reasoning_details", <<"u">>), Writes("text", <<"v", "w">>)>>,
            "", Counts(5, 0, 3)),
    MessageOf(<<Calls(<<"x">>, <<>>), Calls(<<"y">>, <<"e">>)>>, "tool_calls", Counts(5, 0, 3)),
    MessageOf(<<Writes("text", <<"v">>), Writes("refusal", <<"no">>)>>, "stop", Counts(5, 0, 1)),
    MessageOf(<<>>, "stop", Counts(5, 0, 0)) }

(* A server's own block before a call that thought came before; a redacted *)
(* thought and two calls without ids, the second of which was cut; a blank *)
(* text; a refusal.                                                        *)
Anthropic ==
  { MessageOf(<<Signed("thinking", <<"t">>, <<"s">>), Writes("server_tool_use", <<"z">>),
              Writes("text", <<"v">>), Calls(<<"x">>, <<"a", "b">>)>>, "tool_use", Counts(5, 2, 3)),
    MessageOf(<<Signed("redacted_thinking", <<>>, <<"r">>), Calls(<<>>, <<>>), Calls(<<>>, <<"c">>)>>,
            "max_tokens", Counts(4, 0, 2)),
    MessageOf(<<Writes("text", <<Space>>)>>, "end_turn", Counts(3, 0, 1)),
    MessageOf(<<Writes("text", <<"v">>)>>, "refusal", Counts(3, 0, 1)) }

(* What the calls ask with, but for the one that was cut. *)
MCObjects == {NoArguments, <<"a", "b">>, <<"c", "d">>, <<"e">>}

Formats == {"openai", "anthropic"}
MCMessages == [f \in Formats |-> IF f = "openai" THEN Openai ELSE Anthropic]

StyleOf(indexed, merged, repeats) == [indexed |-> indexed, merged |-> merged, repeats |-> repeats]
MCStyles ==
  [f \in Formats |->
     IF f = "openai" THEN {StyleOf(TRUE, FALSE, TRUE), StyleOf(FALSE, TRUE, FALSE)}
     ELSE {StyleOf(TRUE, FALSE, TRUE), StyleOf(TRUE, FALSE, FALSE)}]

MCResults == {[text |-> <<"hits">>, size |-> 1], [text |-> <<"page">>, size |-> 4]}
=============================================================================
