------------------------------ MODULE MCEngines -------------------------------
EXTENDS Engines

Page(n, spelling) ==
  [page |-> n, spelling |-> spelling, words |-> IF n = 3 THEN {"json"} ELSE {}]
Link(form, url) == [form |-> form, to |-> url]
Block(form, url, title, snippet) ==
  [href |-> Link(form, url), title |-> title, snippet |-> snippet]
Direct(n) == Block("direct", Page(n, "plain"), {"rust"}, {})
Www(n) == Block("direct", Page(n, "www"), {"rust"}, {"rust", "json"})
Wrapped(n) == Block("wrapped", Page(n, "plain"), {"rust", "json"}, {})
Bare(n) == Block("bare", Page(n, "plain"), {"json"}, {"docs"})
Untitled(n) == Block("direct", Page(n, "plain"), {}, {})
Broken == Block("broken", Page(0, "plain"), {"rust"}, {})

(* The next form of a page; one without a token, before it, is a decoy. *)
NextForm(s) == IF s = "none" THEN <<>> ELSE <<[s |-> s, vqd |-> "token"]>>
Decoy == [s |-> "a", vqd |-> ""]
Serp(blocks, next) ==
  [status |-> "ok", wall |-> FALSE, serp |-> TRUE, blocks |-> blocks, forms |-> NextForm(next)]
Decoyed(p) == [p EXCEPT !.forms = <<Decoy>> \o @]
Odd(status, wall, blocks) ==
  [status |-> status, wall |-> wall, serp |-> FALSE, blocks |-> blocks, forms |-> <<>>]

(* Results, with spellings and repeats of a page; no results; a page of    *)
(* unknown markup; a wall, whatever its status; an error.                  *)
MCPages ==
  [duckduckgo |->
     {Serp(<<Bare(1), Wrapped(2)>>, "a"), Serp(<<Wrapped(2), Untitled(3)>>, "a"),
      Decoyed(Serp(<<Www(1), Broken>>, "b")), Serp(<<>>, "none"),
      Odd("ok", TRUE, <<>>), Odd("ok", FALSE, <<Broken>>)},
   yahoo |->
     {Serp(<<Wrapped(1), Direct(3)>>, "none"), Serp(<<Direct(2), Wrapped(1)>>, "none"),
      Serp(<<Wrapped(2)>>, "none"), Odd("busy", FALSE, <<>>)},
   startpage |->
     {Serp(<<Untitled(1), Direct(1), Direct(2)>>, "none"), Serp(<<Direct(3), Www(1)>>, "none"),
      Odd("error", TRUE, <<>>), Odd("ok", FALSE, <<>>)},
   brave |->
     {Serp(<<Direct(2), Www(2), Direct(1)>>, "none"), Serp(<<Direct(1), Direct(2)>>, "none"),
      Serp(<<Direct(3), Direct(3), Direct(1)>>, "none"),
      Serp(<<>>, "none"), Odd("busy", FALSE, <<>>), Odd("error", FALSE, <<>>)},
   bing |->
     {Serp(<<Wrapped(1), Broken, Direct(3)>>, "none"), Serp(<<Www(2), Direct(2), Wrapped(1)>>, "none"),
      Odd("ok", TRUE, <<>>), Odd("busy", FALSE, <<>>)},
   cratesio |->
     {Serp(<<Direct(3), Direct(1), Direct(2)>>, "none"), Serp(<<>>, "none"),
      Odd("ok", FALSE, <<>>), Odd("busy", FALSE, <<>>)}]

Token(word) ==
  [word |-> word, root |-> "", named |-> TRUE, lower |-> TRUE, joined |-> FALSE, ticked |-> FALSE]
Plain(words) == [i \in DOMAIN words |-> Token(words[i])]
Query(text, words, tokens) == [text |-> text, words |-> words, tokens |-> tokens]
Rust == Query("rust json", {"rust", "json"}, Plain(<<"rust", "json">>))
Crate == Query("the docs crate", {"the", "docs"}, Plain(<<"the", "docs", "crate">>))
Path == Query("std::fmt and tokio", {"std", "fmt", "and", "tokio"},
              <<[Token("std::fmt") EXCEPT !.root = "std", !.named = FALSE], Token("and"),
                [Token("tokio") EXCEPT !.ticked = TRUE]>>)
Vague == Query("the", {"the"}, Plain(<<"the">>))
Call(queries, slots) == [queries |-> queries, slots |-> slots, top_k |-> 2]
Slot(engine, query) == [engine |-> engine, query |-> query]

MCCalls ==
  { Call(<<Rust>>, <<Slot("yahoo", 1), Slot("duckduckgo", 1)>>),
    Call(<<Rust, Crate>>, <<Slot("brave", 1), Slot("brave", 2), Slot("cratesio", 2)>>),
    Call(<<Vague, Vague>>, <<Slot("bing", 1), Slot("startpage", 1), Slot("bing", 2)>>),
    Call(<<Rust>>, <<Slot("startpage", 1), Slot("brave", 1), Slot("cratesio", 1)>>),
    Call(<<Path>>, <<Slot("cratesio", 1)>>) }

MCCrates == [docs |-> 1, tokio |-> 2]
=============================================================================
