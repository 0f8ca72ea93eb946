----------------------------- MODULE MCEvidence ------------------------------
EXTENDS Evidence, TLC

MCKeyOf == "a" :> "a" @@ "b" :> "b" @@ "www.b" :> "b" @@ "c" :> "c"

(* b is one part; c is cut at the line end inside its last tenth. *)
Chars(n) == [i \in 1..n |-> "char"]
PageB == [source |-> "www.b", text |-> Chars(20), quotes |-> {"q"}, facts |-> {"f"}]
PageC ==
  [source |-> "c", text |-> Chars(18) \o <<"end">> \o Chars(21), quotes |-> {"r"}, facts |-> {}]

(* a redirects to b, later to c. *)
MCWeb == "a" :> {PageB, PageC} @@ "b" :> {PageB} @@ "c" :> {PageC}

TextLine(kind, links, quote) ==
  [kind |-> kind, links |-> links, quote |-> quote, facts |-> IF links = {} THEN {} ELSE {"f"}]
Bare(kind) == TextLine(kind, {}, NoQuote)
Cites(kind, links, quote) == TextLine(kind, links, quote)
Themed(x, y) == <<Bare("open"), Bare("heading"), x, Bare("heading"), y, Bare("close")>>
OnB == Cites("bullet", {"b"}, "q")
OnCAndB == Cites("bullet", {"c", "b"}, "q")
OnAAndC == Cites("text", {"a", "www.b", "c"}, "r")
MCReplies ==
  { Themed(OnB, OnCAndB), Themed(OnCAndB, OnAAndC), Themed(OnAAndC, OnB), Themed(OnB, Bare("blank")),
    <<OnB, Bare("open"), OnAAndC>>, <<Bare("open"), Bare("blank"), Bare("close"), OnB>>,
    Themed(Bare("text"), OnB) \o Themed(Bare("blank"), Bare("blank")), <<OnCAndB>> }
=============================================================================
