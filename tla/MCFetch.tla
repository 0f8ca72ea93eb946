------------------------------- MODULE MCFetch -------------------------------
EXTENDS Fetch, Markdown, TLC

-----------------------------------------------------------------------------
(* Pages of up to two blocks beside the main content and two in it.        *)
Prose == [ch |-> "text", run |-> 0, tail |-> "", noisy |-> TRUE]
Row == [ch |-> "bar", run |-> 1, tail |-> "info", noisy |-> TRUE]
Blocks ==
  { Code(<<Prose>>), Code(<<Fence(3), Prose, Prose>>),
    Code(<<Fence(3), Prose, Fence(3)>>),
    [kind |-> "table", lines |-> <<Row, [Row EXCEPT !.noisy = FALSE]>>],
    [kind |-> "prose", lines |-> <<Prose>>],
    [kind |-> "answer", lines |-> <<[Prose EXCEPT !.run = 1]>>] }
UpTo2(S) == {<<>>} \cup {<<x>> : x \in S} \cup {<<x, y>> : x, y \in S}

Pages == [side : UpTo2(Blocks), main : UpTo2(Blocks), single : BOOLEAN]
ASSUME MCPagesWellformed == \A page \in Pages : WellformedPage(page)
APage == CHOOSE p \in Pages : p.side = <<>> /\ Len(p.main) = 2

Answer(status, type) ==
  [status |-> status, mitigated |-> FALSE, large |-> FALSE, marker |-> FALSE,
   type |-> type, interstitial |-> FALSE, page |-> APage]
Html(page) == [Answer("ok", "html") EXCEPT !.page = page]
Responses ==
  {Html(page) : page \in Pages}
  \cup [status : {"ok", "wall", "error"}, mitigated : BOOLEAN, large : BOOLEAN,
        marker : BOOLEAN, type : {"html", "text", "other"}, interstitial : BOOLEAN,
        page : {APage}]

MCBodies == {StaticOutcome(r) : r \in Responses}

MCSymmetry == Permutations(Calls)
=============================================================================
