------------------------------- MODULE Answer --------------------------------
(***************************************************************************)
(* What becomes of a final reply: the answer in it, its themes, points and *)
(* citations (src/src/research/agent_loop/answer.rs), and how well the     *)
(* pages of the run support them (verify.rs).                              *)
(*                                                                         *)
(* A line has the links in it, the quote it ends with and the facts it     *)
(* states: numbers, codes and identifiers.  A page has what can be quoted  *)
(* from it and the facts on it.  A text of the answer is the lines it is   *)
(* made of, by their numbers; themes and points are known by the line they *)
(* start at, and URLs are in no order.                                     *)
(***************************************************************************)
EXTENDS Integers, SequencesExt

CONSTANTS
  KeyOf,       \* dedup_key of each URL, itself one of the URLs
  NoQuote

Urls == DOMAIN KeyOf

Tag == {"open", "close"}
IsTag(line) == line.kind \in Tag

(* An opening line and a closing line with no other tag between them. *)
Blocks(lines) ==
  {b \in (1..Len(lines)) \X (1..Len(lines)) :
     /\ b[1] < b[2] /\ lines[b[1]].kind = "open" /\ lines[b[2]].kind = "close"
     /\ \A i \in b[1] + 1 .. b[2] - 1 : ~IsTag(lines[i])}
Opens(lines) == {i \in 1..Len(lines) : lines[i].kind = "open"}

(* The last closed block; a reply cut short has only the opening of one. *)
AnswerBlock(lines) ==
  IF Blocks(lines) # {}
  THEN LET last == CHOOSE b \in Blocks(lines) : \A c \in Blocks(lines) : c[2] <= b[2]
       IN SubSeq(lines, last[1] + 1, last[2] - 1)
  ELSE IF Opens(lines) # {} THEN SubSeq(lines, Max(Opens(lines)) + 1, Len(lines))
  ELSE lines

Blank(line) == line.kind = "blank"
EmptyAnswer(lines) == \A i \in DOMAIN AnswerBlock(lines) : Blank(AnswerBlock(lines)[i])

-----------------------------------------------------------------------------
LinksOf(body, text) == UNION {body[i].links : i \in text}

(* A point of one bullet, or of lines joined to one text, of which only    *)
(* the last quote is taken.                                                *)
Quotes(body, text) == {i \in text : body[i].quote # NoQuote}
Point(body, text, at) ==
  [at |-> at, links |-> LinksOf(body, text),
   quote |-> IF Quotes(body, text) = {} THEN NoQuote ELSE body[Max(Quotes(body, text))].quote,
   facts |-> UNION {body[i].facts : i \in text}]

Headings(body) == {i \in DOMAIN body : body[i].kind = "heading"}
Prose(body) == {i \in DOMAIN body : ~Blank(body[i])}

(* The lines before the first heading; without them, the first words of    *)
(* the body.                                                               *)
SummaryZone(body) == {i \in Prose(body) : \A h \in Headings(body) : i < h}
Summary(body) == IF SummaryZone(body) = {} THEN Prose(body) ELSE SummaryZone(body)
SummaryPoint(body) == Point(body, Summary(body), 0)

(* The lines under the heading h. *)
Section(body, h) == {i \in Prose(body) : h < i /\ \A k \in Headings(body) : h < k => i < k}

Points(body, h) ==
  LET bullets == {i \in Section(body, h) : body[i].kind = "bullet"}
  IN IF bullets # {} THEN {Point(body, {i}, i) : i \in bullets}
     ELSE IF Section(body, h) # {} THEN {Point(body, Section(body, h), h)} ELSE {}

Theme(points, links) == [points |-> points, citations |-> links]
ThemesAt(body) ==
  [h \in Headings(body) |-> Theme(Points(body, h), LinksOf(body, Section(body, h)))]

(* Every answer that is not empty has a theme, and a point in one of them. *)
Themes(body) ==
  IF Headings(body) = {}
  THEN [h \in {0} |-> Theme({SummaryPoint(body)}, LinksOf(body, DOMAIN body))]
  ELSE IF \A h \in Headings(body) : ThemesAt(body)[h].points = {}
  THEN [ThemesAt(body) EXCEPT ![Min(Headings(body))].points = {SummaryPoint(body)}]
  ELSE ThemesAt(body)

ParseAnswer(lines) ==
  LET body == AnswerBlock(lines)
  IN [themes |-> Themes(body), citations |-> LinksOf(body, DOMAIN body)]

(* Only what was fetched is cited. *)
RetainFetched(synthesis, fetched) ==
  LET kept(links) == {url \in links : KeyOf[url] \in fetched}
  IN [themes |-> [h \in DOMAIN synthesis.themes |->
                    Theme(synthesis.themes[h].points, kept(synthesis.themes[h].citations))],
      citations |-> kept(synthesis.citations)]

-----------------------------------------------------------------------------
(* Support: unchecked, none, partial, exact. *)
Unchecked == 0
None == 1
Partial == 2
Exact == 3

Support(page, point) ==
  IF point.quote \notin page.quotes THEN None
  ELSE IF point.facts \subseteq page.facts THEN Exact ELSE Partial

AllPoints(synthesis) == UNION {synthesis.themes[h].points : h \in DOMAIN synthesis.themes}

(* pages: the pages of the run by key.  A point is as good as the best of  *)
(* the pages it links.                                                     *)
Checkable(point, pages) == {url \in point.links : KeyOf[url] \in DOMAIN pages}
PointSupport(point, pages) ==
  Max({Unchecked} \cup {Support(pages[KeyOf[url]], point) : url \in Checkable(point, pages)})

(* Of each URL, the support its page gives to the points that link it, at  *)
(* best, and the quote of the first point that has it.                     *)
Uncited == [support |-> Unchecked, quote |-> NoQuote]
Linking(url, points, pages) == {p \in points : url \in Checkable(p, pages)}
MutBest(url, points, pages) ==
  LET linking == Linking(url, points, pages)
      best == {p \in linking : \A q \in linking : PointSupport(q, pages) <= PointSupport(p, pages)}
      first == CHOOSE p \in best : \A q \in best : p.at <= q.at
  IN IF linking = {} THEN Uncited
     ELSE [support |-> PointSupport(first, pages), quote |-> first.quote]
Best(url, points, pages) ==
  LET page == pages[KeyOf[url]]
      linking == Linking(url, points, pages)
      best == {p \in linking : \A q \in linking : Support(page, q) <= Support(page, p)}
      first == CHOOSE p \in best : \A q \in best : p.at <= q.at
  IN IF linking = {} THEN Uncited
     ELSE [support |-> Support(page, first), quote |-> first.quote]

Graded(synthesis, pages, support) ==
  Cardinality({p \in AllPoints(synthesis) : PointSupport(p, pages) = support})

VerifySynthesis(synthesis, pages) ==
  [themes |-> synthesis.themes,
   citations |-> [url \in synthesis.citations |-> Best(url, AllPoints(synthesis), pages)],
   bullets |-> Cardinality(AllPoints(synthesis)),
   exact |-> Graded(synthesis, pages, Exact),
   partial |-> Graded(synthesis, pages, Partial),
   none |-> Graded(synthesis, pages, None)]
=============================================================================
