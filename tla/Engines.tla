------------------------------- MODULE Engines --------------------------------
(***************************************************************************)
(* The legs of a fan-out call, from their first request to the Hits and    *)
(* the reports the call makes of them (src/src/web/search: ddg.rs,         *)
(* yahoo.rs, startpage.rs, brave.rs, bing.rs, cratesio.rs, markup.rs).     *)
(* A page is its status, whether it is a wall, whether it has the engine's *)
(* results marker, its blocks in order, and its forms.  The transport      *)
(* retry and the deadlines are in Fanout, the gap and the budget in        *)
(* Governor, the gate of the crates.io API in Fetch.                       *)
(***************************************************************************)
EXTENDS Merge, Routing

CONSTANTS
  Calls,            \* calls: Queries, slots and top_k, from the MC module
  Pages,            \* per engine: the pages it may answer with
  DdgPages, YahooPages,       \* resolve_max_pages
  MaxHops,                    \* MAX_HOPS
  FirstPage, LaterPage,       \* yahoo_expected_page_size
  KeywordRows,                \* KEYWORD_ROWS
  Crates            \* docs_url: the page of a crate, by its folded name

ASSUME EnginesAssumption ==
  /\ DdgPages \in Nat \ {0} /\ YahooPages \in Nat \ {0} /\ MaxHops \in Nat \ {0}
  /\ FirstPage \in Nat /\ LaterPage \in Nat /\ KeywordRows \in Nat

ASSUME CallsAssumption ==
  \A c \in Calls :
    c.slots \in Seq([engine : ToSet(Priority), query : DOMAIN c.queries])

(* The fan-out schedules crates.io only for the Queries it has a route for. *)
ASSUME RoutedAssumption ==
  \A c \in Calls : \A l \in DOMAIN c.slots :
    c.slots[l].engine = "cratesio" => route(c.queries[c.slots[l].query].tokens).term # <<>>

VARIABLES
  call,     \* the call
  leg,      \* per slot: where its requests stand
  served,   \* history, per slot: the pages it was answered with
  output    \* what the call returned: nothing yet, Hits and reports, or failures

vars == <<call, leg, served, output>>

-----------------------------------------------------------------------------
(* A link of a block leads to a page directly, without a scheme ("bare")   *)
(* or through the engine's redirector ("wrapped"), to the engine's own     *)
(* site, or nowhere: a redirector without a target, a relative link.       *)
Forms == {"direct", "bare", "wrapped", "own", "broken"}
(* A page is a wall if it has the marker of one; none is known of Brave    *)
(* and of crates.io.                                                       *)
ASSUME PagesAssumption ==
  /\ \A e \in ToSet(Priority) : \A p \in Pages[e] :
       /\ p.wall \in BOOLEAN /\ p.serp \in BOOLEAN
       /\ p.blocks \in Seq(ToSet(p.blocks))
       /\ \A b \in ToSet(p.blocks) : b.href.form \in Forms
  /\ \A p \in Pages["brave"] \cup Pages["cratesio"] : ~p.wall

unwrap_ddg_url(href) == href.form \in {"direct", "wrapped", "bare", "own"}
unwrap_yahoo_url(href) == href.form \in {"direct", "wrapped", "own"}
unwrap_bing_url(href) == href.form \in {"direct", "wrapped", "own"}
sanitize_startpage_url(href) == href.form = "direct"
brave_link(href) == href.form \in {"direct", "own"}

(* A block as a row; the rank of a row is its place among those kept. *)
Row(b) == [url |-> b.href.to, title |-> b.title, snippet |-> b.snippet]
Rows(blocks) == [i \in DOMAIN blocks |-> Row(blocks[i])]
Titled(b) == b.title # {}
Capped(rows) == SubSeq(rows, 1, Min({Len(rows), MaxRows}))
Url(row) == row.url

parse_ddg_html(p) ==
  Rows(Where(p.blocks, LAMBDA b : Titled(b) /\ unwrap_ddg_url(b.href)))
parse_yahoo_html(p) ==
  Capped(Rows(Where(p.blocks, LAMBDA b : Titled(b) /\ unwrap_yahoo_url(b.href))))
parse_brave_html(p) ==
  Capped(Rows(Where(p.blocks, LAMBDA b : Titled(b) /\ brave_link(b.href))))
parse_bing_html(p) ==
  Capped(Rows(Where(p.blocks, LAMBDA b : Titled(b) /\ unwrap_bing_url(b.href))))
(* A URL counts as seen before its title is looked at. *)
parse_startpage_html(p) ==
  LET linked == Where(p.blocks, LAMBDA b : sanitize_startpage_url(b.href))
      first == FirstBy(linked, LAMBDA b : b.href.to)
  IN  Capped(Rows(Where(first, Titled)))
(* Its title is the name of a crate. *)
parse_search_json(p) ==
  Capped(Rows(Where(p.blocks, LAMBDA b : Titled(b) /\ b.href.form = "direct")))

(* An exact route keeps the crate it names, if it is there. *)
names_crate(row, term) == term[1] \in DOMAIN Crates /\ Crates[term[1]] = row.url.page
keep_rows(rows, way) ==
  LET named == Where(rows, LAMBDA r : names_crate(r, way.term))
  IN  IF way.exact /\ named # <<>> THEN <<named[1]>>
      ELSE SubSeq(rows, 1, Min({Len(rows), KeywordRows}))

-----------------------------------------------------------------------------
(* From an exchange to rows or a typed error. *)
Ok(rows) == [class |-> "ok", rows |-> rows]
Err(class) == [class |-> class, rows |-> <<>>]

(* Mutant: an empty page is an answer. *)
MutRowsOrDrift(p, rows) == Ok(rows)
rows_or_drift(p, rows) ==
  IF rows # <<>> \/ p.serp THEN Ok(rows) ELSE Err("unrecognized")

(* Mutant: the status is looked at first. *)
MutJudge(p, walled, rows) ==
  IF p.status # "ok" THEN Err("upstream")
  ELSE IF walled THEN Err("challenge") ELSE rows_or_drift(p, rows)
Judge(p, walled, rows) ==
  IF walled THEN Err("challenge")
  ELSE IF p.status # "ok" THEN Err("upstream") ELSE rows_or_drift(p, rows)

map_ddg_response(p) == Judge(p, p.wall, parse_ddg_html(p))
map_yahoo_response(p) == Judge(p, p.wall, parse_yahoo_html(p))
map_startpage_response(p) == Judge(p, p.wall, parse_startpage_html(p))
map_brave_response(p) == Judge(p, p.status = "busy", parse_brave_html(p))
map_bing_response(p) == Judge(p, p.status = "busy" \/ p.wall, parse_bing_html(p))
map_cratesio_response(p, way) == Judge(p, FALSE, keep_rows(parse_search_json(p), way))

-----------------------------------------------------------------------------
Slots == DOMAIN call.slots
Engine(l) == call.slots[l].engine
QueryOf(l) == call.queries[call.slots[l].query]

Outcomes == {"ok", "challenge", "upstream", "unrecognized", "transport", "timeout",
             "suspended", "throttled"}

Init ==
  /\ call \in Calls
  /\ leg = [l \in Slots |->
              [at |-> "start", page |-> 1, form |-> "none", hop |-> 0, jar |-> "none",
               rows |-> <<>>, outcome |-> "none", paid |-> 0, detours |-> 0]]
  /\ served = [l \in Slots |-> <<>>]
  /\ output = <<>>

Set(l, record) == leg' = [leg EXCEPT ![l] = record]
End(l, class, rows) ==
  Set(l, [leg[l] EXCEPT !.at = "done", !.outcome = class, !.rows = rows,
                        !.form = "none", !.jar = "none"])

(* The governor lets the leg through or skips it; Startpage asks its home  *)
(* page for a form first.                                                  *)
Start(l) ==
  /\ leg[l].at = "start"
  /\ \/ Set(l, [leg[l] EXCEPT !.at = IF Engine(l) = "startpage" THEN "home" ELSE "search"])
     \/ \E class \in {"suspended", "throttled"} : End(l, class, <<>>)
  /\ UNCHANGED <<call, served, output>>

(* Whatever comes of the home page, one request to search follows: a POST  *)
(* of its form, or a GET where it had none or was not reached.             *)
fetch_startpage_form_inputs == {"inputs", "miss", "unreached"}
Home(l) ==
  /\ leg[l].at = "home"
  /\ \E found \in fetch_startpage_form_inputs :
       Set(l, [leg[l] EXCEPT !.at = "search", !.form = IF found = "inputs" THEN "post" ELSE "get"])
  /\ UNCHANGED <<call, served, output>>

(* A request or a body that fails ends the leg, with the rows it had.      *)
Fail(l) ==
  /\ leg[l].at \in {"search", "beacon"}
  /\ \E class \in {"transport", "timeout"} : End(l, class, <<>>)
  /\ UNCHANGED <<call, served, output>>

-----------------------------------------------------------------------------
(* The rows of the pages so far: each URL once, ranked across pages. *)
MutGathered(l, rows) == Capped(leg[l].rows \o rows)
Gathered(l, rows) == Capped(FirstBy(leg[l].rows \o rows, Url))

(* The first form of a page with an offset and a token, "" for a field it  *)
(* has not.                                                                *)
parse_continuation_form(p) == Where(p.forms, LAMBDA f : f.s # "" /\ f.vqd # "")

(* DuckDuckGo: on to the next form, unless the page has none, the last one *)
(* sent had the same offset, or enough pages or rows are in.               *)
ddg_page(l, p, rows) ==
  LET next == parse_continuation_form(p)
  IN  IF Len(Gathered(l, rows)) = MaxRows \/ leg[l].page >= DdgPages
           \/ next = <<>> \/ next[1].s = leg[l].form
      THEN End(l, "ok", Gathered(l, rows))
      ELSE Set(l, [leg[l] EXCEPT !.at = "gap", !.page = @ + 1, !.form = next[1].s,
                                 !.rows = Gathered(l, rows)])

(* The governor paces a continuation; refused, the rows so far stand. *)
Continue(l) ==
  /\ leg[l].at = "gap"
  /\ Set(l, [leg[l] EXCEPT !.at = "search"]) \/ End(l, "ok", leg[l].rows)
  /\ UNCHANGED <<call, served, output>>

(* Yahoo: on to the next page, unless this one was short. *)
Expected(page) == IF page = 1 THEN FirstPage ELSE LaterPage
yahoo_page(l, rows) ==
  IF Len(Gathered(l, rows)) = MaxRows \/ Len(rows) < Expected(leg[l].page)
       \/ leg[l].page = YahooPages
  THEN End(l, "ok", Gathered(l, rows))
  ELSE Set(l, [leg[l] EXCEPT !.page = @ + 1, !.hop = 0, !.detours = 0,
                             !.rows = Gathered(l, rows)])

(* A page is judged by its engine's rules; an error, on any page, ends the *)
(* leg, with the rows it had.  Where there is one page, its rows are the   *)
(* leg's.                                                                  *)
OnePage(l, judged) == End(l, judged.class, judged.rows)

startpage_search(l, p) == OnePage(l, map_startpage_response(p))
brave_search(l, p) == OnePage(l, map_brave_response(p))
bing_search(l, p) == OnePage(l, map_bing_response(p))
cratesio_search(l, p) == OnePage(l, map_cratesio_response(p, route(QueryOf(l).tokens)))
ddg_search(l, p) ==
  \E m \in {map_ddg_response(p)} :
     IF m.class = "ok" THEN ddg_page(l, p, m.rows) ELSE End(l, m.class, <<>>)
yahoo_search(l, p) ==
  \E m \in {map_yahoo_response(p)} :
     IF m.class = "ok" THEN yahoo_page(l, m.rows) ELSE End(l, m.class, <<>>)

search_engine(l, p) ==
  CASE Engine(l) = "startpage" -> startpage_search(l, p)
    [] Engine(l) = "duckduckgo" -> ddg_search(l, p)
    [] Engine(l) = "brave" -> brave_search(l, p)
    [] Engine(l) = "yahoo" -> yahoo_search(l, p)
    [] Engine(l) = "bing" -> bing_search(l, p)
    [] OTHER -> cratesio_search(l, p)

Receive(l, p) ==
  /\ served' = [served EXCEPT ![l] = Append(@, p)]
  /\ search_engine(l, p)
  /\ UNCHANGED <<call, output>>

Answered(l) == leg[l].at = "search" /\ \E p \in Pages[Engine(l)] : Receive(l, p)

-----------------------------------------------------------------------------
(* Cookies of an answer are added to those of the leg. *)
MutKept(jar, set) == set
Kept(jar, set) == IF set = "none" THEN jar ELSE set

(* One redirect of the chain: an error once the hops are spent. *)
Hop(l, at, set, detours, paid) ==
  IF leg[l].hop + 1 = MaxHops THEN End(l, "transport", <<>>)
  ELSE Set(l, [leg[l] EXCEPT !.at = at, !.hop = @ + 1, !.jar = Kept(@, set),
                             !.detours = @ + detours, !.paid = @ + paid])

(* Yahoo may answer a search without its cookie by a hop to a beacon,      *)
(* which sets the cookie and leads back; or lead to another domain.        *)
Redirected(l) ==
  /\ Engine(l) = "yahoo"
  /\ \/ leg[l].at = "search" /\ leg[l].jar # "cache" /\ Hop(l, "beacon", "tracking", 0, 1)
     \/ leg[l].at = "beacon"
          /\ Hop(l, "search", IF leg[l].jar = "none" THEN "none" ELSE "cache", 0, 1)
     \/ leg[l].at = "search" /\ Hop(l, "search", "none", 1, 0)
  /\ UNCHANGED <<call, served, output>>

(* A redirect to the consent wall is not followed; nor one without a       *)
(* Location.                                                               *)
Redirect(wall) == [status |-> "redirect", wall |-> wall, serp |-> FALSE, blocks |-> <<>>, forms |-> <<>>]
Stopped(l) ==
  /\ Engine(l) = "yahoo" /\ leg[l].at \in {"search", "beacon"}
  /\ \E wall \in BOOLEAN : Receive(l, Redirect(wall))

-----------------------------------------------------------------------------
(* The rows of a leg, stamped with its engine, its Query and their ranks.  *)
Stamped(l) ==
  [i \in DOMAIN leg[l].rows |->
     [engine |-> Engine(l), query |-> QueryOf(l).text, rank |-> i - 1,
      url |-> leg[l].rows[i].url, title |-> leg[l].rows[i].title,
      snippet |-> leg[l].rows[i].snippet]]
Results == FlattenSeq([l \in Slots |-> Stamped(l)])

Report(l) == [engine |-> Engine(l), outcome |-> leg[l].outcome, rows |-> leg[l].rows]

(* The detail of a failure stands for its text, which of a timeout names   *)
(* the Query.                                                              *)
error_detail(l) ==
  IF leg[l].outcome = "timeout" THEN <<"timeout", QueryOf(l).text>> ELSE <<leg[l].outcome>>
Failure(l) == [engine |-> Engine(l), detail |-> error_detail(l)]

(* A call fails as a whole if it has nothing to return and no leg of it    *)
(* answered; its reports are dropped then.  The mutant fails without Hits. *)
MutAllFailed(hits) == hits = <<>>
AllFailed(hits) ==
  hits = <<>> /\ Slots # {} /\ \A l \in Slots : leg[l].outcome # "ok"

Failures == [ok |-> FALSE, failures |-> all_failed_message([l \in Slots |-> Failure(l)])]
SearchOutput(hits) ==
  [ok |-> TRUE, hits |-> SubSeq(hits, 1, Min({Len(hits), call.top_k})),
   engines |-> engine_reports([l \in Slots |-> Report(l)])]

Finish ==
  /\ output = <<>> /\ \A l \in Slots : leg[l].at = "done"
  /\ \E hits \in {merge_scored(Results, call.queries)} :
       output' = <<IF AllFailed(hits) THEN Failures ELSE SearchOutput(hits)>>
  /\ UNCHANGED <<call, leg, served>>

Next ==
  \/ \E l \in Slots : \/ Start(l) \/ Home(l) \/ Fail(l) \/ Answered(l)
                      \/ Continue(l) \/ Redirected(l) \/ Stopped(l)
  \/ Finish

Spec == Init /\ [][Next]_vars

-----------------------------------------------------------------------------
(* A block that names a page, and an answer that is a wall. *)
Readable(e, b) ==
  Titled(b) /\ b.href.form # "broken" /\ (b.href.form = "bare" => e = "duckduckgo")
Walled(e, p) == p.wall \/ (p.status = "busy" /\ e \in {"brave", "bing"})

(* What a page shows: its readable blocks, of Yahoo's the first MaxRows. *)
Shown(e, p) ==
  LET read == Where(p.blocks, LAMBDA b : Readable(e, b))
  IN  IF e = "yahoo" THEN Capped(read) ELSE read

(* The rows of a leg that answered are what its pages show, in their       *)
(* order: no page was a wall, an error or a page the parser does not know, *)
(* no URL of a paginating engine is there twice, and nothing shown is      *)
(* missing before the last row but what repeats a row (ddg_search,         *)
(* yahoo_search, rows_or_drift).                                           *)
AnswerIsThePages ==
  \A l \in Slots : leg[l].outcome = "ok" =>
    LET e == Engine(l)
        pages == served[l]
        shown == FlattenSeq([i \in DOMAIN pages |-> Shown(e, pages[i])])
        urls == [i \in DOMAIN leg[l].rows |-> leg[l].rows[i].url]
    IN  /\ \A i \in DOMAIN pages :
             /\ ~Walled(e, pages[i]) /\ pages[i].status = "ok"
             /\ pages[i].serp \/ \E n \in DOMAIN pages[i].blocks : Readable(e, pages[i].blocks[n])
        /\ Len(urls) <= MaxRows
        /\ e \in {"duckduckgo", "yahoo", "startpage"} => IsInjective(urls)
        /\ e \in {"duckduckgo", "yahoo"} =>
             LET first == FirstBy(shown, LAMBDA b : b.href.to)
             IN  urls = [i \in 1..Min({Len(first), MaxRows}) |-> first[i].href.to]

(* A call fails as a whole only if none of its legs answered, and then it  *)
(* names each engine once, with all that its legs failed by.  Whether the  *)
(* call fails or not, an engine that walled a leg is named with the        *)
(* challenge, whatever its other legs did; and an engine is said to have   *)
(* no results only if it answered a leg with a results page that has none  *)
(* (map_*_response, search, engine_reports, all_failed_message).           *)
WalledLegs == {l \in Slots : served[l] # <<>> /\ Walled(Engine(l), Last(served[l]))}
ReportsAreRight(reports) ==
  /\ \A l \in WalledLegs :
       \E i \in DOMAIN reports :
         reports[i].engine = Engine(l) /\ Contains(reports[i].problems, "challenge")
  /\ \A i \in DOMAIN reports : StatusOf(reports[i]) = "no_results" =>
       \E l \in Slots \ WalledLegs : /\ Engine(l) = reports[i].engine
                                     /\ served[l] # <<>> /\ Last(served[l]).serp
FailuresAreRight(failures) ==
  /\ \A l \in WalledLegs :
       \E i \in DOMAIN failures :
         failures[i].engine = Engine(l) /\ Contains(failures[i].details, <<"challenge">>)
  /\ \A l \in Slots :
       \E i \in DOMAIN failures :
         failures[i].engine = Engine(l) /\ Contains(failures[i].details, error_detail(l))
  /\ \A i, j \in DOMAIN failures : failures[i].engine = failures[j].engine => i = j
WallsAreReported ==
  output # <<>> =>
    /\ output[1].ok <=> Slots = {} \/ \E l \in Slots : leg[l].outcome = "ok"
    /\ output[1].ok => ReportsAreRight(output[1].engines)
    /\ ~output[1].ok => FailuresAreRight(output[1].failures)

(* A Yahoo leg pays for its cookie once, however many pages it reads, and  *)
(* runs out of hops only through redirects that have nothing to do with it *)
(* (yahoo_hop_chain, whose jar lives as long as the leg).                  *)
CookiePaidOnce ==
  \A l \in Slots : Engine(l) = "yahoo" =>
    /\ leg[l].paid <= 2
    /\ leg[l].hop + 1 = MaxHops /\ leg[l].outcome = "transport" =>
         leg[l].detours + 2 >= MaxHops - 1

(* The rank each leg gave a page, at best, and how much that counts: a     *)
(* page that every leg ranks at least as well as another, and one better,  *)
(* and that covers the Queries as well, comes before it.  In particular no *)
(* leg counts twice for listing two spellings of a page, or for a Query    *)
(* that was sent twice (merge_scored).                                     *)
Legs == {<<Engine(l), QueryOf(l).text>> : l \in Slots}
RanksOf(key, pair) ==
  {Results[i].rank : i \in {j \in DOMAIN Results :
     /\ Results[j].url.page = key
     /\ Results[j].engine = pair[1] /\ Results[j].query = pair[2]}}
AsGood(key, other, pair) ==
  RanksOf(other, pair) # {} =>
    RanksOf(key, pair) # {} /\ Min(RanksOf(key, pair)) <= Min(RanksOf(other, pair))
AgreementDecides ==
  output # <<>> /\ output[1].ok =>
    \A i, j \in DOMAIN output[1].hits :
      LET a == output[1].hits[i]
          b == output[1].hits[j]
      IN  /\ \A pair \in Legs : AsGood(a.url.page, b.url.page, pair)
          /\ \E pair \in Legs : ~AsGood(b.url.page, a.url.page, pair)
          /\ factor(call.queries, a) >= factor(call.queries, b)
          => i < j
=============================================================================
