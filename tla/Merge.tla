-------------------------------- MODULE Merge --------------------------------
(***************************************************************************)
(* What a fan-out call makes of its legs (src/src/web/search/dedup.rs,     *)
(* coverage.rs, fanout/report.rs): hits grouped by page, ranked by         *)
(* weighted reciprocal rank fusion and by how much of a Query they cover,  *)
(* and one report per engine.  A URL is a page, a spelling of it and its   *)
(* words; a title or a snippet is a set of words, as long as it has words. *)
(* Scores are exact fractions: rounding of the floats is left out.         *)
(***************************************************************************)
EXTENDS Integers, SequencesExt, FiniteSetsExt

CONSTANTS
  RrfK,             \* RRF_K
  MaxRows,          \* MAX_NUM_RESULTS: ranks are 0..MaxRows-1
  StopWords

ASSUME MergeAssumption == RrfK \in Nat /\ MaxRows \in Nat \ {0}

(* The elements of s at the positions of I, in order; those that pass a    *)
(* test, and those no earlier one equals.                                  *)
Nth(I, k) == CHOOSE i \in I : Cardinality({j \in I : j <= i}) = k
At(s, I) == [k \in 1..Cardinality(I) |-> s[Nth(I, k)]]
Where(s, Test(_)) == At(s, {i \in DOMAIN s : Test(s[i])})
FirstBy(s, Of(_)) == At(s, {i \in DOMAIN s : \A j \in 1..(i - 1) : Of(s[j]) # Of(s[i])})
Itself(x) == x

(* The elements of a set in a total order (SortSeq is opaque to proofs). *)
Sorted(S, Precedes(_, _)) ==
  [k \in 1..Cardinality(S) |->
     CHOOSE x \in S : Cardinality({y \in S : Precedes(y, x)}) = k - 1]

-----------------------------------------------------------------------------
Priority == <<"startpage", "brave", "yahoo", "duckduckgo", "bing", "cratesio">>
priority(e) == CHOOSE i \in DOMAIN Priority : Priority[i] = e
leg_weight(e) == IF e = "cratesio" THEN 2 ELSE 1

(* www., a trailing slash and a fragment are spelling. *)
dedup_key(url) == url.page

(* Queries that repeat are one leg: the first one's position counts. *)
Position(query, queries) == Min({i \in DOMAIN queries : queries[i].text = query})
LegOf(row, queries) == <<priority(row.engine), Position(row.query, queries)>>
LegBefore(a, b) == a[1] < b[1] \/ (a[1] = b[1] /\ a[2] < b[2])
ByLeg(rows, queries) ==
  LET legs == Sorted({LegOf(rows[i], queries) : i \in DOMAIN rows}, LegBefore)
  IN  FlattenSeq([n \in DOMAIN legs |->
                    Where(rows, LAMBDA r : LegOf(r, queries) = legs[n])])

(* A leg votes for a page once, with the best rank it gave it. *)
MutVotes(rows, queries) ==
  {[leg |-> <<LegOf(rows[i], queries), i>>, rank |-> rows[i].rank,
    weight |-> leg_weight(rows[i].engine)] : i \in DOMAIN rows}
Votes(rows, queries) ==
  {[leg |-> LegOf(rows[i], queries),
    rank |-> Min({rows[j].rank : j \in {k \in DOMAIN rows :
                    LegOf(rows[k], queries) = LegOf(rows[i], queries)}}),
    weight |-> leg_weight(rows[i].engine)] : i \in DOMAIN rows}

(* The best rank shows its title and URL, the longest snippet is kept. *)
Group(rows, queries) ==
  LET Ranks == {rows[i].rank : i \in DOMAIN rows}
      Sizes == {Cardinality(rows[i].snippet) : i \in DOMAIN rows}
      shown == Where(rows, LAMBDA r : r.rank = Min(Ranks))[1]
      fullest == Where(rows, LAMBDA r : Cardinality(r.snippet) = Max(Sizes))[1]
  IN  [key |-> dedup_key(rows[1].url), url |-> shown.url, title |-> shown.title,
       snippet |-> fullest.snippet, best_rank |-> shown.rank, hit_count |-> Len(rows),
       providers |-> {rows[i].engine : i \in DOMAIN rows},
       queries |-> {rows[i].query : i \in DOMAIN rows},
       votes |-> Votes(rows, queries)]

(* In parts of 1 / Scale, a multiple of every RrfK + rank + 1. *)
Scale == FoldSet(LAMBDA r, product : (RrfK + r) * product, 1, 1..MaxRows)
rrf_score(votes) ==
  MapThenSumSet(LAMBDA v : v.weight * (Scale \div (RrfK + v.rank + 1)), votes)

(* The share of a Query's words a hit has, up to three words: from a floor *)
(* of one fifth, in thirtieths.                                            *)
QueryTerms(queries) == {queries[i].words \ StopWords : i \in DOMAIN queries} \ {{}}
Share(terms, hit) ==
  LET enough == Min({Cardinality(terms), 3})
  IN  (24 * Min({enough, Cardinality(terms \cap (hit.title \cup hit.url.words \cup hit.snippet))}))
         \div enough
factor(queries, hit) ==
  IF QueryTerms(queries) = {} THEN 30
  ELSE 6 + Max({Share(terms, hit) : terms \in QueryTerms(queries)})

compare_scored(a, b) ==
  \/ a.score > b.score
  \/ /\ a.score = b.score
     /\ \/ Cardinality(a.queries) > Cardinality(b.queries)
        \/ /\ Cardinality(a.queries) = Cardinality(b.queries)
           /\ \/ a.best_rank < b.best_rank
              \/ a.best_rank = b.best_rank /\ a.url.page < b.url.page

merge_scored(results, queries) ==
  LET rows == ByLeg(results, queries)
      Keys == {dedup_key(rows[i].url) : i \in DOMAIN rows}
      Hit(key) ==
        LET g == Group(Where(rows, LAMBDA r : dedup_key(r.url) = key), queries)
        IN  [g EXCEPT !.votes = {}] @@ [score |-> rrf_score(g.votes) * factor(queries, g)]
  IN  Sorted({Hit(key) : key \in Keys}, compare_scored)

-----------------------------------------------------------------------------
(* The report of one engine over its legs, in leg order.  legs is a        *)
(* sequence of records with an engine, an outcome and rows.                *)
RowCount(legs) == Cardinality(UNION {{i} \X DOMAIN legs[i].rows : i \in DOMAIN legs})
MutEngineReport(engine, legs) ==
  LET mine == Where(legs, LAMBDA l : l.engine = engine)
      answered == Where(mine, LAMBDA l : l.outcome = "ok")
  IN  [engine |-> engine, answered |-> Len(answered),
       rows |-> RowCount(answered),
       problems |-> IF answered # <<>> THEN <<>>
                    ELSE FirstBy([i \in DOMAIN mine |-> mine[i].outcome], Itself)]
EngineReport(engine, legs) ==
  LET mine == Where(legs, LAMBDA l : l.engine = engine)
      answered == Where(mine, LAMBDA l : l.outcome = "ok")
      failed == Where(mine, LAMBDA l : l.outcome # "ok")
  IN  [engine |-> engine, answered |-> Len(answered),
       rows |-> RowCount(answered),
       problems |-> FirstBy([i \in DOMAIN failed |-> failed[i].outcome], Itself)]

(* EngineReport::status *)
StatusOf(report) ==
  IF report.answered > 0 THEN IF report.rows > 0 THEN "rows" ELSE "no_results"
  ELSE IF report.problems = <<>> THEN "no_results" ELSE report.problems[1]

engine_reports(legs) ==
  LET asked == Where(Priority, LAMBDA e : \E i \in DOMAIN legs : legs[i].engine = e)
  IN  [i \in DOMAIN asked |-> EngineReport(asked[i], legs)]

(* The message of a call that failed: each engine once, in the order they  *)
(* failed, with each detail of its failures once.  failures is a sequence  *)
(* of records with an engine and a detail.                                 *)
DetailsOf(engine, failures) ==
  LET mine == Where(failures, LAMBDA f : f.engine = engine)
  IN  FirstBy([i \in DOMAIN mine |-> mine[i].detail], Itself)
all_failed_message(failures) ==
  LET engines == FirstBy([i \in DOMAIN failures |-> failures[i].engine], Itself)
  IN  [n \in DOMAIN engines |->
         [engine |-> engines[n], details |-> DetailsOf(engines[n], failures)]]
=============================================================================
