---------------------------- MODULE EnginesProofs ----------------------------
(***************************************************************************)
(* Theorems of Engines, for any calls, pages and limits.  The first part   *)
(* follows what a Yahoo leg pays for its cookie; the second what a wall,   *)
(* or a page without results, leaves of a leg and of the report; the last  *)
(* the rows of a leg, back to the blocks of the pages they were read from. *)
(***************************************************************************)
EXTENDS Engines, FiniteSetTheorems, TLAPS

(* Where the leg of a slot stands: all its fields, whatever they hold. *)
Whole(record) ==
  record = [at |-> record.at, page |-> record.page, form |-> record.form, hop |-> record.hop,
            jar |-> record.jar, rows |-> record.rows, outcome |-> record.outcome,
            paid |-> record.paid, detours |-> record.detours]

(* A Yahoo leg without its cookie has paid nothing, or waits at the beacon *)
(* with the first half; every hop of its chain is a payment or a detour.   *)
Fair(record) ==
  /\ record.at \in {"start", "search", "beacon", "done"}
  /\ record.paid \in 0..2 /\ record.hop \in Nat /\ record.detours \in Nat
  /\ record.hop <= record.detours + record.paid
  /\ record.at \in {"start", "search"} /\ record.jar # "cache" =>
       record.jar = "none" /\ record.paid = 0
  /\ record.at = "beacon" => record.jar = "tracking" /\ record.paid = 1

CookieInv ==
  /\ call \in Calls
  /\ DOMAIN leg = Slots
  /\ \A l \in Slots : Whole(leg[l]) /\ (Engine(l) = "yahoo" => Fair(leg[l]))

(* The other records a step makes of a leg's, r being the leg's and moved  *)
(* what becomes of it.                                                     *)
LEMMA MovedTo ==
  ASSUME NEW r, Whole(r), NEW at, NEW form, NEW moved, moved = [r EXCEPT !.at = at, !.form = form]
  PROVE  Whole(moved)
<1>1. moved = [at |-> at, page |-> r.page, form |-> form, hop |-> r.hop, jar |-> r.jar,
               rows |-> r.rows, outcome |-> r.outcome, paid |-> r.paid, detours |-> r.detours]
  BY DEF Whole
<1> QED BY <1>1 DEF Whole

LEMMA MovedToForm ==
  ASSUME NEW r, Whole(r), NEW at, NEW form, NEW rows, NEW moved,
         moved = [r EXCEPT !.at = at, !.page = @ + 1, !.form = form, !.rows = rows]
  PROVE  Whole(moved)
<1>1. moved = [at |-> at, page |-> r.page + 1, form |-> form, hop |-> r.hop, jar |-> r.jar,
               rows |-> rows, outcome |-> r.outcome, paid |-> r.paid, detours |-> r.detours]
  BY DEF Whole
<1> QED BY <1>1 DEF Whole

(* A hop of the chain, to the beacon, back from it or elsewhere. *)
Chained(r, at, set, detours, paid) ==
  \/ /\ r.at = "search" /\ r.jar # "cache"
     /\ at = "beacon" /\ set = "tracking" /\ detours = 0 /\ paid = 1
  \/ r.at = "beacon" /\ at = "search" /\ set = "cache" /\ detours = 0 /\ paid = 1
  \/ r.at = "search" /\ at = "search" /\ set = "none" /\ detours = 1 /\ paid = 0

LEMMA MovedAlong ==
  ASSUME NEW r, Whole(r), Fair(r), NEW at, NEW set, NEW detours, NEW paid, NEW moved,
         Chained(r, at, set, detours, paid),
         moved = [r EXCEPT !.at = at, !.hop = @ + 1, !.jar = Kept(@, set),
                           !.detours = @ + detours, !.paid = @ + paid]
  PROVE  Whole(moved) /\ Fair(moved)
<1>1. moved = [at |-> at, page |-> r.page, form |-> r.form, hop |-> r.hop + 1,
               jar |-> Kept(r.jar, set), rows |-> r.rows, outcome |-> r.outcome,
               paid |-> r.paid + paid, detours |-> r.detours + detours]
  BY DEF Whole
<1>2. /\ moved.at = at /\ moved.jar = Kept(r.jar, set) /\ moved.hop = r.hop + 1
      /\ moved.detours = r.detours + detours /\ moved.paid = r.paid + paid
  BY <1>1
<1>3. Whole(moved)
  BY <1>1 DEF Whole
<1>4. Fair(moved)
  BY <1>2 DEF Fair, Chained, Kept
<1> QED BY <1>3, <1>4

(* What a leg has after it ended: nothing more is paid, nothing is kept. *)
LEMMA EndIsFair ==
  ASSUME NEW r, Fair(r), NEW ended, ended.at = "done", ended.hop = r.hop,
         ended.paid = r.paid, ended.detours = r.detours
  PROVE  Fair(ended)
BY DEF Fair

(* One step of one leg keeps the invariant where it keeps that leg's part. *)
LEMMA SetKeeps ==
  ASSUME CookieInv, NEW l \in Slots, NEW record, Set(l, record), UNCHANGED call,
         Whole(record), Engine(l) = "yahoo" => Fair(record)
  PROVE  CookieInv'
BY DEF CookieInv, Set, Slots, Engine

LEMMA EndKeeps ==
  ASSUME CookieInv, NEW l \in Slots, NEW class, NEW rows, End(l, class, rows), UNCHANGED call
  PROVE  CookieInv'
<1> DEFINE end == [leg[l] EXCEPT !.at = "done", !.outcome = class, !.rows = rows,
                                 !.form = "none", !.jar = "none"]
<1>e. Set(l, end)
  BY DEF End
<1>1. PICK r, ended : r = leg[l] /\ ended = end
  OBVIOUS
<1>2. Whole(leg[l]) /\ (Engine(l) = "yahoo" => Fair(leg[l]))
  BY DEF CookieInv
<1>3. Whole(ended) /\ (Engine(l) = "yahoo" => Fair(ended))
  <2>1. ended = [r EXCEPT !.at = "done", !.outcome = class, !.rows = rows,
                          !.form = "none", !.jar = "none"]
    BY <1>1
  <2>2. Whole(r) /\ (Engine(l) = "yahoo" => Fair(r))
    BY <1>1, <1>2
  <2>3. /\ Whole(ended)
        /\ ended.at = "done" /\ ended.hop = r.hop /\ ended.paid = r.paid
        /\ ended.detours = r.detours
    <3>1. ended = [at |-> "done", page |-> r.page, form |-> "none", hop |-> r.hop,
                   jar |-> "none", rows |-> rows, outcome |-> class, paid |-> r.paid,
                   detours |-> r.detours]
      BY <2>1, <2>2 DEF Whole
    <3> HIDE DEF end
    <3> QED BY <3>1 DEF Whole
  <2> QED BY <2>2, <2>3, EndIsFair
<1> HIDE DEF end
<1> QED BY <1>e, <1>1, <1>3, SetKeeps

(* The pages of the other engines, and a leg's first and later requests.   *)
LEMMA StartKeeps ==
  ASSUME CookieInv, NEW l \in Slots, Start(l)
  PROVE  CookieInv'
<1> DEFINE at == IF Engine(l) = "startpage" THEN "home" ELSE "search"
           record == [leg[l] EXCEPT !.at = at]
<1>1. Whole(leg[l]) /\ (Engine(l) = "yahoo" => Fair(leg[l])) /\ leg[l].at = "start"
  BY DEF CookieInv, Start
<1>2. CASE Set(l, record)
  <2>1. record = [at |-> at, page |-> leg[l].page, form |-> leg[l].form, hop |-> leg[l].hop,
                  jar |-> leg[l].jar, rows |-> leg[l].rows, outcome |-> leg[l].outcome,
                  paid |-> leg[l].paid, detours |-> leg[l].detours]
    BY <1>1 DEF Whole
  <2>2. Whole(record) /\ (Engine(l) = "yahoo" => Fair(record))
    BY <1>1, <2>1 DEF Whole, Fair
  <2> HIDE DEF record
  <2> QED BY <1>2, <2>2, SetKeeps DEF Start
<1>3. CASE \E class \in {"suspended", "throttled"} : End(l, class, <<>>)
  BY <1>3, EndKeeps DEF Start
<1> QED BY <1>2, <1>3 DEF Start

LEMMA HomeKeeps ==
  ASSUME CookieInv, NEW l \in Slots, Home(l)
  PROVE  CookieInv'
<1>1. Whole(leg[l]) /\ Engine(l) # "yahoo"
  BY DEF CookieInv, Home, Fair
<1>2. PICK form, moved :
        form \in {"post", "get"} /\ moved = [leg[l] EXCEPT !.at = "search", !.form = form] /\ Set(l, moved)
  BY DEF Home
<1>3. Whole(moved)
  BY <1>1, <1>2, MovedTo
<1> QED BY <1>1, <1>2, <1>3, SetKeeps DEF Home

LEMMA ContinueKeeps ==
  ASSUME CookieInv, NEW l \in Slots, Continue(l)
  PROVE  CookieInv'
<1>1. Whole(leg[l]) /\ Engine(l) # "yahoo"
  BY DEF CookieInv, Continue, Fair
<1> DEFINE record == [leg[l] EXCEPT !.at = "search"]
<1>2. Whole(record)
  BY <1>1 DEF Whole
<1> HIDE DEF record
<1> QED BY <1>1, <1>2, SetKeeps, EndKeeps DEF Continue, record

(* A page is read to its end, or, of Yahoo, followed by the next one with  *)
(* the cookie still there.                                                 *)
LEMMA ReceiveKeeps ==
  ASSUME CookieInv, NEW l \in Slots, NEW p, search_engine(l, p), UNCHANGED call,
         Engine(l) = "yahoo" => leg[l].at = "search" \/ map_yahoo_response(p).class # "ok"
  PROVE  CookieInv'
<1>0. Whole(leg[l]) /\ (Engine(l) = "yahoo" => Fair(leg[l]))
  BY DEF CookieInv
<1>1. CASE Engine(l) = "duckduckgo"
  <2>1. ddg_search(l, p)
    BY <1>1 DEF search_engine
  <2> DEFINE m == map_ddg_response(p)
  <2>2. CASE m.class # "ok"
    BY <2>1, <2>2, EndKeeps DEF ddg_search
  <2>3. CASE m.class = "ok"
    <3>1. ddg_page(l, p, m.rows)
      BY <2>1, <2>3 DEF ddg_search
    <3> DEFINE rows == Gathered(l, m.rows)
               next == parse_continuation_form(p)
    <3>2. CASE End(l, "ok", rows)
      BY <3>2, EndKeeps
    <3>3. CASE Set(l, [leg[l] EXCEPT !.at = "gap", !.page = @ + 1, !.form = next[1].s,
                                     !.rows = rows])
      <4>1. PICK moved : /\ moved = [leg[l] EXCEPT !.at = "gap", !.page = @ + 1,
                                                   !.form = next[1].s, !.rows = rows]
                         /\ Set(l, moved)
        BY <3>3
      <4>2. Whole(moved)
        BY <1>0, <4>1, MovedToForm
      <4> QED BY <1>1, <4>1, <4>2, SetKeeps
    <3> QED BY <3>1, <3>2, <3>3 DEF ddg_page
  <2> QED BY <2>2, <2>3
<1>2. CASE Engine(l) = "yahoo"
  <2>1. yahoo_search(l, p)
    BY <1>2 DEF search_engine
  <2> DEFINE m == map_yahoo_response(p)
  <2>2. CASE m.class # "ok"
    BY <2>1, <2>2, EndKeeps DEF yahoo_search
  <2>3. CASE m.class = "ok"
    <3>1. yahoo_page(l, m.rows)
      BY <2>1, <2>3 DEF yahoo_search
    <3> DEFINE rows == Gathered(l, m.rows)
    <3>2. CASE End(l, "ok", rows)
      BY <3>2, EndKeeps
    <3>3. CASE Set(l, [leg[l] EXCEPT !.page = @ + 1, !.hop = 0, !.detours = 0, !.rows = rows])
      <4> DEFINE record == [leg[l] EXCEPT !.page = @ + 1, !.hop = 0, !.detours = 0, !.rows = rows]
      <4>1. PICK r, moved : r = leg[l] /\ moved = record
        OBVIOUS
      <4>2. Whole(moved) /\ Fair(moved)
        <5>1. moved = [r EXCEPT !.page = @ + 1, !.hop = 0, !.detours = 0, !.rows = rows]
          BY <4>1
        <5>2. Whole(r) /\ Fair(r) /\ r.at = "search"
          BY <1>0, <1>2, <2>3, <4>1
        <5>3. /\ Whole(moved)
              /\ moved.at = r.at /\ moved.jar = r.jar /\ moved.hop = 0 /\ moved.detours = 0
              /\ moved.paid = r.paid
          <6>1. moved = [at |-> r.at, page |-> r.page + 1, form |-> r.form, hop |-> 0,
                         jar |-> r.jar, rows |-> rows, outcome |-> r.outcome,
                         paid |-> r.paid, detours |-> 0]
            BY <5>1, <5>2 DEF Whole
          <6> HIDE DEF record
          <6> QED BY <6>1 DEF Whole
        <5> QED BY <5>2, <5>3 DEF Fair
      <4>3. Set(l, record)
        BY <3>3
      <4> HIDE DEF record
      <4> QED BY <4>1, <4>2, <4>3, SetKeeps
    <3> QED BY <3>1, <3>2, <3>3 DEF yahoo_page
  <2> QED BY <2>2, <2>3
<1>3. CASE Engine(l) \notin {"duckduckgo", "yahoo"}
  <2>1. PICK judged : OnePage(l, judged)
    BY <1>3 DEF search_engine, startpage_search, brave_search, bing_search, cratesio_search
  <2> QED BY <2>1, EndKeeps DEF OnePage
<1> QED BY <1>1, <1>2, <1>3

LEMMA HopKeeps ==
  ASSUME CookieInv, NEW l \in Slots, Redirected(l)
  PROVE  CookieInv'
<1>0. Whole(leg[l]) /\ Fair(leg[l]) /\ UNCHANGED call
  BY DEF CookieInv, Redirected
<1>1. PICK at, set, detours, paid :
        Hop(l, at, set, detours, paid) /\ Chained(leg[l], at, set, detours, paid)
  BY <1>0 DEF Redirected, Fair, Chained
<1>2. CASE End(l, "transport", <<>>)
  BY <1>0, <1>2, EndKeeps
<1>3. CASE Set(l, [leg[l] EXCEPT !.at = at, !.hop = @ + 1, !.jar = Kept(@, set),
                                 !.detours = @ + detours, !.paid = @ + paid])
  <2>1. PICK moved :
          /\ moved = [leg[l] EXCEPT !.at = at, !.hop = @ + 1, !.jar = Kept(@, set),
                                    !.detours = @ + detours, !.paid = @ + paid]
          /\ Set(l, moved)
    BY <1>3
  <2>2. Whole(moved) /\ Fair(moved)
    BY <1>0, <1>1, <2>1, MovedAlong
  <2> QED BY <1>0, <2>1, <2>2, SetKeeps
<1> QED BY <1>1, <1>2, <1>3 DEF Hop

LEMMA CookieStep ==
  ASSUME CookieInv, [Next]_vars
  PROVE  CookieInv'
<1>1. CASE UNCHANGED vars \/ Finish
  BY <1>1 DEF CookieInv, vars, Finish, Slots, Engine
<1>2. ASSUME NEW l \in Slots, Fail(l) PROVE CookieInv'
  BY <1>2, EndKeeps DEF Fail
<1>3. ASSUME NEW l \in Slots, Answered(l) PROVE CookieInv'
  BY <1>3, ReceiveKeeps DEF Answered, Receive
<1>4. ASSUME NEW l \in Slots, Stopped(l) PROVE CookieInv'
  <2>1. PICK wall \in BOOLEAN : Receive(l, Redirect(wall))
    BY <1>4 DEF Stopped
  <2>2. map_yahoo_response(Redirect(wall)).class # "ok"
    BY DEF map_yahoo_response, Judge, Redirect, Err
  <2> QED BY <2>1, <2>2, ReceiveKeeps DEF Receive
<1> QED
  BY <1>1, <1>2, <1>3, <1>4, StartKeeps, HomeKeeps, ContinueKeeps, HopKeeps DEF Next

(* A Yahoo leg pays the hop to the beacon and the hop back once, however   *)
(* many pages and redirects follow, and whatever the number of hops a      *)
(* chain may have, it spends them all only on redirects of another kind    *)
(* (yahoo_hop_chain).                                                      *)
THEOREM CookieIsPaidOnce == Spec => []CookiePaidOnce
<1>1. Init => CookieInv
  <2> SUFFICES ASSUME Init PROVE CookieInv
    OBVIOUS
  <2> DEFINE first == [at |-> "start", page |-> 1, form |-> "none", hop |-> 0, jar |-> "none",
                       rows |-> <<>>, outcome |-> "none", paid |-> 0, detours |-> 0]
  <2>1. leg = [l \in Slots |-> first] /\ call \in Calls
    BY DEF Init
  <2>2. Whole(first) /\ Fair(first)
    BY DEF Whole, Fair
  <2> QED BY <2>1, <2>2 DEF CookieInv
<1>2. CookieInv => CookiePaidOnce
  <2> SUFFICES ASSUME CookieInv, NEW l \in Slots, Engine(l) = "yahoo"
               PROVE  /\ leg[l].paid <= 2
                      /\ leg[l].hop + 1 = MaxHops /\ leg[l].outcome = "transport" =>
                           leg[l].detours + 2 >= MaxHops - 1
    BY DEF CookiePaidOnce
  <2>1. Fair(leg[l])
    BY DEF CookieInv
  <2> QED BY <2>1, EnginesAssumption DEF Fair
<1> QED BY <1>1, <1>2, CookieStep, PTL DEF Spec

-----------------------------------------------------------------------------
(* A sequence, of whatever elements. *)
Listed(s) == s \in Seq(ToSet(s))

LEMMA ListedTo ==
  ASSUME NEW s, NEW n \in Nat, s = [i \in 1..n |-> s[i]]
  PROVE  Listed(s) /\ DOMAIN s = 1..n /\ Len(s) = n
<1>1. DOMAIN s = 1..n
  OBVIOUS
<1>2. \A i \in 1..n : s[i] \in ToSet(s)
  BY <1>1 DEF ToSet
<1>3. s \in [1..n -> ToSet(s)]
  BY <1>2
<1> QED BY <1>1, <1>3 DEF Listed

LEMMA ListedAre ==
  ASSUME NEW s, Listed(s)
  PROVE  Len(s) \in Nat /\ DOMAIN s = 1..Len(s) /\ (s = <<>> <=> Len(s) = 0)
BY DEF Listed

LEMMA ListedIn ==
  ASSUME NEW S, NEW s \in Seq(S)
  PROVE  Listed(s)
<1>1. PICK n \in Nat : s \in [1..n -> S]
  OBVIOUS
<1>2. DOMAIN s = 1..n /\ s = [i \in 1..n |-> s[i]]
  BY <1>1
<1> QED BY <1>2, ListedTo

LEMMA EmptyIsListed == Listed(<<>>)
<1>1. <<>> \in Seq({})
  OBVIOUS
<1> QED BY <1>1, ListedIn

LEMMA ListedAppend ==
  ASSUME NEW s, Listed(s), NEW e
  PROVE  Listed(Append(s, e)) /\ Last(Append(s, e)) = e /\ Append(s, e) # <<>>
<1>1. PICK S : S = ToSet(s) \cup {e}
  OBVIOUS
<1>2. s \in Seq(S) /\ e \in S
  BY <1>1 DEF Listed
<1>3. PICK t : t = Append(s, e)
  OBVIOUS
<1>4. t \in Seq(S) /\ Len(t) = Len(s) + 1 /\ Len(s) \in Nat /\ t[Len(s) + 1] = e
  BY <1>2, <1>3
<1>5. t # <<>> /\ t[Len(t)] = e
  BY <1>4
<1> QED BY <1>3, <1>4, <1>5, ListedIn DEF Last

(* Every position in a finite set of them has its number, counted from the *)
(* lowest; none is missed and none is made up.                             *)
LEMMA NthIsOnto ==
  ASSUME NEW n \in Nat, NEW I \in SUBSET (1..n)
  PROVE  /\ Cardinality(I) \in Nat
         /\ \A k \in 1..Cardinality(I) : Nth(I, k) \in I
         /\ \A i \in I : \E k \in 1..Cardinality(I) : Nth(I, k) = i
         /\ \A k, m \in 1..Cardinality(I) : k < m => Nth(I, k) < Nth(I, m)
<1> DEFINE UpTo(i) == {j \in I : j <= i}
           N == Cardinality(I)
<1>0. IsFiniteSet(1..n) /\ \A i \in I : i \in Int
  BY FS_Interval
<1>f. IsFiniteSet(I)
  BY <1>0, FS_Subset
<1>1. IsFiniteSet(I) /\ N \in Nat
  BY <1>f, FS_CardinalityType
<1>u. \A i \in I : UpTo(i) \in SUBSET I /\ i \in UpTo(i)
  BY <1>0
<1>v. \A i, j \in I : i < j =>
        UpTo(i) \in SUBSET UpTo(j) /\ j \in UpTo(j) /\ j \notin UpTo(i)
  <2> SUFFICES ASSUME NEW i \in I, NEW j \in I, i < j
               PROVE  UpTo(i) \in SUBSET UpTo(j) /\ j \in UpTo(j) /\ j \notin UpTo(i)
    OBVIOUS
  <2>1. i \in Int /\ j \in Int
    BY <1>0
  <2>2. \A k \in I : k <= i => k <= j
    BY <1>0, <2>1
  <2>3. j \in UpTo(j) /\ j \notin UpTo(i)
    BY <2>1
  <2> QED BY <2>2, <2>3
<1> HIDE DEF UpTo
<1>2. \A i \in I : IsFiniteSet(UpTo(i)) /\ Cardinality(UpTo(i)) \in 1..N
  <2> SUFFICES ASSUME NEW i \in I
               PROVE  IsFiniteSet(UpTo(i)) /\ Cardinality(UpTo(i)) \in 1..N
    OBVIOUS
  <2>1. UpTo(i) \in SUBSET I /\ i \in UpTo(i)
    BY <1>u
  <2>2. IsFiniteSet(UpTo(i)) /\ Cardinality(UpTo(i)) <= N
    BY <1>1, <2>1, FS_Subset
  <2>3. Cardinality(UpTo(i)) \in Nat
    BY <2>2, FS_CardinalityType
  <2>4. Cardinality(UpTo(i)) # 0
    BY <2>1, <2>2, FS_EmptySet
  <2> QED BY <1>1, <2>2, <2>3, <2>4
<1>3. \A i, j \in I : i < j => Cardinality(UpTo(i)) # Cardinality(UpTo(j))
  <2> SUFFICES ASSUME NEW i \in I, NEW j \in I, i < j
               PROVE  Cardinality(UpTo(i)) # Cardinality(UpTo(j))
    OBVIOUS
  <2>1. UpTo(i) \in SUBSET UpTo(j) /\ UpTo(i) # UpTo(j) /\ IsFiniteSet(UpTo(j))
    BY <1>2, <1>v
  <2> QED BY <2>1, FS_Subset
<1>4. PICK count : count = [i \in I |-> Cardinality(UpTo(i))]
  OBVIOUS
<1>5. \A i \in I : count[i] = Cardinality(UpTo(i)) /\ count[i] \in 1..N
  BY <1>2, <1>4
<1>6. \A i, j \in I : count[i] = count[j] => i = j
  BY <1>3, <1>5
<1>7. count \in Injection(I, 1..N)
  BY <1>4, <1>5, <1>6 DEF Injection, IsInjective
<1>8. IsFiniteSet(1..N) /\ Cardinality(1..N) = N
  BY <1>1, FS_Interval
<1>9. count \in Surjection(I, 1..N)
  BY <1>7, <1>8, FS_Injection
<1>10. \A k \in 1..N : \E i \in I : count[i] = k
  BY <1>9 DEF Surjection
<1>11. \A k \in 1..N : Nth(I, k) \in I /\ count[Nth(I, k)] = k
  BY <1>5, <1>10 DEF Nth, UpTo
<1>12. \A i \in I : Nth(I, count[i]) = i
  BY <1>5, <1>6, <1>11
<1>13. ASSUME NEW k \in 1..N, NEW m \in 1..N, k < m PROVE Nth(I, k) < Nth(I, m)
  <2>1. PICK i, j : i = Nth(I, k) /\ j = Nth(I, m)
    OBVIOUS
  <2>2. i \in I /\ j \in I /\ Cardinality(UpTo(i)) = k /\ Cardinality(UpTo(j)) = m
    BY <1>5, <1>11, <2>1
  <2>3. ~(j < i)
    <3>1. SUFFICES ASSUME j < i PROVE FALSE
      OBVIOUS
    <3>2. UpTo(j) \in SUBSET UpTo(i) /\ IsFiniteSet(UpTo(i))
      BY <1>2, <1>v, <2>2, <3>1
    <3>3. m <= k
      BY <2>2, <3>2, FS_Subset
    <3> QED BY <1>13, <3>3
  <2>4. i # j
    BY <1>13, <2>2
  <2>5. i \in Int /\ j \in Int
    BY <1>0, <2>2
  <2> QED BY <2>1, <2>3, <2>4, <2>5
<1> QED BY <1>1, <1>5, <1>11, <1>12, <1>13

LEMMA KeptAt ==
  ASSUME NEW s, Listed(s), NEW I \in SUBSET DOMAIN s
  PROVE  /\ Listed(At(s, I))
         /\ \A k \in DOMAIN At(s, I) : \E i \in I : At(s, I)[k] = s[i]
         /\ \A i \in I : \E k \in DOMAIN At(s, I) : At(s, I)[k] = s[i]
         /\ At(s, I) = <<>> <=> I = {}
<1>1. PICK n \in Nat : DOMAIN s = 1..n
  BY ListedAre
<1>2. /\ Cardinality(I) \in Nat
      /\ \A k \in 1..Cardinality(I) : Nth(I, k) \in I
      /\ \A i \in I : \E k \in 1..Cardinality(I) : Nth(I, k) = i
  BY <1>1, NthIsOnto
<1> DEFINE t == At(s, I)
<1>3. /\ t = [k \in 1..Cardinality(I) |-> t[k]]
      /\ \A k \in 1..Cardinality(I) : t[k] = s[Nth(I, k)]
  BY DEF At
<1> HIDE DEF t
<1>4. Listed(t) /\ DOMAIN t = 1..Cardinality(I) /\ Len(t) = Cardinality(I)
  BY <1>2, <1>3, ListedTo
<1>5. (\A k \in DOMAIN t : \E i \in I : t[k] = s[i]) /\ (\A i \in I : \E k \in DOMAIN t : t[k] = s[i])
  BY <1>2, <1>3, <1>4
<1>6. t = <<>> <=> I = {}
  BY <1>4, <1>5, ListedAre
<1> QED BY <1>4, <1>5, <1>6 DEF t

-----------------------------------------------------------------------------
(* Induction: a set of numbers has a least one. *)
LEMMA MinOf ==
  ASSUME NEW S, S \subseteq Nat, S # {}
  PROVE  Min(S) \in S /\ \A x \in S : Min(S) <= x
<1> DEFINE Less == {pair \in Nat \X Nat : pair[1] < pair[2]}
<1>1. IsWellFoundedOn(Less, Nat)
  BY NatLessThanWellFounded, Zenon DEF OpToRel
<1> HIDE DEF Less
<1>2. PICK x \in S : \A y \in S : ~(<<y, x>> \in Less)
  BY <1>1, WFMin
<1>3. ASSUME NEW y \in S PROVE x <= y
  <2>1. x \in Nat /\ y \in Nat
    OBVIOUS
  <2>2. y < x => <<y, x>> \in Less
    BY <2>1 DEF Less
  <2>3. ~(<<y, x>> \in Less)
    BY <1>2
  <2>4. ~(y < x)
    BY <2>2, <2>3
  <2> QED BY <2>1, <2>4
<1> QED BY <1>3 DEF Min

LEMMA Inductive ==
  ASSUME NEW S \in SUBSET Nat, 0 \in S, \A n \in S : n + 1 \in S
  PROVE  S = Nat
<1> SUFFICES ASSUME Nat \ S # {} PROVE FALSE
  OBVIOUS
<1>1. Min(Nat \ S) \in Nat \ S /\ \A x \in Nat \ S : Min(Nat \ S) <= x
  BY MinOf
<1>2. PICK least : least = Min(Nat \ S)
  OBVIOUS
<1>3. least \in Nat /\ least \notin S /\ least - 1 \notin Nat \ S
  BY <1>1, <1>2
<1>4. least # 0
  BY <1>3
<1>5. least - 1 \in Nat
  BY <1>3, <1>4
<1>6. (least - 1) + 1 \in S
  BY <1>3, <1>5
<1> QED BY <1>3, <1>6

(* A sequence of sequences is flattened from the first to the last. *)
Flat(f, seqs, n) == f = [i \in 1..n |-> IF i = 1 THEN seqs[i] ELSE f[i - 1] \o seqs[i]]

LEMMA Flattened ==
  ASSUME NEW seqs, Len(seqs) \in Nat \ {0}
  PROVE  \E f : Flat(f, seqs, Len(seqs)) /\ FlattenSeq(seqs) = f[Len(seqs)]
<1> DEFINE S == {n \in Nat : \E f : Flat(f, seqs, n)}
<1>1. 0 \in S
  <2>1. 1..0 = {}
    OBVIOUS
  <2> DEFINE f == [i \in 1..0 |-> {}]
  <2>2. Flat(f, seqs, 0)
    BY <2>1 DEF Flat
  <2> HIDE DEF f
  <2> QED BY <2>2
<1>2. \A n \in S : n + 1 \in S
  <2> SUFFICES ASSUME NEW n \in S PROVE n + 1 \in S
    OBVIOUS
  <2>1. n \in Nat
    OBVIOUS
  <2>2. PICK f : Flat(f, seqs, n)
    OBVIOUS
  <2> DEFINE last == IF n + 1 = 1 THEN seqs[n + 1] ELSE f[n] \o seqs[n + 1]
             g == [i \in 1..n + 1 |-> IF i = n + 1 THEN last ELSE f[i]]
  <2>3. ASSUME NEW i \in 1..n + 1
        PROVE  g[i] = IF i = 1 THEN seqs[i] ELSE g[i - 1] \o seqs[i]
    <3>1. CASE i = n + 1
      <4>1. CASE i = 1
        BY <3>1, <4>1
      <4>2. CASE i # 1
        <5>1. i - 1 \in 1..n + 1 /\ i - 1 # n + 1 /\ i - 1 = n
          BY <2>1, <3>1, <4>2
        <5>2. g[i - 1] = f[n]
          BY <5>1
        <5> QED BY <3>1, <4>2, <5>2
      <4> QED BY <4>1, <4>2
    <3>2. CASE i # n + 1
      <4>1. i \in 1..n /\ f[i] = IF i = 1 THEN seqs[i] ELSE f[i - 1] \o seqs[i]
        <5>1. i \in 1..n
          BY <2>1, <3>2
        <5> QED BY <2>2, <5>1 DEF Flat
      <4>2. i # 1 => g[i - 1] = f[i - 1]
        <5>1. i # 1 => i - 1 \in 1..n + 1 /\ i - 1 # n + 1
          BY <2>1, <4>1
        <5> QED BY <5>1
      <4>3. g[i] = f[i]
        BY <3>2
      <4> HIDE DEF g
      <4> QED BY <4>1, <4>2, <4>3
    <3> QED BY <3>1, <3>2
  <2>4. g = [i \in 1..n + 1 |-> g[i]]
    OBVIOUS
  <2> HIDE DEF g
  <2>5. Flat(g, seqs, n + 1)
    BY <2>3, <2>4 DEF Flat
  <2> QED BY <2>1, <2>5
<1>3. S \in SUBSET Nat
  OBVIOUS
<1> HIDE DEF S
<1>4. S = Nat
  BY <1>1, <1>2, <1>3, Inductive
<1>5. \E f : Flat(f, seqs, Len(seqs))
  BY <1>4 DEF S
<1> DEFINE flatten == CHOOSE f : Flat(f, seqs, Len(seqs))
<1>6. Flat(flatten, seqs, Len(seqs))
  BY <1>5
<1>7. FlattenSeq(seqs) = flatten[Len(seqs)]
  BY DEF FlattenSeq, Flat
<1> HIDE DEF flatten
<1> QED BY <1>6, <1>7

LEMMA FlattenNothing ==
  ASSUME NEW seqs, NEW n \in Nat, seqs = [i \in 1..n |-> <<>>]
  PROVE  FlattenSeq(seqs) = <<>>
<1>1. Len(seqs) = n /\ DOMAIN seqs = 1..n /\ \A i \in 1..n : seqs[i] = <<>>
  OBVIOUS
<1>2. CASE n = 0
  <2>1. seqs = <<>>
    BY <1>2
  <2> QED BY <1>1, <1>2, <2>1 DEF FlattenSeq
<1>3. CASE n # 0
  <2>1. PICK f : Flat(f, seqs, n) /\ FlattenSeq(seqs) = f[n]
    BY <1>1, <1>3, Flattened
  <2>2. \A i \in 1..n : f[i] = IF i = 1 THEN seqs[i] ELSE f[i - 1] \o seqs[i]
    BY <2>1 DEF Flat
  <2> DEFINE S == {i \in Nat : i \in 1..n => f[i] = <<>>}
  <2>3. 0 \in S
    OBVIOUS
  <2>4. \A i \in S : i + 1 \in S
    <3> SUFFICES ASSUME NEW i \in S, i + 1 \in 1..n PROVE f[i + 1] = <<>>
      OBVIOUS
    <3>1. PICK m : m = i + 1 /\ m \in 1..n /\ m - 1 = i /\ (m = 1 \/ i \in 1..n)
      OBVIOUS
    <3>2. f[m] = IF m = 1 THEN seqs[m] ELSE f[i] \o seqs[m]
      BY <2>2, <3>1
    <3>3. m # 1 => f[i] = <<>>
      BY <3>1
    <3>4. seqs[m] = <<>>
      BY <1>1, <3>1
    <3>5. <<>> \o <<>> = <<>>
      OBVIOUS
    <3> QED BY <3>1, <3>2, <3>3, <3>4, <3>5
  <2>5. S \in SUBSET Nat
    OBVIOUS
  <2> HIDE DEF S
  <2>6. S = Nat
    BY <2>3, <2>4, <2>5, Inductive
  <2>7. f[n] = <<>>
    BY <1>3, <2>6 DEF S
  <2> QED BY <2>1, <2>7
<1> QED BY <1>2, <1>3

-----------------------------------------------------------------------------
(* t is what s is without its repeats: before an element of t is what was  *)
(* before it in s.                                                         *)
Before(s, n) == {s[j] : j \in 1..(n - 1)}
Firsts(t, s) ==
  /\ Listed(t) /\ Listed(s)
  /\ \A i, j \in DOMAIN t : t[i] = t[j] => i = j
  /\ \A n \in DOMAIN s : \E k \in DOMAIN t : t[k] = s[n]
  /\ \A k \in DOMAIN t : \E n \in DOMAIN s : s[n] = t[k] /\ Before(s, n) = Before(t, k)

LEMMA EmptyFirsts == Firsts(<<>>, <<>>)
<1>1. Listed(<<>>) /\ DOMAIN <<>> = {}
  BY EmptyIsListed
<1> QED BY <1>1 DEF Firsts

(* The first positions of the elements give the sequence without repeats. *)
LEMMA FirstsAt ==
  ASSUME NEW s, Listed(s), NEW I, I = {i \in DOMAIN s : \A j \in 1..(i - 1) : s[j] # s[i]},
         NEW t, t = [k \in 1..Cardinality(I) |-> s[Nth(I, k)]]
  PROVE  Firsts(t, s) /\ Len(t) = Cardinality(I)
<1>1. PICK n \in Nat : DOMAIN s = 1..n
  BY ListedAre
<1>2. PICK N : N = Cardinality(I)
  OBVIOUS
<1>3. /\ N \in Nat
      /\ \A k \in 1..N : Nth(I, k) \in I
      /\ \A i \in I : \E k \in 1..N : Nth(I, k) = i
      /\ \A k, m \in 1..N : k < m => Nth(I, k) < Nth(I, m)
  <2>1. I \in SUBSET (1..n)
    BY <1>1
  <2>2. /\ Cardinality(I) \in Nat
        /\ \A k \in 1..Cardinality(I) : Nth(I, k) \in I
        /\ \A i \in I : \E k \in 1..Cardinality(I) : Nth(I, k) = i
        /\ \A k, m \in 1..Cardinality(I) : k < m => Nth(I, k) < Nth(I, m)
    BY <2>1, NthIsOnto, Zenon
  <2> QED BY <1>2, <2>2, Zenon
<1>4. PICK f : f = [k \in 1..N |-> Nth(I, k)]
  OBVIOUS
<1>5. /\ \A k \in 1..N : f[k] \in I
      /\ \A i \in I : \E k \in 1..N : f[k] = i
      /\ \A k, m \in 1..N : k < m => f[k] < f[m]
      /\ \A k \in 1..N : t[k] = s[f[k]]
  BY <1>2, <1>3, <1>4
<1>6. Listed(t) /\ DOMAIN t = 1..N /\ Len(t) = N
  BY <1>2, <1>3, ListedTo
<1>7. \A i \in I : i \in 1..n /\ i \in Nat /\ \A j \in 1..(i - 1) : s[j] # s[i]
  BY <1>1
<1>8. \A i, j \in I : s[i] = s[j] => i = j
  <2> SUFFICES ASSUME NEW i \in I, NEW j \in I, i < j PROVE s[i] # s[j]
    BY <1>7
  <2>1. i \in 1..(j - 1)
    BY <1>7
  <2> QED BY <1>7, <2>1
<1>9. \A k, m \in 1..N : t[k] = t[m] => k = m
  <2> SUFFICES ASSUME NEW k \in 1..N, NEW m \in 1..N, t[k] = t[m] PROVE k = m
    OBVIOUS
  <2>1. f[k] \in I /\ f[m] \in I /\ s[f[k]] = s[f[m]]
    BY <1>5
  <2>2. f[k] = f[m]
    BY <1>8, <2>1
  <2>3. f[k] \in Nat
    BY <1>7, <2>1
  <2>4. ~(k < m) /\ ~(m < k)
    <3>1. (k < m => f[k] < f[m]) /\ (m < k => f[m] < f[k])
      BY <1>5
    <3> QED BY <2>2, <2>3, <3>1
  <2> QED BY <1>3, <2>4
<1>10. ASSUME NEW i \in DOMAIN s PROVE \E j \in I : s[j] = s[i] /\ j <= i
  <2>1. PICK Same : Same = {j \in DOMAIN s : s[j] = s[i]}
    OBVIOUS
  <2>2. PICK j : j \in Same /\ \A x \in Same : j <= x
    <3>1. Same \subseteq Nat /\ i \in Same
      BY <1>1, <2>1
    <3> QED BY <3>1, MinOf
  <2>3. \A x \in 1..(j - 1) : x \in DOMAIN s /\ x \notin Same
    BY <1>1, <2>1, <2>2
  <2> QED BY <2>1, <2>2, <2>3
<1>11. ASSUME NEW i \in DOMAIN s PROVE \E k \in DOMAIN t : t[k] = s[i]
  <2>1. PICK j \in I : s[j] = s[i]
    BY <1>10
  <2>2. PICK k \in 1..N : f[k] = j
    BY <1>5
  <2>3. t[k] = s[i] /\ k \in DOMAIN t
    BY <1>5, <1>6, <2>1, <2>2
  <2> QED BY <2>3, Zenon
<1>12. ASSUME NEW k \in 1..N PROVE Before(s, f[k]) = Before(t, k)
  <2>0. f[k] \in I /\ f[k] \in 1..n
    BY <1>5, <1>7
  <2>1. ASSUME NEW j \in 1..(k - 1) PROVE t[j] \in Before(s, f[k])
    <3>1. j \in 1..N /\ j < k
      BY <1>3
    <3>2. f[j] < f[k] /\ f[j] \in 1..n /\ t[j] = s[f[j]]
      BY <1>5, <1>7, <3>1
    <3>3. f[j] \in 1..(f[k] - 1)
      BY <2>0, <3>2
    <3> QED BY <3>2, <3>3 DEF Before
  <2>2. ASSUME NEW j \in 1..(f[k] - 1) PROVE s[j] \in Before(t, k)
    <3>1. j \in DOMAIN s
      BY <1>1, <2>0
    <3>2. PICK i \in I : s[i] = s[j] /\ i <= j
      BY <1>10, <3>1
    <3>3. PICK m \in 1..N : f[m] = i
      BY <1>5
    <3>4. i < f[k]
      BY <1>7, <2>0, <3>2
    <3>5. ~(k < m) /\ k # m
      <4>1. k < m => f[k] < f[m]
        BY <1>5
      <4>2. i \in Nat /\ f[k] \in Nat
        BY <1>7, <2>0
      <4> QED BY <3>3, <3>4, <4>1, <4>2
    <3>6. m \in 1..(k - 1)
      BY <1>3, <3>5
    <3>7. t[m] = s[j]
      BY <1>5, <3>2, <3>3
    <3> QED BY <3>6, <3>7 DEF Before
  <2> QED BY <2>1, <2>2 DEF Before
<1>13. \A k \in DOMAIN t : f[k] \in DOMAIN s /\ s[f[k]] = t[k]
  BY <1>1, <1>5, <1>6, <1>7
<1>14. \A k \in DOMAIN t : \E i \in DOMAIN s : s[i] = t[k] /\ Before(s, i) = Before(t, k)
  BY <1>6, <1>12, <1>13
<1>15. Len(t) = Cardinality(I)
  BY <1>2, <1>6
<1> HIDE DEF Before
<1>16. \A i, j \in DOMAIN t : t[i] = t[j] => i = j
  <2> SUFFICES ASSUME NEW i \in DOMAIN t, NEW j \in DOMAIN t, t[i] = t[j] PROVE i = j
    OBVIOUS
  <2>1. i \in 1..N /\ j \in 1..N
    BY <1>6
  <2> QED BY <1>9, <2>1
<1>17. \A i \in DOMAIN s : \E k \in DOMAIN t : t[k] = s[i]
  BY <1>11
<1>18. Firsts(t, s)
  BY <1>6, <1>14, <1>16, <1>17, Zenon DEF Firsts
<1> QED BY <1>15, <1>18

LEMMA OnceIsEnough ==
  ASSUME NEW s, Listed(s)
  PROVE  Firsts(FirstBy(s, Itself), s)
<1>1. PICK I : I = {i \in DOMAIN s : \A j \in 1..(i - 1) : s[j] # s[i]}
  OBVIOUS
<1>2. FirstBy(s, Itself) = At(s, I)
  BY <1>1 DEF FirstBy, Itself
<1>3. PICK t : t = [k \in 1..Cardinality(I) |-> s[Nth(I, k)]]
  OBVIOUS
<1>4. Firsts(t, s)
  BY <1>1, <1>3, FirstsAt
<1> QED BY <1>2, <1>3, <1>4 DEF At

-----------------------------------------------------------------------------
(* What the parsers return is a sequence of rows, and cutting it to        *)
(* MaxRows, or dropping what repeats, empties it only if it is empty.      *)
LEMMA CutIsListed ==
  ASSUME NEW s, Listed(s), NEW n \in Nat
  PROVE  /\ Listed(SubSeq(s, 1, Min({Len(s), n})))
         /\ n # 0 => (SubSeq(s, 1, Min({Len(s), n})) = <<>> <=> s = <<>>)
<1>1. Len(s) \in Nat /\ (s = <<>> <=> Len(s) = 0)
  BY ListedAre
<1>2. PICK m : m = Min({Len(s), n})
  OBVIOUS
<1>3. m \in Nat /\ m <= Len(s) /\ (m = 0 <=> Len(s) = 0 \/ n = 0)
  BY <1>1, <1>2 DEF Min
<1>4. PICK t : t = SubSeq(s, 1, m)
  OBVIOUS
<1>5. t \in Seq(ToSet(s)) /\ Len(t) = m
  BY <1>1, <1>3, <1>4 DEF Listed
<1>6. Listed(t) /\ (t = <<>> <=> m = 0)
  BY <1>5, ListedIn
<1> QED BY <1>1, <1>2, <1>3, <1>4, <1>6

LEMMA CappedIsListed ==
  ASSUME NEW rows, Listed(rows)
  PROVE  Listed(Capped(rows)) /\ (Capped(rows) = <<>> <=> rows = <<>>)
BY CutIsListed, MergeAssumption DEF Capped

LEMMA RowsAreListed ==
  ASSUME NEW blocks, Listed(blocks)
  PROVE  Listed(Rows(blocks))
<1>1. PICK rows : rows = Rows(blocks)
  OBVIOUS
<1>2. Len(blocks) \in Nat /\ rows = [i \in 1..Len(blocks) |-> rows[i]]
  BY <1>1, ListedAre DEF Rows
<1> QED BY <1>1, <1>2, ListedTo

LEMMA ParsersList ==
  ASSUME NEW p, Listed(p.blocks), NEW way
  PROVE  /\ Listed(parse_ddg_html(p)) /\ Listed(parse_yahoo_html(p))
         /\ Listed(parse_brave_html(p)) /\ Listed(parse_bing_html(p))
         /\ Listed(parse_startpage_html(p))
         /\ Listed(keep_rows(parse_search_json(p), way))
<1>1. \A s, I : Listed(s) /\ I \in SUBSET DOMAIN s =>
        Listed(At(s, I)) /\ Listed(Rows(At(s, I))) /\ Listed(Capped(Rows(At(s, I))))
  BY KeptAt, RowsAreListed, CappedIsListed
<1>2. Listed(parse_ddg_html(p))
  BY <1>1 DEF parse_ddg_html, Where
<1>3. Listed(parse_yahoo_html(p))
  BY <1>1 DEF parse_yahoo_html, Where
<1>4. Listed(parse_brave_html(p))
  BY <1>1 DEF parse_brave_html, Where
<1>5. Listed(parse_bing_html(p))
  BY <1>1 DEF parse_bing_html, Where
<1>6. Listed(parse_search_json(p))
  BY <1>1 DEF parse_search_json, Where
<1>7. Listed(parse_startpage_html(p))
  BY <1>1 DEF parse_startpage_html, Where, FirstBy
<1>8. Listed(keep_rows(parse_search_json(p), way))
  <2>1. PICK rows : rows = parse_search_json(p)
    OBVIOUS
  <2>2. Listed(SubSeq(rows, 1, Min({Len(rows), KeywordRows})))
    BY <1>6, <2>1, CutIsListed, EnginesAssumption
  <2>3. \A row : Listed(<<row>>)
    <3> TAKE row
    <3>1. <<row>> \in Seq({row})
      OBVIOUS
    <3> QED BY <3>1, ListedIn
  <2> QED BY <2>1, <2>2, <2>3 DEF keep_rows
<1> QED BY <1>2, <1>3, <1>4, <1>5, <1>7, <1>8

(* The rows so far with those of one more page. *)
LEMMA GatheredIsListed ==
  ASSUME NEW l, Listed(leg[l].rows), NEW rows, Listed(rows)
  PROVE  Listed(Gathered(l, rows)) /\ (Gathered(l, rows) = <<>> => rows = <<>>)
<1>1. PICK S, s : S = ToSet(leg[l].rows) \cup ToSet(rows) /\ s = leg[l].rows \o rows
  OBVIOUS
<1>2. leg[l].rows \in Seq(S) /\ rows \in Seq(S)
  BY <1>1 DEF Listed
<1>3. s \in Seq(S) /\ (s = <<>> => rows = <<>>)
  BY <1>1, <1>2
<1>4. Listed(s)
  BY <1>3, ListedIn
<1> DEFINE I == {i \in DOMAIN s : \A j \in 1..(i - 1) : Url(s[j]) # Url(s[i])}
<1>5. FirstBy(s, Url) = At(s, I) /\ I \in SUBSET DOMAIN s
  BY DEF FirstBy
<1>6. s # <<>> => 1 \in I
  BY <1>4, ListedAre
<1> HIDE DEF I
<1>7. Listed(FirstBy(s, Url)) /\ (FirstBy(s, Url) = <<>> => s = <<>>)
  BY <1>4, <1>5, <1>6, KeptAt
<1> QED BY <1>1, <1>3, <1>7, CappedIsListed DEF Gathered

(* A wall is the challenge whatever else the page is; an answer without    *)
(* rows is a results page, and no other answer has rows.                   *)
Judged(m, p, walled) ==
  /\ m.class \in {"ok", "challenge", "upstream", "unrecognized"}
  /\ Listed(m.rows)
  /\ walled <=> m.class = "challenge"
  /\ m.class = "ok" /\ m.rows = <<>> => p.serp
  /\ m.class # "ok" => m.rows = <<>>

LEMMA JudgeIsRight ==
  ASSUME NEW p, NEW walled, NEW rows, Listed(rows)
  PROVE  Judged(Judge(p, walled, rows), p, walled)
<1>1. Listed(<<>>)
  BY EmptyIsListed
<1> QED BY <1>1 DEF Judged, Judge, rows_or_drift, Ok, Err

LEMMA PagesAreJudged ==
  ASSUME NEW p, Listed(p.blocks), NEW way
  PROVE  /\ Judged(map_ddg_response(p), p, p.wall)
         /\ Judged(map_yahoo_response(p), p, p.wall)
         /\ Judged(map_startpage_response(p), p, p.wall)
         /\ Judged(map_brave_response(p), p, p.status = "busy")
         /\ Judged(map_bing_response(p), p, p.status = "busy" \/ p.wall)
         /\ Judged(map_cratesio_response(p, way), p, FALSE)
BY ParsersList, JudgeIsRight
   DEF map_ddg_response, map_yahoo_response, map_startpage_response, map_brave_response,
       map_bing_response, map_cratesio_response

-----------------------------------------------------------------------------
(* A leg that was walled is over, with the challenge; one that is about to *)
(* ask for more, or has answered, has no rows only after a results page.   *)
NoRows(l) == served[l] # <<>> /\ Last(served[l]).serp /\ ~Walled(Engine(l), Last(served[l]))

WallOf(l) ==
  /\ Whole(leg[l]) /\ Listed(leg[l].rows) /\ Listed(served[l])
  /\ served[l] # <<>> /\ Walled(Engine(l), Last(served[l])) =>
       leg[l].at = "done" /\ leg[l].outcome = "challenge"
  /\ leg[l].at = "gap" /\ leg[l].rows = <<>> => NoRows(l)
  /\ leg[l].at = "done" => leg[l].outcome \in Outcomes
  /\ leg[l].at = "done" /\ leg[l].outcome = "ok" /\ leg[l].rows = <<>> => NoRows(l)
  /\ leg[l].at = "done" /\ leg[l].outcome # "ok" => leg[l].rows = <<>>

Told == [l \in Slots |-> Report(l)]
Blamed == [l \in Slots |-> Failure(l)]
Answering == Slots = {} \/ \E l \in Slots : leg[l].outcome = "ok"
WallInv ==
  /\ call \in Calls
  /\ DOMAIN leg = Slots /\ DOMAIN served = Slots
  /\ \A l \in Slots : WallOf(l)
  /\ output # <<>> =>
       /\ \A l \in Slots : leg[l].at = "done"
       /\ output[1].ok <=> Answering
       /\ output[1].ok => output[1].engines = engine_reports(Told)
       /\ ~output[1].ok => output[1].failures = all_failed_message(Blamed)

(* A leg that was asked something it has not answered goes on, or ends     *)
(* without rows and without the challenge, or with the rows of before.     *)
LEMMA UnservedKeepsWall ==
  ASSUME WallInv, NEW l \in Slots, leg[l].at # "done", UNCHANGED <<call, served, output>>,
         NEW record, Set(l, record), Whole(record),
         record.rows = leg[l].rows \/ record.rows = <<>>,
         record.at # "gap",
         record.at = "done" => record.outcome \in Outcomes,
         record.at = "done" /\ record.outcome = "ok" /\ record.rows = <<>> => NoRows(l),
         record.at = "done" /\ record.outcome # "ok" => record.rows = <<>>
  PROVE  WallInv'
<1>1. /\ Slots' = Slots /\ \A x \in Slots : Engine(x)' = Engine(x)
      /\ leg' = [leg EXCEPT ![l] = record] /\ output = <<>>
  BY DEF Slots, Engine, Set, WallInv
<1>2. leg'[l] = record /\ \A x \in Slots : x # l => leg'[x] = leg[x]
  BY <1>1 DEF WallInv
<1>3. WallOf(l)'
  <2>1. Listed(record.rows)
    BY EmptyIsListed DEF WallInv, WallOf
  <2>2. ~(served[l] # <<>> /\ Walled(Engine(l), Last(served[l])))
    BY DEF WallInv, WallOf
  <2>3. Listed(served[l]) /\ served' = served /\ Engine(l)' = Engine(l)
    BY <1>1 DEF WallInv, WallOf
  <2> QED BY <1>2, <2>1, <2>2, <2>3 DEF WallOf, NoRows
<1>4. ASSUME NEW x \in Slots, x # l PROVE WallOf(x)'
  BY <1>1, <1>2, <1>4 DEF WallInv, WallOf, NoRows
<1> QED BY <1>1, <1>3, <1>4 DEF WallInv

LEMMA EndWithoutPage ==
  ASSUME WallInv, NEW l \in Slots, leg[l].at # "done", UNCHANGED <<call, served, output>>,
         NEW class \in Outcomes, NEW rows, End(l, class, rows),
         rows = leg[l].rows \/ rows = <<>>,
         class = "ok" => leg[l].at = "gap" /\ rows = leg[l].rows,
         class # "ok" => rows = <<>>
  PROVE  WallInv'
<1>1. PICK r, record :
        /\ r = leg[l]
        /\ record = [r EXCEPT !.at = "done", !.outcome = class, !.rows = rows,
                              !.form = "none", !.jar = "none"]
        /\ Set(l, record)
  BY DEF End
<1>2. Whole(r)
  BY <1>1 DEF WallInv, WallOf
<1>3. record = [at |-> "done", page |-> r.page, form |-> "none", hop |-> r.hop,
                jar |-> "none", rows |-> rows, outcome |-> class,
                paid |-> r.paid, detours |-> r.detours]
  BY <1>1, <1>2 DEF Whole
<1>4. Whole(record) /\ record.at = "done" /\ record.outcome = class /\ record.rows = rows
  BY <1>3 DEF Whole
<1>5. class = "ok" /\ rows = <<>> => NoRows(l)
  BY DEF WallInv, WallOf
<1> QED BY <1>1, <1>4, <1>5, UnservedKeepsWall

LEMMA QuietSteps ==
  ASSUME WallInv, NEW l \in Slots,
         Start(l) \/ Home(l) \/ Fail(l) \/ Continue(l) \/ Redirected(l)
  PROVE  WallInv'
<1>0. Whole(leg[l]) /\ UNCHANGED <<call, served, output>>
  BY DEF WallInv, WallOf, Start, Home, Fail, Continue, Redirected
<1>1. ASSUME NEW at, at \in {"home", "search"}, leg[l].at # "done",
             NEW record, Set(l, record), Whole(record), record.rows = leg[l].rows, record.at = at
      PROVE  WallInv'
  BY <1>0, <1>1, UnservedKeepsWall
<1>2. CASE Start(l)
  <2>1. leg[l].at = "start"
    BY <1>2 DEF Start
  <2>2. ASSUME NEW at, at \in {"home", "search"}, Set(l, [leg[l] EXCEPT !.at = at])
        PROVE  WallInv'
    <3>1. PICK r, record : r = leg[l] /\ record = [r EXCEPT !.at = at] /\ Set(l, record)
      BY <2>2
    <3>2. record = [at |-> at, page |-> r.page, form |-> r.form, hop |-> r.hop,
                    jar |-> r.jar, rows |-> r.rows, outcome |-> r.outcome,
                    paid |-> r.paid, detours |-> r.detours]
      BY <1>0, <3>1 DEF Whole
    <3>3. Whole(record) /\ record.rows = leg[l].rows /\ record.at = at
      BY <3>1, <3>2 DEF Whole
    <3> QED BY <1>1, <2>1, <2>2, <3>1, <3>3
  <2>3. ASSUME NEW class \in {"suspended", "throttled"}, End(l, class, <<>>) PROVE WallInv'
    BY <1>0, <2>1, <2>3, EndWithoutPage DEF Outcomes
  <2> QED BY <1>2, <2>2, <2>3 DEF Start
<1>3. CASE Home(l)
  <2>1. leg[l].at = "home"
    BY <1>3 DEF Home
  <2>2. PICK form, r, record :
          r = leg[l] /\ record = [r EXCEPT !.at = "search", !.form = form] /\ Set(l, record)
    BY <1>3 DEF Home
  <2>3. record = [at |-> "search", page |-> r.page, form |-> form, hop |-> r.hop,
                  jar |-> r.jar, rows |-> r.rows, outcome |-> r.outcome,
                  paid |-> r.paid, detours |-> r.detours]
    BY <1>0, <2>2 DEF Whole
  <2>4. Whole(record) /\ record.rows = leg[l].rows /\ record.at = "search"
    BY <2>2, <2>3 DEF Whole
  <2> QED BY <1>1, <2>1, <2>2, <2>4
<1>4. CASE Fail(l)
  <2>1. leg[l].at \in {"search", "beacon"}
    BY <1>4 DEF Fail
  <2>2. PICK class \in {"transport", "timeout"} : End(l, class, <<>>)
    BY <1>4 DEF Fail
  <2> QED BY <1>0, <2>1, <2>2, EndWithoutPage DEF Outcomes
<1>5. CASE Continue(l)
  <2>1. leg[l].at = "gap"
    BY <1>5 DEF Continue
  <2>2. CASE End(l, "ok", leg[l].rows)
    BY <1>0, <2>1, <2>2, EndWithoutPage DEF Outcomes
  <2>3. CASE Set(l, [leg[l] EXCEPT !.at = "search"])
    <3>1. PICK r, record : r = leg[l] /\ record = [r EXCEPT !.at = "search"] /\ Set(l, record)
      BY <2>3
    <3>2. record = [at |-> "search", page |-> r.page, form |-> r.form, hop |-> r.hop,
                    jar |-> r.jar, rows |-> r.rows, outcome |-> r.outcome,
                    paid |-> r.paid, detours |-> r.detours]
      BY <1>0, <3>1 DEF Whole
    <3>3. Whole(record) /\ record.rows = leg[l].rows /\ record.at = "search"
      BY <3>1, <3>2 DEF Whole
    <3> QED BY <1>1, <2>1, <3>1, <3>3
  <2> QED BY <1>5, <2>2, <2>3 DEF Continue
<1>6. CASE Redirected(l)
  <2>1. leg[l].at \in {"search", "beacon"}
    BY <1>6 DEF Redirected
  <2>2. PICK at, set, detours, paid :
          at \in {"search", "beacon"} /\ Hop(l, at, set, detours, paid)
    BY <1>6 DEF Redirected
  <2>3. CASE End(l, "transport", <<>>)
    BY <1>0, <2>1, <2>3, EndWithoutPage DEF Outcomes
  <2>4. CASE Set(l, [leg[l] EXCEPT !.at = at, !.hop = @ + 1, !.jar = Kept(@, set),
                                   !.detours = @ + detours, !.paid = @ + paid])
    <3>1. PICK r, record :
            /\ r = leg[l]
            /\ record = [r EXCEPT !.at = at, !.hop = @ + 1, !.jar = Kept(@, set),
                                  !.detours = @ + detours, !.paid = @ + paid]
            /\ Set(l, record)
      BY <2>4
    <3>2. record = [at |-> at, page |-> r.page, form |-> r.form, hop |-> r.hop + 1,
                    jar |-> Kept(r.jar, set), rows |-> r.rows, outcome |-> r.outcome,
                    paid |-> r.paid + paid, detours |-> r.detours + detours]
      BY <1>0, <3>1 DEF Whole
    <3>3. Whole(record) /\ record.rows = leg[l].rows /\ record.at = at
      BY <3>1, <3>2 DEF Whole
    <3> QED BY <1>0, <2>1, <2>2, <3>1, <3>3, UnservedKeepsWall
  <2> QED BY <2>2, <2>3, <2>4 DEF Hop
<1> QED BY <1>2, <1>3, <1>4, <1>5, <1>6

-----------------------------------------------------------------------------
(* A page that a leg receives decides how the leg goes on. *)
LEMMA ServedKeepsWall ==
  ASSUME WallInv, NEW l \in Slots, leg[l].at # "done", NEW p, NEW record,
         served' = [served EXCEPT ![l] = Append(@, p)], Set(l, record), UNCHANGED <<call, output>>,
         Whole(record), Listed(record.rows),
         Walled(Engine(l), p) => record.at = "done" /\ record.outcome = "challenge",
         record.at = "gap" /\ record.rows = <<>> => p.serp,
         record.at = "done" => record.outcome \in Outcomes,
         record.at = "done" /\ record.outcome = "ok" /\ record.rows = <<>> => p.serp,
         record.at = "done" /\ record.outcome # "ok" => record.rows = <<>>
  PROVE  WallInv'
<1>1. /\ Slots' = Slots /\ \A x \in Slots : Engine(x)' = Engine(x)
      /\ leg' = [leg EXCEPT ![l] = record] /\ output = <<>> /\ call' = call /\ output' = output
  BY DEF Slots, Engine, Set, WallInv
<1>2. /\ leg'[l] = record /\ \A x \in Slots : x # l => leg'[x] = leg[x] /\ served'[x] = served[x]
      /\ DOMAIN leg' = Slots /\ DOMAIN served' = Slots
  BY <1>1 DEF WallInv
<1>3. /\ Listed(served'[l]) /\ Last(served'[l]) = p /\ served'[l] # <<>>
      /\ Engine(l)' = Engine(l)
  BY <1>1, ListedAppend DEF WallInv, WallOf
<1>4. WallOf(l)'
  <2>1. Whole(leg'[l]) /\ Listed(leg'[l].rows)
    BY <1>2
  <2>2. Walled(Engine(l), p) => leg'[l].at = "done" /\ leg'[l].outcome = "challenge"
    BY <1>2
  <2>3. leg'[l].at = "gap" /\ leg'[l].rows = <<>> => p.serp /\ ~Walled(Engine(l), p)
    BY <1>2
  <2>4. leg'[l].at = "done" => leg'[l].outcome \in Outcomes
    BY <1>2
  <2>5. leg'[l].at = "done" /\ leg'[l].outcome = "ok" /\ leg'[l].rows = <<>> =>
          p.serp /\ ~Walled(Engine(l), p)
    BY <1>2
  <2>6. leg'[l].at = "done" /\ leg'[l].outcome # "ok" => leg'[l].rows = <<>>
    BY <1>2
  <2> QED BY <1>3, <2>1, <2>2, <2>3, <2>4, <2>5, <2>6 DEF WallOf, NoRows
<1>5. ASSUME NEW x \in Slots, x # l PROVE WallOf(x)'
  BY <1>1, <1>2, <1>5 DEF WallInv, WallOf, NoRows
<1> QED BY <1>1, <1>2, <1>4, <1>5 DEF WallInv

LEMMA EndWithPage ==
  ASSUME WallInv, NEW l \in Slots, leg[l].at # "done", NEW p,
         served' = [served EXCEPT ![l] = Append(@, p)], UNCHANGED <<call, output>>,
         NEW class \in Outcomes, NEW rows, End(l, class, rows), Listed(rows),
         Walled(Engine(l), p) => class = "challenge",
         class = "ok" /\ rows = <<>> => p.serp,
         class # "ok" => rows = <<>>
  PROVE  WallInv'
<1>1. PICK r, record :
        /\ r = leg[l]
        /\ record = [r EXCEPT !.at = "done", !.outcome = class, !.rows = rows,
                              !.form = "none", !.jar = "none"]
        /\ Set(l, record)
  BY DEF End
<1>2. Whole(r)
  BY <1>1 DEF WallInv, WallOf
<1>3. record = [at |-> "done", page |-> r.page, form |-> "none", hop |-> r.hop,
                jar |-> "none", rows |-> rows, outcome |-> class,
                paid |-> r.paid, detours |-> r.detours]
  BY <1>1, <1>2 DEF Whole
<1>4. Whole(record) /\ record.at = "done" /\ record.outcome = class /\ record.rows = rows
  BY <1>3 DEF Whole
<1> QED BY <1>1, <1>4, ServedKeepsWall

LEMMA ReceiveKeepsWall ==
  ASSUME WallInv, NEW l \in Slots, leg[l].at # "done", NEW p, Receive(l, p),
         Engine(l) \in ToSet(Priority), Listed(p.blocks),
         Engine(l) \in {"brave", "cratesio"} => ~p.wall,
         Engine(l) = "yahoo" => leg[l].at # "gap"
  PROVE  WallInv'
<1>0. /\ served' = [served EXCEPT ![l] = Append(@, p)] /\ UNCHANGED <<call, output>>
      /\ search_engine(l, p)
      /\ Whole(leg[l]) /\ Listed(leg[l].rows)
  BY DEF Receive, WallInv, WallOf
<1>1. ASSUME NEW m, Judged(m, p, Walled(Engine(l), p)), End(l, m.class, m.rows) PROVE WallInv'
  <2>1. m.class \in Outcomes
    BY <1>1 DEF Judged, Outcomes
  <2> QED BY <1>0, <1>1, <2>1, EndWithPage DEF Judged
<1>2. ASSUME NEW m, Judged(m, p, Walled(Engine(l), p)), m.class # "ok", End(l, m.class, <<>>)
      PROVE  WallInv'
  <2>1. m.class \in Outcomes
    BY <1>2 DEF Judged, Outcomes
  <2> QED BY <1>0, <1>2, <2>1, EmptyIsListed, EndWithPage DEF Judged
<1>3. ASSUME NEW m, Judged(m, p, Walled(Engine(l), p)), m.class = "ok",
             End(l, "ok", Gathered(l, m.rows))
      PROVE  WallInv'
  <2>1. Listed(Gathered(l, m.rows)) /\ (Gathered(l, m.rows) = <<>> => p.serp)
        /\ ~Walled(Engine(l), p)
    BY <1>0, <1>3, GatheredIsListed DEF Judged
  <2> QED BY <1>0, <1>3, <2>1, EndWithPage DEF Outcomes
<1>4. CASE Engine(l) = "duckduckgo"
  <2>1. PICK m : m = map_ddg_response(p)
    OBVIOUS
  <2>2. Judged(m, p, Walled(Engine(l), p))
    BY <1>4, <2>1, PagesAreJudged DEF Walled, Judged
  <2>3. IF m.class = "ok" THEN ddg_page(l, p, m.rows) ELSE End(l, m.class, <<>>)
    BY <1>0, <1>4, <2>1 DEF search_engine, ddg_search
  <2>4. CASE m.class = "ok"
    <3>1. PICK next, rows : next = parse_continuation_form(p) /\ rows = Gathered(l, m.rows)
      OBVIOUS
    <3>2. \/ End(l, "ok", rows)
          \/ Set(l, [leg[l] EXCEPT !.at = "gap", !.page = @ + 1, !.form = next[1].s, !.rows = rows])
      BY <2>3, <2>4, <3>1 DEF ddg_page
    <3>3. CASE Set(l, [leg[l] EXCEPT !.at = "gap", !.page = @ + 1, !.form = next[1].s, !.rows = rows])
      <4>1. PICK r, record :
              /\ r = leg[l]
              /\ record = [r EXCEPT !.at = "gap", !.page = @ + 1, !.form = next[1].s, !.rows = rows]
              /\ Set(l, record)
        BY <3>3
      <4>2. record = [at |-> "gap", page |-> r.page + 1, form |-> next[1].s, hop |-> r.hop,
                      jar |-> r.jar, rows |-> rows, outcome |-> r.outcome,
                      paid |-> r.paid, detours |-> r.detours]
        BY <1>0, <4>1 DEF Whole
      <4>3. Whole(record) /\ record.at = "gap" /\ record.rows = rows
        BY <4>2 DEF Whole
      <4>4. Listed(rows) /\ (rows = <<>> => p.serp) /\ ~Walled(Engine(l), p)
        BY <1>0, <2>2, <2>4, <3>1, GatheredIsListed DEF Judged
      <4> QED BY <1>0, <4>1, <4>3, <4>4, ServedKeepsWall
    <3> QED BY <1>3, <2>2, <2>4, <3>1, <3>2, <3>3
  <2> QED BY <1>2, <2>2, <2>3, <2>4
<1>5. CASE Engine(l) = "yahoo"
  <2>1. PICK m : m = map_yahoo_response(p)
    OBVIOUS
  <2>2. Judged(m, p, Walled(Engine(l), p))
    BY <1>5, <2>1, PagesAreJudged DEF Walled, Judged
  <2>3. IF m.class = "ok" THEN yahoo_page(l, m.rows) ELSE End(l, m.class, <<>>)
    BY <1>0, <1>5, <2>1 DEF search_engine, yahoo_search
  <2>4. CASE m.class = "ok"
    <3>1. PICK rows : rows = Gathered(l, m.rows)
      OBVIOUS
    <3>2. \/ End(l, "ok", rows)
          \/ Set(l, [leg[l] EXCEPT !.page = @ + 1, !.hop = 0, !.detours = 0, !.rows = rows])
      BY <2>3, <2>4, <3>1 DEF yahoo_page
    <3>3. CASE Set(l, [leg[l] EXCEPT !.page = @ + 1, !.hop = 0, !.detours = 0, !.rows = rows])
      <4>1. PICK r, record :
              /\ r = leg[l]
              /\ record = [r EXCEPT !.page = @ + 1, !.hop = 0, !.detours = 0, !.rows = rows]
              /\ Set(l, record)
        BY <3>3
      <4>2. record = [at |-> r.at, page |-> r.page + 1, form |-> r.form, hop |-> 0,
                      jar |-> r.jar, rows |-> rows, outcome |-> r.outcome,
                      paid |-> r.paid, detours |-> 0]
        BY <1>0, <4>1 DEF Whole
      <4>3. Whole(record) /\ record.at = leg[l].at /\ record.rows = rows
        BY <4>1, <4>2 DEF Whole
      <4>4. Listed(rows) /\ (rows = <<>> => p.serp) /\ ~Walled(Engine(l), p)
        BY <1>0, <2>2, <2>4, <3>1, GatheredIsListed DEF Judged
      <4> QED BY <1>0, <1>5, <4>1, <4>3, <4>4, ServedKeepsWall
    <3> QED BY <1>3, <2>2, <2>4, <3>1, <3>2, <3>3
  <2> QED BY <1>2, <2>2, <2>3, <2>4
<1>6. CASE Engine(l) \notin {"duckduckgo", "yahoo"}
  <2>0. Engine(l) \in {"startpage", "brave", "bing", "cratesio"}
    BY <1>6 DEF ToSet, Priority
  <2>1. CASE Engine(l) = "startpage"
    <3>1. Judged(map_startpage_response(p), p, Walled(Engine(l), p))
      BY <2>1, PagesAreJudged DEF Walled, Judged
    <3> QED BY <1>0, <1>1, <2>1, <3>1 DEF search_engine, startpage_search, OnePage
  <2>2. CASE Engine(l) = "brave"
    <3>1. Judged(map_brave_response(p), p, Walled(Engine(l), p))
      BY <2>2, PagesAreJudged DEF Walled, Judged
    <3> QED BY <1>0, <1>1, <2>2, <3>1 DEF search_engine, brave_search, OnePage
  <2>3. CASE Engine(l) = "bing"
    <3>1. Judged(map_bing_response(p), p, Walled(Engine(l), p))
      BY <2>3, PagesAreJudged DEF Walled, Judged
    <3> QED BY <1>0, <1>1, <2>3, <3>1 DEF search_engine, bing_search, OnePage
  <2>4. CASE Engine(l) = "cratesio"
    <3>1. PICK way : way = route(QueryOf(l).tokens)
      OBVIOUS
    <3>2. Judged(map_cratesio_response(p, way), p, Walled(Engine(l), p))
      BY <2>4, PagesAreJudged DEF Walled, Judged
    <3> QED BY <1>0, <1>1, <2>4, <3>1, <3>2 DEF search_engine, cratesio_search, OnePage
  <2> QED BY <2>0, <2>1, <2>2, <2>3, <2>4
<1> QED BY <1>4, <1>5, <1>6

(* Legs that all failed give no Hits. *)
LEMMA NothingFound ==
  ASSUME NEW n \in Nat, Slots = 1..n, \A l \in Slots : leg[l].rows = <<>>, NEW queries
  PROVE  merge_scored(Results, queries) = <<>>
<1>1. \A l \in Slots : Stamped(l) = <<>>
  BY DEF Stamped
<1>2. Results = <<>>
  <2>1. PICK seqs : seqs = [l \in Slots |-> Stamped(l)]
    OBVIOUS
  <2>2. seqs = [l \in 1..n |-> <<>>]
    BY <1>1, <2>1
  <2>3. FlattenSeq(seqs) = <<>>
    BY <2>2, FlattenNothing
  <2> QED BY <2>1, <2>3 DEF Results
<1>3. Cardinality({}) = 0 /\ 1..0 = {}
  BY FS_EmptySet
<1>4. Sorted({}, LegBefore) = <<>> /\ Sorted({}, compare_scored) = <<>>
  BY <1>3 DEF Sorted
<1>5. DOMAIN <<>> = {}
  OBVIOUS
<1>6. ByLeg(<<>>, queries) = <<>>
  <2>1. {LegOf(<<>>[i], queries) : i \in DOMAIN <<>>} = {}
    BY <1>5
  <2>2. PICK seqs : seqs = [i \in 1..0 |-> <<>>]
    OBVIOUS
  <2>3. FlattenSeq(<<>>) = <<>>
    <3>1. FlattenSeq(seqs) = <<>>
      BY <2>2, FlattenNothing
    <3>2. seqs = <<>>
      BY <1>3, <2>2
    <3> QED BY <3>1, <3>2
  <2> QED BY <1>4, <1>5, <2>1, <2>3 DEF ByLeg
<1>7. merge_scored(<<>>, queries) = <<>>
  BY <1>4, <1>5, <1>6 DEF merge_scored
<1> QED BY <1>2, <1>7

LEMMA WallStep ==
  ASSUME WallInv, [Next]_vars
  PROVE  WallInv'
<1>1. CASE UNCHANGED vars
  BY <1>1 DEF vars, WallInv, WallOf, NoRows, Told, Blamed, Answering, Slots, Engine, Report, Failure,
              error_detail, QueryOf
<1>2. \A l \in Slots : Engine(l) \in ToSet(Priority)
  <2> SUFFICES ASSUME NEW l \in Slots PROVE Engine(l) \in ToSet(Priority)
    OBVIOUS
  <2>1. PICK S, Q : S = [engine : ToSet(Priority), query : Q] /\ call.slots \in Seq(S)
    BY CallsAssumption DEF WallInv
  <2>2. PICK slots : slots = call.slots /\ slots \in Seq(S) /\ l \in DOMAIN slots
    BY <2>1 DEF Slots
  <2>3. slots[l] \in S
    BY <2>2
  <2>4. slots[l].engine \in ToSet(Priority)
    BY <2>1, <2>3
  <2> QED BY <2>2, <2>4 DEF Engine
<1>3. ASSUME NEW l \in Slots, Answered(l) PROVE WallInv'
  <2>1. PICK p \in Pages[Engine(l)] : Receive(l, p)
    BY <1>3 DEF Answered
  <2>2. Listed(p.blocks) /\ (Engine(l) \in {"brave", "cratesio"} => ~p.wall)
    BY <1>2, <2>1, PagesAssumption DEF Listed
  <2> QED BY <1>2, <1>3, <2>1, <2>2, ReceiveKeepsWall DEF Answered
<1>4. ASSUME NEW l \in Slots, Stopped(l) PROVE WallInv'
  <2>1. PICK wall \in BOOLEAN : Receive(l, Redirect(wall))
    BY <1>4 DEF Stopped
  <2>2. Listed(Redirect(wall).blocks)
    BY EmptyIsListed DEF Redirect
  <2> QED BY <1>2, <1>4, <2>1, <2>2, ReceiveKeepsWall DEF Stopped
<1>5. CASE Finish
  <2>1. /\ UNCHANGED <<call, leg, served>> /\ \A l \in Slots : leg[l].at = "done"
        /\ \A l \in Slots : WallOf(l)
    BY <1>5 DEF Finish, WallInv
  <2>2. PICK hits : /\ hits = merge_scored(Results, call.queries)
                    /\ output' = <<IF AllFailed(hits) THEN Failures ELSE SearchOutput(hits)>>
    BY <1>5 DEF Finish
  <2>3. AllFailed(hits) <=> ~Answering
    <3>1. PICK n \in Nat : Slots = 1..n
      <4>1. PICK S : call.slots \in Seq(S)
        BY CallsAssumption DEF WallInv
      <4> QED BY <4>1 DEF Slots
    <3>2. ~Answering => \A l \in Slots : leg[l].rows = <<>>
      BY <2>1 DEF Answering, WallOf
    <3>3. ~Answering => hits = <<>>
      BY <2>2, <3>1, <3>2, NothingFound
    <3> QED BY <3>3 DEF AllFailed, Answering
  <2>4. PICK out : out = output'[1] /\ out = IF AllFailed(hits) THEN Failures ELSE SearchOutput(hits)
    BY <2>2
  <2>5. AllFailed(hits) => ~out.ok /\ out.failures = all_failed_message(Blamed)
    BY <2>4 DEF Failures, Blamed
  <2>6. ~AllFailed(hits) => out.ok /\ out.engines = engine_reports(Told)
    BY <2>4 DEF SearchOutput, Told
  <2>7. /\ output'[1].ok <=> Answering
        /\ output'[1].ok => output'[1].engines = engine_reports(Told)
        /\ ~output'[1].ok => output'[1].failures = all_failed_message(Blamed)
    BY <2>3, <2>4, <2>5, <2>6
  <2>8. /\ Told' = Told /\ Blamed' = Blamed /\ Slots' = Slots /\ (Answering' <=> Answering)
        /\ \A l \in Slots : WallOf(l)' <=> WallOf(l)
    BY <2>1 DEF Told, Blamed, Answering, Slots, Report, Failure, error_detail, QueryOf, Engine,
                WallOf, NoRows
  <2> QED BY <2>1, <2>7, <2>8 DEF WallInv
<1> QED BY <1>1, <1>3, <1>4, <1>5, QuietSteps DEF Next

-----------------------------------------------------------------------------
(* What repeats is dropped, and everything stays once. *)
Picks(t, s, I) ==
  /\ Listed(t)
  /\ \A k \in DOMAIN t : \E i \in I : t[k] = s[i]
  /\ \A i \in I : \E k \in DOMAIN t : t[k] = s[i]

LEMMA PicksAt ==
  ASSUME NEW s, Listed(s), NEW I, I \subseteq DOMAIN s, NEW t, t = At(s, I)
  PROVE  Picks(t, s, I)
BY KeptAt DEF Picks

(* The rows of legs are counted as none only if every one of them has none. *)
LEMMA RowsAreCounted ==
  ASSUME NEW legs, Listed(legs), \A i \in DOMAIN legs : Listed(legs[i].rows)
  PROVE  /\ RowCount(legs) \in Nat
         /\ RowCount(legs) = 0 => \A i \in DOMAIN legs : legs[i].rows = <<>>
<1>1. PICK n \in Nat : DOMAIN legs = 1..n
  BY ListedAre
<1> DEFINE Of(i) == {i} \X DOMAIN legs[i].rows
           F == {Of(i) : i \in 1..n}
<1>2. \A i \in 1..n : IsFiniteSet(Of(i))
  <2> SUFFICES ASSUME NEW i \in 1..n PROVE IsFiniteSet(Of(i))
    OBVIOUS
  <2>1. PICK m \in Nat : DOMAIN legs[i].rows = 1..m
    BY <1>1, ListedAre
  <2>2. IsFiniteSet(1..m)
    BY FS_Interval
  <2>3. IsFiniteSet({i})
    BY FS_Singleton
  <2>4. IsFiniteSet({i} \X (1..m))
    BY <2>2, <2>3, FS_Product
  <2> QED BY <2>1, <2>4
<1>3. RowCount(legs) = Cardinality(UNION F)
  BY <1>1 DEF RowCount
<1>4. IsFiniteSet(F)
  <2>1. PICK f : f = [i \in 1..n |-> Of(i)]
    OBVIOUS
  <2>2. f \in Surjection(1..n, F)
    BY <2>1 DEF Surjection
  <2> QED BY <2>2, FS_Interval, FS_Surjection
<1>5. IsFiniteSet(UNION F)
  BY <1>2, <1>4, FS_UNION
<1>6. \A i \in 1..n : \A m \in DOMAIN legs[i].rows : <<i, m>> \in UNION F
  OBVIOUS
<1> HIDE DEF F
<1>7. RowCount(legs) \in Nat /\ (RowCount(legs) = 0 => UNION F = {})
  BY <1>3, <1>5, FS_CardinalityType, FS_EmptySet
<1>8. ASSUME RowCount(legs) = 0, NEW i \in DOMAIN legs PROVE legs[i].rows = <<>>
  <2>1. DOMAIN legs[i].rows = {}
    BY <1>1, <1>6, <1>7, <1>8
  <2>2. PICK m \in Nat : DOMAIN legs[i].rows = 1..m /\ (legs[i].rows = <<>> <=> m = 0)
    BY ListedAre
  <2>3. m = 0
    BY <2>1, <2>2
  <2> QED BY <2>2, <2>3
<1> QED BY <1>7, <1>8

(* The report of an engine: each problem a leg of it had, and no other; no *)
(* results, only if one of its legs answered without a row.                *)
LEMMA ReportIsTrue ==
  ASSUME NEW legs, Listed(legs), \A i \in DOMAIN legs : Listed(legs[i].rows), NEW e,
         NEW report, report = EngineReport(e, legs)
  PROVE  /\ report.engine = e /\ Listed(report.problems)
         /\ \A i \in DOMAIN legs : legs[i].engine = e /\ legs[i].outcome # "ok" =>
              Contains(report.problems, legs[i].outcome)
         /\ \A n \in DOMAIN report.problems :
              \E i \in DOMAIN legs : legs[i].engine = e /\ report.problems[n] = legs[i].outcome
         /\ report.answered \in Nat /\ report.rows \in Nat
         /\ report.answered > 0 /\ report.rows = 0 =>
              \E i \in DOMAIN legs :
                legs[i].engine = e /\ legs[i].outcome = "ok" /\ legs[i].rows = <<>>
         /\ report.answered = 0 /\ report.problems = <<>> =>
              \A i \in DOMAIN legs : legs[i].engine # e
<1> DEFINE I == {i \in DOMAIN legs : legs[i].engine = e}
           mine == At(legs, I)
           J == {i \in DOMAIN mine : mine[i].outcome = "ok"}
           answered == At(mine, J)
           K == {i \in DOMAIN mine : mine[i].outcome # "ok"}
           failed == At(mine, K)
           outcomes == [i \in DOMAIN failed |-> failed[i].outcome]
<1>r. report = [engine |-> e, answered |-> Len(answered), rows |-> RowCount(answered),
                problems |-> FirstBy(outcomes, Itself)]
  BY DEF EngineReport, Where
<1>1. I = {i \in DOMAIN legs : legs[i].engine = e} /\ mine = At(legs, I)
  OBVIOUS
<1>2. J = {i \in DOMAIN mine : mine[i].outcome = "ok"} /\ answered = At(mine, J)
  OBVIOUS
<1>3. K = {i \in DOMAIN mine : mine[i].outcome # "ok"} /\ failed = At(mine, K)
  OBVIOUS
<1>4. outcomes = [i \in DOMAIN failed |-> failed[i].outcome]
  OBVIOUS
<1> HIDE DEF I, mine, J, answered, K, failed, outcomes
<1>a. Picks(mine, legs, I)
  BY <1>1, PicksAt
<1>l. Listed(mine) /\ J \subseteq DOMAIN mine /\ K \subseteq DOMAIN mine
  BY <1>2, <1>3, <1>a DEF Picks
<1>b. Picks(answered, mine, J)
  BY <1>2, <1>l, PicksAt
<1>c. Picks(failed, mine, K)
  BY <1>3, <1>l, PicksAt
<1>5. Listed(outcomes) /\ DOMAIN outcomes = DOMAIN failed
      /\ \A i \in DOMAIN failed : outcomes[i] = failed[i].outcome
  <2>1. PICK n \in Nat : DOMAIN failed = 1..n
    BY <1>c, ListedAre DEF Picks
  <2>2. outcomes = [i \in 1..n |-> outcomes[i]]
    BY <1>4, <2>1
  <2> QED BY <1>4, <2>1, <2>2, ListedTo
<1>6. PICK problems : /\ problems = FirstBy(outcomes, Itself) /\ Listed(problems)
                      /\ \A i \in DOMAIN outcomes : \E k \in DOMAIN problems : problems[k] = outcomes[i]
                      /\ \A k \in DOMAIN problems : \E i \in DOMAIN outcomes : problems[k] = outcomes[i]
  BY <1>5, OnceIsEnough DEF Firsts
<1>7. report = [engine |-> e, answered |-> Len(answered), rows |-> RowCount(answered),
                problems |-> problems]
  BY <1>r, <1>6
<1>8. /\ report.engine = e /\ report.answered = Len(answered) /\ report.rows = RowCount(answered)
      /\ report.problems = problems
  BY <1>7
<1>9. \A i \in DOMAIN legs : legs[i].engine = e /\ legs[i].outcome # "ok" =>
        \E k \in DOMAIN problems : problems[k] = legs[i].outcome
  BY <1>1, <1>3, <1>5, <1>6, <1>a, <1>c DEF Picks
<1>10. \A n \in DOMAIN problems :
         \E i \in DOMAIN legs : legs[i].engine = e /\ problems[n] = legs[i].outcome
  BY <1>1, <1>3, <1>5, <1>6, <1>a, <1>c DEF Picks
<1>11. /\ DOMAIN problems = 1..Len(problems) /\ Len(problems) \in Nat
       /\ (problems = <<>> <=> Len(problems) = 0)
       /\ DOMAIN answered = 1..Len(answered) /\ Len(answered) \in Nat
  BY <1>b, <1>6, ListedAre DEF Picks
<1>12. \A i \in DOMAIN answered :
         \E j \in DOMAIN legs : /\ legs[j].engine = e /\ legs[j].outcome = "ok"
                                /\ answered[i].rows = legs[j].rows
  BY <1>1, <1>2, <1>a, <1>b DEF Picks
<1>13. /\ RowCount(answered) \in Nat
       /\ RowCount(answered) = 0 => \A i \in DOMAIN answered : answered[i].rows = <<>>
  <2>1. \A i \in DOMAIN answered : Listed(answered[i].rows)
    BY <1>12
  <2> QED BY <1>b, <2>1, RowsAreCounted DEF Picks
<1>14. Len(answered) > 0 /\ RowCount(answered) = 0 =>
         \E i \in DOMAIN legs :
           legs[i].engine = e /\ legs[i].outcome = "ok" /\ legs[i].rows = <<>>
  <2>1. Len(answered) > 0 => 1 \in DOMAIN answered
    BY <1>11
  <2> QED BY <1>12, <1>13, <2>1
<1>15. Len(answered) = 0 /\ problems = <<>> => \A i \in DOMAIN legs : legs[i].engine # e
  <2> SUFFICES ASSUME Len(answered) = 0, problems = <<>>, NEW i \in DOMAIN legs, legs[i].engine = e
               PROVE  FALSE
    OBVIOUS
  <2>1. DOMAIN answered = {} /\ DOMAIN problems = {}
    BY <1>11
  <2>2. legs[i].outcome = "ok"
    BY <1>9, <2>1
  <2> QED BY <1>1, <1>2, <1>a, <1>b, <2>1, <2>2 DEF Picks
<1>16. \A i \in DOMAIN legs : legs[i].engine = e /\ legs[i].outcome # "ok" =>
         Contains(problems, legs[i].outcome)
  BY <1>9, <1>11 DEF Contains
<1> QED BY <1>6, <1>8, <1>10, <1>11, <1>13, <1>14, <1>15, <1>16

(* One report per engine that a leg was scheduled for, true of its legs. *)
LEMMA ReportsAreTrue ==
  ASSUME WallInv, NEW reports, reports = engine_reports(Told)
  PROVE  /\ Listed(Told) /\ DOMAIN Told = Slots /\ \A l \in Slots : Listed(Told[l].rows)
         /\ \A l \in Slots : Told[l] = Report(l)
         /\ \A l \in Slots :
              \E i \in DOMAIN reports : reports[i] = EngineReport(Engine(l), Told)
         /\ \A i \in DOMAIN reports :
              \E l \in Slots : reports[i] = EngineReport(Engine(l), Told)
<1>1. PICK n \in Nat : Slots = 1..n
  <2>1. PICK S : call.slots \in Seq(S)
    BY CallsAssumption DEF WallInv
  <2> QED BY <2>1 DEF Slots
<1>2. \A l \in Slots : Told[l] = Report(l) /\ Told[l].rows = leg[l].rows /\ Told[l].engine = Engine(l)
  BY DEF Told, Report
<1>3. PICK told : told = Told
  OBVIOUS
<1>4. told = [l \in 1..n |-> told[l]]
  BY <1>1, <1>3 DEF Told
<1>5. Listed(Told) /\ DOMAIN Told = Slots
  BY <1>1, <1>3, <1>4, ListedTo
<1>6. \A l \in Slots : Listed(Told[l].rows)
  BY <1>2 DEF WallInv, WallOf
<1> DEFINE I == {i \in DOMAIN Priority : \E j \in DOMAIN Told : Told[j].engine = Priority[i]}
           asked == At(Priority, I)
<1>7. reports = [i \in DOMAIN asked |-> EngineReport(asked[i], Told)]
  BY DEF engine_reports, Where
<1>8. I \subseteq DOMAIN Priority /\ asked = At(Priority, I)
      /\ I = {i \in DOMAIN Priority : \E j \in DOMAIN Told : Told[j].engine = Priority[i]}
  OBVIOUS
<1> HIDE DEF I, asked
<1>9. Listed(Priority)
  <2>1. Len(Priority) = 6 /\ Priority = [i \in 1..6 |-> Priority[i]]
    BY DEF Priority
  <2> QED BY <2>1, ListedTo
<1>10. Picks(asked, Priority, I)
  BY <1>8, <1>9, PicksAt
<1>11. \A l \in Slots : Engine(l) \in ToSet(Priority)
  <2> SUFFICES ASSUME NEW l \in Slots PROVE Engine(l) \in ToSet(Priority)
    OBVIOUS
  <2>1. PICK S, Q : S = [engine : ToSet(Priority), query : Q] /\ call.slots \in Seq(S)
    BY CallsAssumption DEF WallInv
  <2>2. PICK slots : slots = call.slots /\ slots \in Seq(S) /\ l \in DOMAIN slots
    BY <2>1 DEF Slots
  <2>3. slots[l] \in S
    BY <2>2
  <2>4. slots[l].engine \in ToSet(Priority)
    BY <2>1, <2>3
  <2> QED BY <2>2, <2>4 DEF Engine
<1>12. ASSUME NEW l \in Slots
       PROVE  \E i \in DOMAIN reports : reports[i] = EngineReport(Engine(l), Told)
  <2>1. PICK m \in DOMAIN Priority : Priority[m] = Engine(l)
    BY <1>11 DEF ToSet
  <2>2. m \in I
    BY <1>2, <1>5, <1>8, <2>1
  <2>3. PICK i \in DOMAIN asked : asked[i] = Engine(l)
    BY <1>10, <2>1, <2>2 DEF Picks
  <2> QED BY <1>7, <2>3
<1>13. ASSUME NEW i \in DOMAIN reports
       PROVE  \E l \in Slots : reports[i] = EngineReport(Engine(l), Told)
  <2>1. i \in DOMAIN asked /\ reports[i] = EngineReport(asked[i], Told)
    BY <1>7
  <2>2. PICK m \in I : asked[i] = Priority[m]
    BY <1>10, <2>1 DEF Picks
  <2>3. PICK l \in Slots : Told[l].engine = asked[i]
    BY <1>5, <1>8, <2>2
  <2> QED BY <1>2, <2>1, <2>3
<1> QED BY <1>2, <1>5, <1>6, <1>12, <1>13

LEMMA WallsAreTold ==
  ASSUME WallInv, output # <<>>, NEW all, all = engine_reports(Told)
  PROVE  ReportsAreRight(all)
<1>1. PICK reports : reports = all /\ reports = engine_reports(Told)
  OBVIOUS
<1>2. /\ Listed(Told) /\ DOMAIN Told = Slots /\ \A l \in Slots : Listed(Told[l].rows)
      /\ \A l \in Slots : Told[l].engine = Engine(l) /\ Told[l].outcome = leg[l].outcome
                           /\ Told[l].rows = leg[l].rows
      /\ \A l \in Slots :
           \E i \in DOMAIN reports : reports[i] = EngineReport(Engine(l), Told)
      /\ \A i \in DOMAIN reports :
           \E l \in Slots : reports[i] = EngineReport(Engine(l), Told)
  <2>1. \A l \in Slots : Report(l).engine = Engine(l) /\ Report(l).outcome = leg[l].outcome
                         /\ Report(l).rows = leg[l].rows
    BY DEF Report
  <2>2. \A l \in Slots : Told[l] = Report(l)
    BY <1>1, ReportsAreTrue
  <2>3. \A l \in Slots : Told[l].engine = Engine(l) /\ Told[l].outcome = leg[l].outcome
                         /\ Told[l].rows = leg[l].rows
    BY <2>1, <2>2
  <2> QED BY <1>1, <2>3, ReportsAreTrue
<1>3. \A l \in Slots : WallOf(l) /\ leg[l].at = "done"
  BY DEF WallInv
<1>4. ASSUME NEW l \in WalledLegs
      PROVE  \E i \in DOMAIN reports : /\ reports[i].engine = Engine(l)
                                       /\ Contains(reports[i].problems, "challenge")
  <2>1. l \in Slots /\ leg[l].outcome = "challenge"
    BY <1>3, <1>4 DEF WallOf, WalledLegs
  <2>2. PICK i \in DOMAIN reports : reports[i] = EngineReport(Engine(l), Told)
    BY <1>2, <2>1
  <2>3. reports[i].engine = Engine(l) /\ Contains(reports[i].problems, Told[l].outcome)
    BY <1>2, <2>1, <2>2, ReportIsTrue
  <2> QED BY <1>2, <2>1, <2>3
<1>5. ASSUME NEW i \in DOMAIN reports, StatusOf(reports[i]) = "no_results"
      PROVE  \E l \in Slots \ WalledLegs : /\ Engine(l) = reports[i].engine
                                           /\ served[l] # <<>> /\ Last(served[l]).serp
  <2>1. PICK e, told, x : /\ told \in Slots /\ e = Engine(told) /\ x = reports[i]
                          /\ x = EngineReport(e, Told)
    BY <1>2
  <2>2. /\ x.engine = e /\ Listed(x.problems) /\ x.answered \in Nat /\ x.rows \in Nat
        /\ x.answered > 0 /\ x.rows = 0 =>
             \E l \in Slots : Told[l].engine = e /\ Told[l].outcome = "ok" /\ Told[l].rows = <<>>
        /\ x.answered = 0 /\ x.problems = <<>> => \A l \in Slots : Told[l].engine # e
        /\ \A n \in DOMAIN x.problems : \E l \in Slots : x.problems[n] = Told[l].outcome
    <3>1. PICK legs : legs = Told
      OBVIOUS
    <3>2. /\ Listed(legs) /\ DOMAIN legs = Slots /\ \A l \in DOMAIN legs : Listed(legs[l].rows)
          /\ x = EngineReport(e, legs)
      BY <1>2, <2>1, <3>1
    <3>3. /\ x.engine = e /\ Listed(x.problems) /\ x.answered \in Nat /\ x.rows \in Nat
          /\ x.answered > 0 /\ x.rows = 0 =>
               \E l \in DOMAIN legs :
                 legs[l].engine = e /\ legs[l].outcome = "ok" /\ legs[l].rows = <<>>
          /\ x.answered = 0 /\ x.problems = <<>> => \A l \in DOMAIN legs : legs[l].engine # e
          /\ \A n \in DOMAIN x.problems :
               \E l \in DOMAIN legs : legs[l].engine = e /\ x.problems[n] = legs[l].outcome
      BY <3>2, ReportIsTrue
    <3> QED BY <3>1, <3>2, <3>3
  <2>3. \A n \in DOMAIN x.problems : x.problems[n] # "no_results"
    <3>1. \A l \in Slots : leg[l].outcome # "no_results"
      BY <1>3 DEF WallOf, Outcomes
    <3> QED BY <1>2, <2>2, <3>1
  <2>4. x.answered > 0 /\ ~(x.rows > 0)
    <3>1. x.problems # <<>> => 1 \in DOMAIN x.problems
      BY <2>2, ListedAre
    <3>2. StatusOf(x) = "no_results"
      BY <1>5, <2>1
    <3>3. CASE x.answered > 0
      BY <3>2, <3>3 DEF StatusOf
    <3>4. CASE ~(x.answered > 0)
      <4>1. x.problems = <<>>
        BY <2>3, <3>1, <3>2, <3>4 DEF StatusOf
      <4> QED BY <1>2, <2>1, <2>2, <3>4, <4>1
    <3> QED BY <3>3, <3>4
  <2>5. PICK l \in Slots : Told[l].engine = e /\ Told[l].outcome = "ok" /\ Told[l].rows = <<>>
    BY <2>2, <2>4
  <2>6. NoRows(l)
    BY <1>2, <1>3, <2>5 DEF WallOf
  <2> QED BY <1>2, <2>1, <2>2, <2>5, <2>6 DEF NoRows, WalledLegs
<1> QED BY <1>1, <1>4, <1>5 DEF ReportsAreRight

(* The message of a call that failed: one entry per engine, with all that  *)
(* its legs failed by.                                                     *)
LEMMA DetailsAreTrue ==
  ASSUME NEW failures, Listed(failures), NEW e, NEW details, details = DetailsOf(e, failures)
  PROVE  \A i \in DOMAIN failures : failures[i].engine = e => Contains(details, failures[i].detail)
<1> DEFINE I == {i \in DOMAIN failures : failures[i].engine = e}
           mine == At(failures, I)
           own == [i \in DOMAIN mine |-> mine[i].detail]
<1>1. details = FirstBy(own, Itself)
  BY DEF DetailsOf, Where
<1>2. I = {i \in DOMAIN failures : failures[i].engine = e} /\ mine = At(failures, I)
      /\ own = [i \in DOMAIN mine |-> mine[i].detail]
  OBVIOUS
<1> HIDE DEF I, mine, own
<1>3. Picks(mine, failures, I)
  BY <1>2, PicksAt
<1>4. Listed(own) /\ DOMAIN own = DOMAIN mine /\ \A i \in DOMAIN mine : own[i] = mine[i].detail
  <2>1. PICK n \in Nat : DOMAIN mine = 1..n
    BY <1>3, ListedAre DEF Picks
  <2>2. own = [i \in 1..n |-> own[i]]
    BY <1>2, <2>1
  <2> QED BY <1>2, <2>1, <2>2, ListedTo
<1>5. Firsts(details, own)
  BY <1>1, <1>4, OnceIsEnough
<1>6. \A n \in DOMAIN own : Contains(details, own[n])
  BY <1>5, ListedAre DEF Firsts, Contains
<1>7. ASSUME NEW i \in DOMAIN failures, failures[i].engine = e
      PROVE  Contains(details, failures[i].detail)
  <2>1. PICK k \in DOMAIN mine : mine[k] = failures[i]
    BY <1>2, <1>3, <1>7 DEF Picks
  <2> QED BY <1>4, <1>6, <2>1
<1> QED BY <1>7

LEMMA FailuresAreTold ==
  ASSUME WallInv, output # <<>>, NEW failures, failures = all_failed_message(Blamed)
  PROVE  FailuresAreRight(failures)
<1>1. PICK n \in Nat : Slots = 1..n
  <2>1. PICK S : call.slots \in Seq(S)
    BY CallsAssumption DEF WallInv
  <2> QED BY <2>1 DEF Slots
<1>2. PICK blamed : blamed = Blamed
  OBVIOUS
<1>3. /\ blamed = [l \in 1..n |-> blamed[l]]
      /\ \A l \in Slots : blamed[l].engine = Engine(l) /\ blamed[l].detail = error_detail(l)
  BY <1>1, <1>2 DEF Blamed, Failure
<1>4. Listed(blamed) /\ DOMAIN blamed = Slots
  BY <1>1, <1>3, ListedTo
<1>5. PICK names : names = [i \in DOMAIN blamed |-> blamed[i].engine]
  OBVIOUS
<1>6. Listed(names) /\ DOMAIN names = Slots /\ \A l \in Slots : names[l] = Engine(l)
  <2>1. names = [l \in 1..n |-> names[l]]
    BY <1>1, <1>4, <1>5
  <2> QED BY <1>1, <1>3, <1>4, <1>5, <2>1, ListedTo
<1>7. PICK engines : engines = FirstBy(names, Itself) /\ Firsts(engines, names)
  BY <1>6, OnceIsEnough
<1>8. failures = [i \in DOMAIN engines |->
                    [engine |-> engines[i], details |-> DetailsOf(engines[i], blamed)]]
  BY <1>2, <1>5, <1>7 DEF all_failed_message
<1>9. /\ DOMAIN failures = DOMAIN engines
      /\ \A i \in DOMAIN engines : /\ failures[i].engine = engines[i]
                                   /\ failures[i].details = DetailsOf(engines[i], blamed)
  BY <1>8
<1>10. ASSUME NEW l \in Slots
       PROVE  \E i \in DOMAIN failures : /\ failures[i].engine = Engine(l)
                                         /\ Contains(failures[i].details, error_detail(l))
  <2>1. PICK i \in DOMAIN engines : engines[i] = Engine(l)
    BY <1>6, <1>7 DEF Firsts
  <2>2. PICK details : details = failures[i].details /\ details = DetailsOf(Engine(l), blamed)
    BY <1>9, <2>1
  <2>3. Contains(details, error_detail(l))
    BY <1>3, <1>4, <2>2, DetailsAreTrue
  <2> QED BY <1>9, <2>1, <2>2, <2>3
<1>11. \A l \in WalledLegs : l \in Slots /\ error_detail(l) = <<"challenge">>
  BY DEF WalledLegs, WallInv, WallOf, error_detail
<1>12. \A i, j \in DOMAIN failures : failures[i].engine = failures[j].engine => i = j
  BY <1>7, <1>9 DEF Firsts
<1> QED BY <1>10, <1>11, <1>12 DEF FailuresAreRight

LEMMA WallsAreKnown ==
  ASSUME WallInv, output # <<>>
  PROVE  WallsAreReported
<1>1. output[1].ok => ReportsAreRight(output[1].engines)
  BY WallsAreTold DEF WallInv
<1>2. ~output[1].ok => FailuresAreRight(output[1].failures)
  BY FailuresAreTold DEF WallInv
<1>3. output[1].ok <=> Answering
  BY DEF WallInv
<1> QED BY <1>1, <1>2, <1>3 DEF WallsAreReported, Answering

LEMMA WallStarts == Init => WallInv
<1> SUFFICES ASSUME Init PROVE WallInv
  OBVIOUS
<1> DEFINE first == [at |-> "start", page |-> 1, form |-> "none", hop |-> 0, jar |-> "none",
                     rows |-> <<>>, outcome |-> "none", paid |-> 0, detours |-> 0]
<1>1. /\ leg = [l \in Slots |-> first] /\ served = [l \in Slots |-> <<>>]
      /\ call \in Calls /\ output = <<>>
  BY DEF Init
<1>2. Whole(first) /\ Listed(first.rows) /\ Listed(<<>>) /\ first.at = "start"
  BY EmptyIsListed DEF Whole
<1> HIDE DEF first
<1>3. \A l \in Slots : leg[l] = first /\ served[l] = <<>>
  BY <1>1
<1>4. \A l \in Slots : WallOf(l)
  BY <1>2, <1>3 DEF WallOf
<1> QED BY <1>1, <1>4 DEF WallInv

(* However many legs an engine has and however their answers interleave:   *)
(* the call fails as a whole exactly when no leg answered, a wall met by   *)
(* one of them is in its report or in the failure of the call, which names *)
(* each engine once with all that its legs failed by, and "no results" is  *)
(* said only of an engine that answered with an empty results page         *)
(* (map_*_response, search, engine_reports, all_failed_message).           *)
THEOREM WallsAreAlwaysReported == Spec => []WallsAreReported
<1>1. WallInv => WallsAreReported
  BY WallsAreKnown DEF WallsAreReported
<1> QED BY <1>1, WallStarts, WallStep, PTL DEF Spec

-----------------------------------------------------------------------------
(* There is one way to leave repeats out. *)
LEMMA FirstsAreOne ==
  ASSUME NEW s, NEW t, NEW u, Firsts(t, s), Firsts(u, s)
  PROVE  t = u
<1>1. PICK m \in Nat, n \in Nat : /\ DOMAIN t = 1..m /\ DOMAIN u = 1..n
                                  /\ Len(t) = m /\ Len(u) = n
  BY ListedAre DEF Firsts
<1>2. PICK z \in Nat : DOMAIN s = 1..z
  BY ListedAre DEF Firsts
<1>3. ASSUME NEW a, NEW b, Firsts(a, s), Firsts(b, s), NEW k \in Nat, k \in DOMAIN a, k \in DOMAIN b,
             \A j \in 1..(k - 1) : a[j] = b[j], DOMAIN a \subseteq Nat, DOMAIN b \subseteq Nat,
             NEW x \in DOMAIN s, s[x] = a[k], Before(s, x) = Before(a, k),
             NEW y \in DOMAIN s, s[y] = b[k], Before(s, y) = Before(b, k)
      PROVE  ~(x < y)
  <2> SUFFICES ASSUME x < y PROVE FALSE
    OBVIOUS
  <2>1. x \in 1..(y - 1)
    BY <1>2, <1>3
  <2>2. a[k] \in Before(b, k)
    BY <1>3, <2>1 DEF Before
  <2>3. PICK j \in 1..(k - 1) : a[k] = a[j]
    BY <1>3, <2>2 DEF Before
  <2>4. j \in DOMAIN a
    <3>1. PICK l \in Nat : DOMAIN a = 1..l
      BY <1>3, ListedAre DEF Firsts
    <3> QED BY <1>3, <3>1
  <2>5. j = k
    BY <1>3, <2>3, <2>4 DEF Firsts
  <2> QED BY <1>3, <2>5
<1>4. ASSUME NEW k \in DOMAIN t, k \in DOMAIN u, \A j \in 1..(k - 1) : t[j] = u[j]
      PROVE  t[k] = u[k]
  <2>1. PICK x \in DOMAIN s : s[x] = t[k] /\ Before(s, x) = Before(t, k)
    BY DEF Firsts
  <2>2. PICK y \in DOMAIN s : s[y] = u[k] /\ Before(s, y) = Before(u, k)
    BY <1>4 DEF Firsts
  <2>3. k \in Nat /\ DOMAIN t \subseteq Nat /\ DOMAIN u \subseteq Nat /\ x \in Nat /\ y \in Nat
    BY <1>1, <1>2
  <2>4. ~(x < y)
    BY <1>3, <1>4, <2>1, <2>2, <2>3
  <2>5. ~(y < x)
    BY <1>3, <1>4, <2>1, <2>2, <2>3
  <2>6. x = y
    BY <2>3, <2>4, <2>5
  <2> QED BY <2>1, <2>2, <2>6
<1>5. \A k \in DOMAIN t \cap DOMAIN u : t[k] = u[k]
  <2> DEFINE Differ == {k \in DOMAIN t \cap DOMAIN u : t[k] # u[k]}
  <2> SUFFICES ASSUME Differ # {} PROVE FALSE
    OBVIOUS
  <2>1. PICK k : k \in Differ /\ \A x \in Differ : k <= x
    <3>1. Differ \subseteq Nat
      BY <1>1
    <3> QED BY <3>1, MinOf
  <2>2. \A j \in 1..(k - 1) : j \in DOMAIN t \cap DOMAIN u /\ j \notin Differ
    BY <1>1, <2>1
  <2> QED BY <1>4, <2>1, <2>2
<1>6. ASSUME NEW a, NEW b, Firsts(a, s), Firsts(b, s), NEW x \in Nat, NEW y \in Nat,
             DOMAIN a = 1..x, DOMAIN b = 1..y, \A k \in DOMAIN a \cap DOMAIN b : a[k] = b[k]
      PROVE  ~(x < y)
  <2> SUFFICES ASSUME x < y PROVE FALSE
    OBVIOUS
  <2>1. x + 1 \in DOMAIN b
    BY <1>6
  <2>2. PICK i \in DOMAIN s : s[i] = b[x + 1]
    BY <1>6, <2>1 DEF Firsts
  <2>3. PICK k \in DOMAIN a : a[k] = b[x + 1]
    BY <1>6, <2>2 DEF Firsts
  <2>4. k \in DOMAIN b /\ b[k] = b[x + 1]
    BY <1>6, <2>3
  <2>5. k = x + 1
    BY <1>6, <2>1, <2>4 DEF Firsts
  <2> QED BY <1>6, <2>5
<1>7. m = n
  <2>1. ~(m < n) /\ ~(n < m)
    BY <1>1, <1>5, <1>6
  <2> QED BY <2>1
<1>8. t \in Seq(ToSet(t)) /\ u \in Seq(ToSet(u))
  BY DEF Firsts, Listed
<1>9. t = [k \in 1..m |-> t[k]] /\ u = [k \in 1..n |-> u[k]]
  BY <1>1, <1>8
<1> QED BY <1>1, <1>5, <1>7, <1>9

(* c is a and then b. *)
Joined(c, a, b) ==
  /\ Listed(c) /\ DOMAIN c = 1..(Len(a) + Len(b)) /\ Len(a) \in Nat /\ Len(b) \in Nat
  /\ DOMAIN a = 1..Len(a) /\ DOMAIN b = 1..Len(b)
  /\ \A i \in 1..Len(a) : c[i] = a[i]
  /\ \A i \in 1..Len(b) : c[Len(a) + i] = b[i]

LEMMA ListedConcat ==
  ASSUME NEW a, NEW b, Listed(a), Listed(b)
  PROVE  Joined(a \o b, a, b)
<1>0. PICK c : c = a \o b
  OBVIOUS
<1>1. PICK S : S = ToSet(a) \cup ToSet(b)
  OBVIOUS
<1>2. a \in Seq(S) /\ b \in Seq(S)
  BY <1>1 DEF Listed
<1>3. c \in Seq(S) /\ Len(c) = Len(a) + Len(b)
  BY <1>0, <1>2
<1>4. /\ DOMAIN c = 1..(Len(a) + Len(b)) /\ Len(a) \in Nat /\ Len(b) \in Nat
      /\ DOMAIN a = 1..Len(a) /\ DOMAIN b = 1..Len(b)
  BY <1>2, <1>3
<1>5. /\ \A i \in 1..Len(a) : c[i] = a[i]
      /\ \A i \in 1..Len(b) : c[Len(a) + i] = b[i]
  BY <1>0, <1>2
<1>6. Listed(c)
  BY <1>3, ListedIn
<1>7. Joined(c, a, b)
  BY <1>4, <1>5, <1>6 DEF Joined
<1> QED BY <1>0, <1>7

(* What comes before a position of a concatenation. *)
Behind(c, a, b) ==
  /\ \A n \in 1..Len(a) : Before(c, n) = Before(a, n)
  /\ \A n \in 1..Len(b) :
       Before(c, Len(a) + n) = {a[i] : i \in DOMAIN a} \cup Before(b, n)

LEMMA BeforeConcat ==
  ASSUME NEW a, NEW b, NEW c, Joined(c, a, b)
  PROVE  Behind(c, a, b)
<1>1. /\ Listed(c) /\ DOMAIN c = 1..(Len(a) + Len(b)) /\ Len(a) \in Nat /\ Len(b) \in Nat
      /\ DOMAIN a = 1..Len(a) /\ DOMAIN b = 1..Len(b)
      /\ \A i \in 1..Len(a) : c[i] = a[i]
      /\ \A i \in 1..Len(b) : c[Len(a) + i] = b[i]
  BY DEF Joined
<1>2. PICK A, B : A = Len(a) /\ B = Len(b) /\ A \in Nat /\ B \in Nat
  BY <1>1
<1>3. ASSUME NEW n \in 1..A PROVE Before(c, n) = Before(a, n)
  <2>1. \A j \in 1..(n - 1) : c[j] = a[j]
    BY <1>1, <1>2
  <2>2. {c[j] : j \in 1..(n - 1)} = {a[j] : j \in 1..(n - 1)}
    BY <2>1
  <2> QED BY <2>2 DEF Before
<1>4. ASSUME NEW n \in 1..B
      PROVE  Before(c, A + n) = {a[i] : i \in DOMAIN a} \cup Before(b, n)
  <2>0. PICK z, y : z = A + n /\ y = z - 1 /\ z \in Nat /\ y \in Nat
    BY <1>2
  <2>1. ASSUME NEW j \in 1..y PROVE c[j] \in {a[i] : i \in DOMAIN a} \cup Before(b, n)
    <3>1. CASE j <= A
      <4>1. j \in DOMAIN a /\ c[j] = a[j]
        BY <1>1, <1>2, <3>1
      <4> QED BY <4>1
    <3>2. CASE ~(j <= A)
      <4>1. PICK m : m = j - A
        OBVIOUS
      <4>2. m \in 1..(n - 1) /\ m \in 1..B /\ j = A + m
        BY <1>2, <2>0, <3>2, <4>1
      <4>3. c[j] = b[m]
        BY <1>1, <1>2, <4>2
      <4> QED BY <4>2, <4>3 DEF Before
    <3> QED BY <3>1, <3>2
  <2>2. ASSUME NEW i \in DOMAIN a PROVE \E j \in 1..y : c[j] = a[i]
    <3>1. i \in 1..y /\ c[i] = a[i]
      BY <1>1, <1>2, <2>0
    <3> QED BY <3>1
  <2>3. ASSUME NEW m \in 1..(n - 1) PROVE \E j \in 1..y : c[j] = b[m]
    <3>1. PICK j : j = A + m
      OBVIOUS
    <3>2. j \in 1..y /\ c[j] = b[m]
      BY <1>1, <1>2, <2>0, <3>1
    <3> QED BY <3>2
  <2>4. Before(c, z) = {c[j] : j \in 1..y}
    BY <2>0 DEF Before
  <2>5. Before(b, n) = {b[j] : j \in 1..(n - 1)}
    BY DEF Before
  <2>6. Before(c, z) \subseteq {a[i] : i \in DOMAIN a} \cup Before(b, n)
    BY <2>1, <2>4
  <2>7. {a[i] : i \in DOMAIN a} \subseteq Before(c, z)
    BY <2>2, <2>4
  <2>8. Before(b, n) \subseteq Before(c, z)
    BY <2>3, <2>4, <2>5
  <2>9. Before(c, z) = {a[i] : i \in DOMAIN a} \cup Before(b, n)
    BY <2>6, <2>7, <2>8
  <2> QED BY <2>0, <2>9
<1> HIDE DEF Before
<1> QED BY <1>2, <1>3, <1>4 DEF Behind

(* Repeats may be left out before or after a sequence is continued. *)
LEMMA FirstsContinue ==
  ASSUME NEW s, NEW t, Firsts(t, s), NEW v, Listed(v), NEW u, Firsts(u, t \o v)
  PROVE  Firsts(u, s \o v)
<1>1. PICK c, d : c = t \o v /\ d = s \o v
  OBVIOUS
<1>2. PICK T, S, V : T = Len(t) /\ S = Len(s) /\ V = Len(v)
  OBVIOUS
<1>3. Listed(t) /\ Listed(s)
  BY DEF Firsts
<1>j. Joined(c, t, v) /\ Joined(d, s, v)
  BY <1>1, <1>3, ListedConcat
<1>4. /\ Listed(c) /\ DOMAIN c = 1..(T + V) /\ T \in Nat /\ V \in Nat
      /\ DOMAIN t = 1..T /\ DOMAIN v = 1..V
      /\ \A i \in 1..T : c[i] = t[i]
      /\ \A i \in 1..V : c[T + i] = v[i]
  BY <1>2, <1>j DEF Joined
<1>5. /\ Listed(d) /\ DOMAIN d = 1..(S + V) /\ S \in Nat
      /\ DOMAIN s = 1..S
      /\ \A i \in 1..S : d[i] = s[i]
      /\ \A i \in 1..V : d[S + i] = v[i]
  BY <1>2, <1>j DEF Joined
<1>6. /\ \A n \in 1..T : Before(c, n) = Before(t, n)
      /\ \A n \in 1..V : Before(c, T + n) = {t[i] : i \in DOMAIN t} \cup Before(v, n)
      /\ \A n \in 1..S : Before(d, n) = Before(s, n)
      /\ \A n \in 1..V : Before(d, S + n) = {s[i] : i \in DOMAIN s} \cup Before(v, n)
  <2>1. Behind(c, t, v) /\ Behind(d, s, v)
    BY <1>j, BeforeConcat
  <2> QED BY <1>2, <2>1 DEF Behind
<1>e. /\ \A n \in DOMAIN c : \E k \in DOMAIN u : u[k] = c[n]
      /\ \A k \in DOMAIN u : \E n \in DOMAIN c : c[n] = u[k] /\ Before(c, n) = Before(u, k)
  <2>1. Firsts(u, c)
    BY <1>1
  <2> QED BY <2>1 DEF Firsts
<1>f. /\ \A n \in DOMAIN s : \E k \in DOMAIN t : t[k] = s[n]
      /\ \A k \in DOMAIN t : \E n \in DOMAIN s : s[n] = t[k] /\ Before(s, n) = Before(t, k)
  BY DEF Firsts
<1>7. {t[i] : i \in DOMAIN t} = {s[i] : i \in DOMAIN s}
  <2>1. ASSUME NEW i \in DOMAIN t PROVE t[i] \in {s[j] : j \in DOMAIN s}
    BY <1>f
  <2>2. ASSUME NEW i \in DOMAIN s PROVE s[i] \in {t[j] : j \in DOMAIN t}
    BY <1>f
  <2> QED BY <2>1, <2>2
<1>8. ASSUME NEW n \in DOMAIN d PROVE \E k \in DOMAIN u : u[k] = d[n]
  <2>1. CASE n <= S
    <3>1. n \in DOMAIN s /\ d[n] = s[n]
      BY <1>5, <2>1
    <3>2. PICK k \in DOMAIN t : t[k] = s[n]
      BY <1>f, <3>1
    <3>3. k \in DOMAIN c /\ c[k] = d[n]
      BY <1>4, <3>1, <3>2
    <3> QED BY <1>e, <3>3
  <2>2. CASE ~(n <= S)
    <3>1. PICK m : m = n - S
      OBVIOUS
    <3>2. m \in 1..V /\ n = S + m
      <4>1. S \in Nat /\ V \in Nat /\ n \in 1..(S + V)
        BY <1>4, <1>5
      <4> QED BY <2>2, <3>1, <4>1
    <3>3. T + m \in DOMAIN c
      <4>1. T \in Nat /\ V \in Nat /\ DOMAIN c = 1..(T + V)
        BY <1>4
      <4> QED BY <3>2, <4>1
    <3>4. c[T + m] = d[n]
      BY <1>4, <1>5, <3>2
    <3> QED BY <1>e, <3>3, <3>4
  <2> QED BY <2>1, <2>2
<1>9. ASSUME NEW k \in DOMAIN u
      PROVE  \E n \in DOMAIN d : d[n] = u[k] /\ Before(d, n) = Before(u, k)
  <2>1. PICK n \in DOMAIN c : c[n] = u[k] /\ Before(c, n) = Before(u, k)
    BY <1>e
  <2>2. CASE n <= T
    <3>1. n \in 1..T /\ n \in DOMAIN t
      BY <1>4, <2>2
    <3>2. PICK m \in DOMAIN s : s[m] = t[n] /\ Before(s, m) = Before(t, n)
      BY <1>f, <3>1
    <3>3. m \in DOMAIN d /\ d[m] = s[m] /\ Before(d, m) = Before(s, m)
      BY <1>4, <1>5, <1>6, <3>2
    <3>4. c[n] = t[n] /\ Before(c, n) = Before(t, n)
      BY <1>4, <1>6, <3>1
    <3> QED BY <2>1, <3>2, <3>3, <3>4
  <2>3. CASE ~(n <= T)
    <3>1. PICK m : m = n - T
      OBVIOUS
    <3>2. m \in 1..V /\ n = T + m
      BY <1>4, <2>3, <3>1
    <3>3. S + m \in DOMAIN d /\ d[S + m] = c[n]
      BY <1>4, <1>5, <3>2
    <3>4. Before(d, S + m) = Before(c, n)
      BY <1>6, <1>7, <3>2
    <3> QED BY <2>1, <3>3, <3>4
  <2> QED BY <2>2, <2>3
<1>10. Listed(u) /\ \A i, j \in DOMAIN u : u[i] = u[j] => i = j
  BY DEF Firsts
<1>11. Firsts(u, d)
  BY <1>5, <1>8, <1>9, <1>10 DEF Firsts
<1> QED BY <1>1, <1>11

LEMMA FlattenListed ==
  ASSUME NEW seqs, Listed(seqs), \A i \in DOMAIN seqs : Listed(seqs[i])
  PROVE  Listed(FlattenSeq(seqs))
<1>1. PICK N \in Nat : N = Len(seqs) /\ DOMAIN seqs = 1..N
  BY ListedAre
<1>2. CASE N = 0
  BY <1>1, <1>2 DEF FlattenSeq
<1>3. CASE N # 0
  <2>1. PICK f : Flat(f, seqs, N) /\ FlattenSeq(seqs) = f[N]
    BY <1>1, <1>3, Flattened
  <2>2. \A i \in 1..N : f[i] = IF i = 1 THEN seqs[i] ELSE f[i - 1] \o seqs[i]
    BY <2>1 DEF Flat
  <2> DEFINE S == {n \in Nat : n \in 1..N => Listed(f[n])}
  <2>3. 0 \in S
    OBVIOUS
  <2>4. \A n \in S : n + 1 \in S
    <3> SUFFICES ASSUME NEW n \in S, n + 1 \in 1..N PROVE Listed(f[n + 1])
      OBVIOUS
    <3>0. n \in Nat /\ (n \in 1..N => Listed(f[n]))
      OBVIOUS
    <3> HIDE DEF S
    <3>1. PICK m : m = n + 1 /\ m \in 1..N /\ m - 1 = n
      BY <3>0
    <3>2. f[m] = IF m = 1 THEN seqs[m] ELSE f[n] \o seqs[m]
      BY <2>2, <3>1
    <3>3. Listed(seqs[m])
      BY <1>1, <3>1
    <3>4. CASE m = 1
      BY <3>1, <3>2, <3>3, <3>4
    <3>5. CASE m # 1
      <4>1. n \in 1..N
        BY <3>0, <3>1, <3>5
      <4>2. Joined(f[n] \o seqs[m], f[n], seqs[m])
        BY <3>0, <3>3, <4>1, ListedConcat
      <4> QED BY <3>1, <3>2, <3>5, <4>2 DEF Joined
    <3> QED BY <3>4, <3>5
  <2>5. S \in SUBSET Nat
    OBVIOUS
  <2> HIDE DEF S
  <2>6. S = Nat
    BY <2>3, <2>4, <2>5, Inductive
  <2>7. N \in 1..N
    BY <1>3
  <2>8. Listed(f[N])
    BY <2>6, <2>7 DEF S
  <2> QED BY <2>1, <2>8
<1> QED BY <1>2, <1>3

(* One more sequence comes after all the others. *)
LEMMA FlattenMore ==
  ASSUME NEW seqs, Listed(seqs), NEW x, Listed(x), NEW more, more = Append(seqs, x)
  PROVE  FlattenSeq(more) = FlattenSeq(seqs) \o x
<1>1. PICK N \in Nat : N = Len(seqs) /\ DOMAIN seqs = 1..N
  BY ListedAre
<1>2. PICK M : M = N + 1
  OBVIOUS
<1>3. /\ Len(more) = M /\ M \in Nat /\ M # 0 /\ more[M] = x
      /\ \A i \in 1..N : more[i] = seqs[i]
  <2>1. PICK S : S = ToSet(seqs) \cup {x}
    OBVIOUS
  <2>2. seqs \in Seq(S) /\ x \in S
    BY <2>1 DEF Listed
  <2> QED BY <1>1, <1>2, <2>2
<1>4. PICK g : Flat(g, more, M) /\ FlattenSeq(more) = g[M]
  BY <1>3, Flattened
<1>5. \A i \in 1..M : g[i] = IF i = 1 THEN more[i] ELSE g[i - 1] \o more[i]
  BY <1>4 DEF Flat
<1>6. M \in 1..M /\ M - 1 = N
  BY <1>1, <1>2
<1>7. CASE N = 0
  <2>1. g[M] = x
    BY <1>2, <1>3, <1>5, <1>6, <1>7
  <2>2. FlattenSeq(seqs) = <<>>
    BY <1>1, <1>7, ListedAre DEF FlattenSeq
  <2>3. <<>> \o x = x
    <3>1. x \in Seq(ToSet(x))
      BY DEF Listed
    <3> QED BY <3>1
  <2> QED BY <1>4, <2>1, <2>2, <2>3
<1>8. CASE N # 0
  <2>1. PICK f : Flat(f, seqs, N) /\ FlattenSeq(seqs) = f[N]
    BY <1>1, <1>8, Flattened
  <2>2. \A i \in 1..N : f[i] = IF i = 1 THEN seqs[i] ELSE f[i - 1] \o seqs[i]
    BY <2>1 DEF Flat
  <2> DEFINE S == {n \in Nat : n \in 1..N => f[n] = g[n]}
  <2>3. 0 \in S
    OBVIOUS
  <2>4. \A n \in S : n + 1 \in S
    <3> SUFFICES ASSUME NEW n \in S, n + 1 \in 1..N PROVE f[n + 1] = g[n + 1]
      OBVIOUS
    <3>0. n \in Nat /\ (n \in 1..N => f[n] = g[n])
      OBVIOUS
    <3> HIDE DEF S
    <3>1. PICK m : m = n + 1 /\ m \in 1..N /\ m - 1 = n /\ m \in 1..M
      BY <1>2, <3>0
    <3>2. f[m] = IF m = 1 THEN seqs[m] ELSE f[n] \o seqs[m]
      BY <2>2, <3>1
    <3>3. g[m] = IF m = 1 THEN seqs[m] ELSE g[n] \o seqs[m]
      BY <1>3, <1>5, <3>1
    <3>4. m = 1 \/ n \in 1..N
      BY <3>0, <3>1
    <3> QED BY <3>0, <3>1, <3>2, <3>3, <3>4
  <2>5. S \in SUBSET Nat
    OBVIOUS
  <2> HIDE DEF S
  <2>6. S = Nat
    BY <2>3, <2>4, <2>5, Inductive
  <2>7. N \in 1..N
    BY <1>8
  <2>8. f[N] = g[N]
    BY <2>6, <2>7 DEF S
  <2>9. g[M] = g[N] \o x
    <3>1. g[M] = IF M = 1 THEN more[M] ELSE g[M - 1] \o more[M]
      BY <1>5, <1>6
    <3>2. M # 1
      BY <1>2, <1>8
    <3> QED BY <1>3, <1>6, <3>1, <3>2
  <2> QED BY <1>4, <2>1, <2>8, <2>9
<1> QED BY <1>7, <1>8

-----------------------------------------------------------------------------
(* The URLs of rows and the links of blocks. *)
Urls(rows) == [i \in DOMAIN rows |-> rows[i].url]
Links(blocks) == [i \in DOMAIN blocks |-> blocks[i].href.to]

LEMMA UrlsAreListed ==
  ASSUME NEW s, Listed(s)
  PROVE  /\ Listed(Urls(s)) /\ DOMAIN Urls(s) = DOMAIN s /\ Len(Urls(s)) = Len(s)
         /\ Listed(Links(s)) /\ DOMAIN Links(s) = DOMAIN s /\ Len(Links(s)) = Len(s)
<1>1. PICK N \in Nat : N = Len(s) /\ DOMAIN s = 1..N
  BY ListedAre
<1>2. PICK u, v : u = Urls(s) /\ v = Links(s)
  OBVIOUS
<1>3. u = [i \in 1..N |-> u[i]] /\ v = [i \in 1..N |-> v[i]]
  BY <1>1, <1>2 DEF Urls, Links
<1> QED BY <1>1, <1>2, <1>3, ListedTo

LEMMA JoinedOnce ==
  ASSUME NEW a, NEW b, NEW c, NEW d, Joined(c, a, b), Joined(d, a, b)
  PROVE  c = d
<1>1. PICK A \in Nat, B \in Nat : A = Len(a) /\ B = Len(b)
  BY DEF Joined
<1>2. DOMAIN c = 1..(A + B) /\ DOMAIN d = 1..(A + B)
  BY <1>1 DEF Joined
<1>3. ASSUME NEW i \in 1..(A + B) PROVE c[i] = d[i]
  <2>1. CASE i \in 1..A
    BY <1>1, <2>1 DEF Joined
  <2>2. CASE i \notin 1..A
    <3>1. PICK j : j = i - A
      OBVIOUS
    <3>2. j \in 1..B /\ i = A + j
      BY <1>1, <2>2, <3>1
    <3>3. c[A + j] = b[j] /\ d[A + j] = b[j]
      BY <1>1, <3>2 DEF Joined
    <3> QED BY <3>2, <3>3
  <2> QED BY <2>1, <2>2
<1>4. c \in Seq(ToSet(c)) /\ d \in Seq(ToSet(d))
  BY DEF Joined, Listed
<1>5. c = [i \in 1..(A + B) |-> c[i]] /\ d = [i \in 1..(A + B) |-> d[i]]
  BY <1>2, <1>4
<1> QED BY <1>3, <1>5

LEMMA UrlsJoin ==
  ASSUME NEW a, NEW b, Listed(a), Listed(b)
  PROVE  /\ Listed(a \o b)
         /\ Urls(a \o b) = Urls(a) \o Urls(b)
         /\ Links(a \o b) = Links(a) \o Links(b)
<1>1. PICK c : c = a \o b /\ Joined(c, a, b)
  BY ListedConcat
<1>2. PICK A \in Nat, B \in Nat :
        /\ A = Len(a) /\ B = Len(b) /\ DOMAIN a = 1..A /\ DOMAIN b = 1..B
        /\ DOMAIN c = 1..(A + B)
        /\ \A i \in 1..A : c[i] = a[i]
        /\ \A i \in 1..B : c[A + i] = b[i]
  BY <1>1 DEF Joined
<1>3. Listed(c)
  BY <1>1 DEF Joined
<1>4. Joined(Urls(a) \o Urls(b), Urls(a), Urls(b)) /\ Joined(Links(a) \o Links(b), Links(a), Links(b))
  BY UrlsAreListed, ListedConcat
<1>5. Joined(Urls(c), Urls(a), Urls(b))
  <2>1. \A i \in 1..A : Urls(c)[i] = Urls(a)[i]
    BY <1>2 DEF Urls
  <2>2. \A i \in 1..B : Urls(c)[A + i] = Urls(b)[i]
    BY <1>2 DEF Urls
  <2>3. /\ Listed(Urls(c)) /\ DOMAIN Urls(c) = 1..(A + B)
        /\ DOMAIN Urls(a) = 1..A /\ Len(Urls(a)) = A /\ DOMAIN Urls(b) = 1..B /\ Len(Urls(b)) = B
    BY <1>2, <1>3, UrlsAreListed
  <2> HIDE DEF Urls
  <2> QED BY <2>1, <2>2, <2>3 DEF Joined
<1>6. Joined(Links(c), Links(a), Links(b))
  <2>1. \A i \in 1..A : Links(c)[i] = Links(a)[i]
    BY <1>2 DEF Links
  <2>2. \A i \in 1..B : Links(c)[A + i] = Links(b)[i]
    BY <1>2 DEF Links
  <2>3. /\ Listed(Links(c)) /\ DOMAIN Links(c) = 1..(A + B)
        /\ DOMAIN Links(a) = 1..A /\ Len(Links(a)) = A
        /\ DOMAIN Links(b) = 1..B /\ Len(Links(b)) = B
    BY <1>2, <1>3, UrlsAreListed
  <2> QED BY <2>1, <2>2, <2>3 DEF Joined
<1>7. Urls(c) = Urls(a) \o Urls(b) /\ Links(c) = Links(a) \o Links(b)
  BY <1>4, <1>5, <1>6, JoinedOnce
<1> QED BY <1>1, <1>3, <1>7

(* The first rows of each URL, and the first blocks of each link. *)
LEMMA FirstsByUrl ==
  ASSUME NEW s, Listed(s)
  PROVE  Listed(FirstBy(s, Url)) /\ Firsts(Urls(FirstBy(s, Url)), Urls(s))
<1>1. PICK u : u = Urls(s) /\ Listed(u) /\ DOMAIN u = DOMAIN s /\ \A i \in DOMAIN s : u[i] = s[i].url
  <2>1. Listed(Urls(s)) /\ DOMAIN Urls(s) = DOMAIN s
    BY UrlsAreListed
  <2>2. \A i \in DOMAIN s : Urls(s)[i] = s[i].url
    BY DEF Urls
  <2> QED BY <2>1, <2>2
<1>2. PICK N \in Nat : DOMAIN s = 1..N
  BY ListedAre
<1>3. PICK I : I = {i \in DOMAIN u : \A j \in 1..(i - 1) : u[j] # u[i]}
  OBVIOUS
<1>4. I = {i \in DOMAIN s : \A j \in 1..(i - 1) : s[j].url # s[i].url}
  <2>1. \A i \in 1..N : \A j \in 1..(i - 1) : j \in 1..N
    OBVIOUS
  <2> QED BY <1>1, <1>2, <1>3, <2>1
<1>5. FirstBy(s, Url) = At(s, I) /\ I \in SUBSET DOMAIN s
  BY <1>4 DEF FirstBy, Url
<1>6. PICK t : t = At(s, I)
  OBVIOUS
<1>7. Listed(t)
  BY <1>5, <1>6, KeptAt
<1>8. I \in SUBSET (1..N)
  BY <1>2, <1>5
<1>9. Cardinality(I) \in Nat /\ \A k \in 1..Cardinality(I) : Nth(I, k) \in I
  BY <1>8, NthIsOnto
<1>10. Urls(t) = [k \in 1..Cardinality(I) |-> u[Nth(I, k)]]
  <2>1. DOMAIN t = 1..Cardinality(I)
        /\ \A k \in 1..Cardinality(I) : t[k] = s[Nth(I, k)]
    BY <1>6 DEF At
  <2>2. \A k \in 1..Cardinality(I) : t[k].url = u[Nth(I, k)]
    BY <1>1, <1>5, <1>9, <2>1
  <2> QED BY <2>1, <2>2 DEF Urls
<1>11. Firsts(Urls(t), u)
  BY <1>1, <1>3, <1>10, FirstsAt
<1> QED BY <1>1, <1>5, <1>6, <1>7, <1>11

FirstLinked(s) ==
  At(s, {k \in DOMAIN s : \A j \in 1..(k - 1) : s[j].href.to # s[k].href.to})

LEMMA FirstsByLink ==
  ASSUME NEW s, Listed(s), NEW t, t = FirstLinked(s)
  PROVE  Listed(t) /\ Firsts(Links(t), Links(s))
<1>1. PICK u : u = Links(s) /\ Listed(u) /\ DOMAIN u = DOMAIN s /\ \A i \in DOMAIN s : u[i] = s[i].href.to
  <2>1. Listed(Links(s)) /\ DOMAIN Links(s) = DOMAIN s
    BY UrlsAreListed
  <2>2. \A i \in DOMAIN s : Links(s)[i] = s[i].href.to
    BY DEF Links
  <2> QED BY <2>1, <2>2
<1>2. PICK N \in Nat : DOMAIN s = 1..N
  BY ListedAre
<1>3. PICK I : I = {i \in DOMAIN u : \A j \in 1..(i - 1) : u[j] # u[i]}
  OBVIOUS
<1>4. I = {i \in DOMAIN s : \A j \in 1..(i - 1) : s[j].href.to # s[i].href.to}
  <2>1. \A i \in 1..N : \A j \in 1..(i - 1) : j \in 1..N
    OBVIOUS
  <2> QED BY <1>1, <1>2, <1>3, <2>1
<1>5. t = At(s, I) /\ I \in SUBSET DOMAIN s
  BY <1>4 DEF FirstLinked
<1>7. Listed(t)
  BY <1>5, KeptAt
<1>8. I \in SUBSET (1..N)
  BY <1>2, <1>5
<1>9. Cardinality(I) \in Nat /\ \A k \in 1..Cardinality(I) : Nth(I, k) \in I
  BY <1>8, NthIsOnto
<1>10. Links(t) = [k \in 1..Cardinality(I) |-> u[Nth(I, k)]]
  <2>1. DOMAIN t = 1..Cardinality(I)
        /\ \A k \in 1..Cardinality(I) : t[k] = s[Nth(I, k)]
    BY <1>5 DEF At
  <2>2. \A k \in 1..Cardinality(I) : t[k].href.to = u[Nth(I, k)]
    BY <1>1, <1>5, <1>9, <2>1
  <2> QED BY <2>1, <2>2 DEF Links
<1>11. Firsts(Links(t), u)
  BY <1>1, <1>3, <1>10, FirstsAt
<1> QED BY <1>1, <1>7, <1>11

-----------------------------------------------------------------------------
(* Cut to MaxRows, a sequence is the beginning of what it was. *)
LEMMA CappedIs ==
  ASSUME NEW s, Listed(s), NEW t, t = Capped(s)
  PROVE  /\ Listed(t) /\ Len(t) = Min({Len(s), MaxRows}) /\ DOMAIN t = 1..Len(t)
         /\ Len(t) \in Nat /\ Len(t) <= MaxRows /\ Len(t) <= Len(s)
         /\ \A i \in 1..Len(t) : t[i] = s[i]
         /\ Len(s) <= MaxRows \/ Len(t) # MaxRows => t = s /\ Len(s) <= MaxRows
<1>1. PICK L \in Nat, R \in Nat : L = Len(s) /\ R = MaxRows /\ DOMAIN s = 1..L
  BY ListedAre, MergeAssumption
<1>2. PICK m : m = Min({Len(s), MaxRows})
  OBVIOUS
<1>3. m \in {L, R} /\ \A x \in {L, R} : m <= x
  <2>1. {L, R} \subseteq Nat /\ {L, R} # {}
    OBVIOUS
  <2> QED BY <1>1, <1>2, <2>1, MinOf
<1>4. m \in Nat /\ m <= L /\ m <= R
  BY <1>3
<1>5. (L <= R \/ m # R) => m = L /\ L <= R
  BY <1>3, <1>4
<1>6. t = SubSeq(s, 1, m)
  BY <1>2 DEF Capped
<1>7. PICK S : s \in Seq(S)
  BY DEF Listed
<1>8. t \in Seq(S) /\ Len(t) = m
  BY <1>1, <1>4, <1>6, <1>7
<1>9. \A i \in 1..m : t[i] = s[i]
  BY <1>1, <1>4, <1>6, <1>7
<1>10. Listed(t) /\ DOMAIN t = 1..m
  BY <1>8, ListedIn
<1>11. ASSUME m = L PROVE t = s
  <2>1. s = [i \in 1..m |-> s[i]] /\ t = [i \in 1..m |-> t[i]]
    BY <1>1, <1>7, <1>8, <1>11
  <2> QED BY <1>9, <2>1
<1> QED BY <1>1, <1>2, <1>4, <1>5, <1>8, <1>9, <1>10, <1>11

LEMMA CappedUrls ==
  ASSUME NEW s, Listed(s)
  PROVE  /\ Urls(Capped(s)) = [i \in 1..Min({Len(s), MaxRows}) |-> s[i].url]
         /\ Links(Capped(s)) = [i \in 1..Min({Len(s), MaxRows}) |-> s[i].href.to]
<1>1. PICK t : t = Capped(s)
  OBVIOUS
<1>2. DOMAIN t = 1..Min({Len(s), MaxRows}) /\ \A i \in DOMAIN t : t[i] = s[i]
  BY <1>1, CappedIs
<1>3. Urls(t) = [i \in 1..Min({Len(s), MaxRows}) |-> s[i].url]
  BY <1>2 DEF Urls
<1>4. Links(t) = [i \in 1..Min({Len(s), MaxRows}) |-> s[i].href.to]
  BY <1>2 DEF Links
<1> QED BY <1>1, <1>3, <1>4

(* A page that a parser can be given. *)
Legible(p) ==
  Listed(p.blocks) /\ \A n \in DOMAIN p.blocks : p.blocks[n].href.form \in Forms

(* The rows of a page have the links of its blocks. *)
LEMMA RowsAreTheBlocks ==
  ASSUME NEW s, Listed(s)
  PROVE  /\ Listed(Rows(s)) /\ Len(Rows(s)) = Len(s)
         /\ Urls(Rows(s)) = Links(s)
         /\ Urls(Capped(Rows(s))) = Links(Capped(s))
<1>1. PICK r : r = Rows(s) /\ Listed(r)
  BY RowsAreListed
<1>2. DOMAIN r = DOMAIN s /\ \A i \in DOMAIN s : r[i].url = s[i].href.to
  BY <1>1 DEF Rows, Row
<1>3. PICK N \in Nat : N = Len(s) /\ DOMAIN s = 1..N
  BY ListedAre
<1>4. Len(r) = Len(s)
  <2>1. PICK M \in Nat : M = Len(r) /\ DOMAIN r = 1..M
    BY <1>1, ListedAre
  <2> QED BY <1>2, <1>3, <2>1
<1>5. Urls(r) = Links(s)
  BY <1>2 DEF Urls, Links
<1>6. PICK m : m = Min({Len(s), MaxRows})
  OBVIOUS
<1>7. 1..m \subseteq DOMAIN s
  <2>1. m \in Nat /\ m <= N
    BY <1>3, <1>6, MergeAssumption DEF Min
  <2> QED BY <1>3, <2>1
<1>8. Urls(Capped(r)) = [i \in 1..m |-> r[i].url]
  BY <1>1, <1>4, <1>6, CappedUrls
<1>9. Links(Capped(s)) = [i \in 1..m |-> s[i].href.to]
  BY <1>6, CappedUrls
<1>10. Urls(Capped(r)) = Links(Capped(s))
  BY <1>2, <1>7, <1>8, <1>9
<1> QED BY <1>1, <1>4, <1>5, <1>10

LEMMA PagesShowRows ==
  ASSUME NEW p, Legible(p)
  PROVE  /\ Listed(Shown("duckduckgo", p)) /\ Listed(Shown("yahoo", p))
         /\ Urls(parse_ddg_html(p)) = Links(Shown("duckduckgo", p))
         /\ Urls(parse_yahoo_html(p)) = Links(Shown("yahoo", p))
<1>1. PICK I : I = {i \in DOMAIN p.blocks : Readable("duckduckgo", p.blocks[i])}
  OBVIOUS
<1>2. PICK J : J = {i \in DOMAIN p.blocks : Readable("yahoo", p.blocks[i])}
  OBVIOUS
<1>3. I = {i \in DOMAIN p.blocks : Titled(p.blocks[i]) /\ unwrap_ddg_url(p.blocks[i].href)}
  BY <1>1 DEF Legible, Readable, unwrap_ddg_url, Forms
<1>4. J = {i \in DOMAIN p.blocks : Titled(p.blocks[i]) /\ unwrap_yahoo_url(p.blocks[i].href)}
  BY <1>2 DEF Legible, Readable, unwrap_yahoo_url, Forms
<1>5. Shown("duckduckgo", p) = At(p.blocks, I)
  BY <1>1 DEF Shown, Where
<1>6. Shown("yahoo", p) = Capped(At(p.blocks, J))
  BY <1>2 DEF Shown, Where
<1>7. Listed(At(p.blocks, I)) /\ Listed(At(p.blocks, J))
  BY <1>1, <1>2, KeptAt DEF Legible
<1>8. parse_ddg_html(p) = Rows(At(p.blocks, I))
  BY <1>3 DEF parse_ddg_html, Where
<1>9. parse_yahoo_html(p) = Capped(Rows(At(p.blocks, J)))
  BY <1>4 DEF parse_yahoo_html, Where
<1> QED BY <1>5, <1>6, <1>7, <1>8, <1>9, RowsAreTheBlocks, CappedIs

(* A page that an answer may be read from (rows_or_drift). *)
Fine(e, p) ==
  /\ Legible(p) /\ ~Walled(e, p) /\ p.status = "ok"
  /\ p.serp \/ \E n \in DOMAIN p.blocks : Readable(e, p.blocks[n])

LEMMA JudgedOk ==
  ASSUME NEW p, NEW walled, NEW rows, NEW m, m = Judge(p, walled, rows), m.class = "ok"
  PROVE  ~walled /\ p.status = "ok" /\ m.rows = rows /\ (rows # <<>> \/ p.serp)
<1>1. m \in {Err("challenge"), Err("upstream"), Err("unrecognized"), Ok(rows)}
  BY DEF Judge, rows_or_drift
<1>2. m = Ok(rows)
  BY <1>1 DEF Err, Ok
<1>3. m.rows = rows
  BY <1>2 DEF Ok
<1>4. ~walled /\ p.status = "ok" /\ (rows # <<>> \/ p.serp)
  BY DEF Judge, rows_or_drift, Err
<1> QED BY <1>3, <1>4

LEMMA NoRowsNoBlocks ==
  ASSUME NEW s, Listed(s), Rows(s) # <<>> \/ Capped(Rows(s)) # <<>>
  PROVE  s # <<>>
<1>1. Listed(Rows(s)) /\ Len(Rows(s)) = Len(s)
  BY RowsAreTheBlocks
<1>2. Rows(s) # <<>>
  BY <1>1, CappedIsListed
<1> QED BY <1>1, <1>2, ListedAre

(* Startpage's rows, position by position. *)
Linked(p) == At(p.blocks, {n \in DOMAIN p.blocks : sanitize_startpage_url(p.blocks[n].href)})
TitledOf(s) == At(s, {k \in DOMAIN s : Titled(s[k])})

LEMMA StartpageRows ==
  ASSUME NEW p
  PROVE  parse_startpage_html(p) = Capped(Rows(TitledOf(FirstLinked(Linked(p)))))
BY DEF parse_startpage_html, Linked, FirstLinked, TitledOf, Where, FirstBy

(* Rows come of readable blocks. *)
LEMMA RowsAreReadable ==
  ASSUME NEW p, Legible(p), NEW way
  PROVE  /\ parse_ddg_html(p) # <<>> => \E n \in DOMAIN p.blocks : Readable("duckduckgo", p.blocks[n])
         /\ parse_yahoo_html(p) # <<>> => \E n \in DOMAIN p.blocks : Readable("yahoo", p.blocks[n])
         /\ parse_brave_html(p) # <<>> => \E n \in DOMAIN p.blocks : Readable("brave", p.blocks[n])
         /\ parse_bing_html(p) # <<>> => \E n \in DOMAIN p.blocks : Readable("bing", p.blocks[n])
         /\ parse_startpage_html(p) # <<>> =>
              \E n \in DOMAIN p.blocks : Readable("startpage", p.blocks[n])
         /\ keep_rows(parse_search_json(p), way) # <<>> =>
              \E n \in DOMAIN p.blocks : Readable("cratesio", p.blocks[n])
<1>0. Listed(p.blocks)
  BY DEF Legible
<1>1. ASSUME NEW I \in SUBSET DOMAIN p.blocks,
             Rows(At(p.blocks, I)) # <<>> \/ Capped(Rows(At(p.blocks, I))) # <<>>
      PROVE  \E n \in DOMAIN p.blocks : n \in I
  <2>1. Listed(At(p.blocks, I)) /\ (At(p.blocks, I) = <<>> <=> I = {})
    BY <1>0, KeptAt
  <2>2. At(p.blocks, I) # <<>>
    BY <1>1, <2>1, NoRowsNoBlocks
  <2> QED BY <2>1, <2>2
<1>2. ASSUME parse_ddg_html(p) # <<>>
      PROVE  \E n \in DOMAIN p.blocks : Readable("duckduckgo", p.blocks[n])
  <2>1. PICK I : I = {n \in DOMAIN p.blocks :
                        Titled(p.blocks[n]) /\ unwrap_ddg_url(p.blocks[n].href)}
    OBVIOUS
  <2>2. parse_ddg_html(p) = Rows(At(p.blocks, I))
    BY <2>1 DEF parse_ddg_html, Where
  <2>3. \E n \in DOMAIN p.blocks : n \in I
    BY <1>1, <1>2, <2>1, <2>2
  <2> QED BY <2>1, <2>3 DEF Readable, unwrap_ddg_url
<1>3. ASSUME parse_yahoo_html(p) # <<>>
      PROVE  \E n \in DOMAIN p.blocks : Readable("yahoo", p.blocks[n])
  <2>1. PICK I : I = {n \in DOMAIN p.blocks :
                        Titled(p.blocks[n]) /\ unwrap_yahoo_url(p.blocks[n].href)}
    OBVIOUS
  <2>2. parse_yahoo_html(p) = Capped(Rows(At(p.blocks, I)))
    BY <2>1 DEF parse_yahoo_html, Where
  <2>3. \E n \in DOMAIN p.blocks : n \in I
    BY <1>1, <1>3, <2>1, <2>2
  <2> QED BY <2>1, <2>3 DEF Readable, unwrap_yahoo_url
<1>4. ASSUME parse_brave_html(p) # <<>>
      PROVE  \E n \in DOMAIN p.blocks : Readable("brave", p.blocks[n])
  <2>1. PICK I : I = {n \in DOMAIN p.blocks :
                        Titled(p.blocks[n]) /\ brave_link(p.blocks[n].href)}
    OBVIOUS
  <2>2. parse_brave_html(p) = Capped(Rows(At(p.blocks, I)))
    BY <2>1 DEF parse_brave_html, Where
  <2>3. \E n \in DOMAIN p.blocks : n \in I
    BY <1>1, <1>4, <2>1, <2>2
  <2> QED BY <2>1, <2>3 DEF Readable, brave_link
<1>5. ASSUME parse_bing_html(p) # <<>>
      PROVE  \E n \in DOMAIN p.blocks : Readable("bing", p.blocks[n])
  <2>1. PICK I : I = {n \in DOMAIN p.blocks :
                        Titled(p.blocks[n]) /\ unwrap_bing_url(p.blocks[n].href)}
    OBVIOUS
  <2>2. parse_bing_html(p) = Capped(Rows(At(p.blocks, I)))
    BY <2>1 DEF parse_bing_html, Where
  <2>3. \E n \in DOMAIN p.blocks : n \in I
    BY <1>1, <1>5, <2>1, <2>2
  <2> QED BY <2>1, <2>3 DEF Readable, unwrap_bing_url
<1>6. ASSUME keep_rows(parse_search_json(p), way) # <<>>
      PROVE  \E n \in DOMAIN p.blocks : Readable("cratesio", p.blocks[n])
  <2>1. PICK I : I = {n \in DOMAIN p.blocks :
                        Titled(p.blocks[n]) /\ p.blocks[n].href.form = "direct"}
    OBVIOUS
  <2>2. parse_search_json(p) = Capped(Rows(At(p.blocks, I)))
    BY <2>1 DEF parse_search_json, Where
  <2>3. PICK rows : rows = parse_search_json(p)
    OBVIOUS
  <2>4. Listed(rows)
    BY <1>0, <2>1, <2>2, <2>3, KeptAt, RowsAreListed, CappedIsListed
  <2>5. rows # <<>>
    <3> SUFFICES ASSUME rows = <<>> PROVE FALSE
      OBVIOUS
    <3>1. SubSeq(rows, 1, Min({Len(rows), KeywordRows})) = <<>>
      <4>1. PICK t : t = SubSeq(rows, 1, Min({Len(rows), KeywordRows})) /\ Listed(t)
        BY <2>4, CutIsListed, EnginesAssumption
      <4>2. Min({Len(rows), KeywordRows}) = 0
        BY EnginesAssumption DEF Min
      <4>3. t = SubSeq(<<>>, 1, 0)
        BY <4>1, <4>2
      <4> QED BY <4>1, <4>3
    <3>2. PICK named : /\ named = At(rows, {n \in DOMAIN rows : names_crate(rows[n], way.term)})
                       /\ named = <<>>
      <4>1. {n \in DOMAIN rows : names_crate(rows[n], way.term)} = {}
        OBVIOUS
      <4> QED BY <2>4, <4>1, KeptAt
    <3> QED BY <1>6, <2>3, <3>1, <3>2 DEF keep_rows, Where
  <2>6. \E n \in DOMAIN p.blocks : n \in I
    BY <1>1, <2>1, <2>2, <2>3, <2>5
  <2> QED BY <2>1, <2>6 DEF Readable
<1>7. ASSUME parse_startpage_html(p) # <<>>
      PROVE  \E n \in DOMAIN p.blocks : Readable("startpage", p.blocks[n])
  <2>1. PICK I : I = {n \in DOMAIN p.blocks : sanitize_startpage_url(p.blocks[n].href)}
    OBVIOUS
  <2>2. PICK linked : linked = Linked(p) /\ Picks(linked, p.blocks, I)
    BY <1>0, <2>1, PicksAt DEF Linked
  <2>3. PICK J : J = {k \in DOMAIN linked : \A j \in 1..(k - 1) : linked[j].href.to # linked[k].href.to}
    OBVIOUS
  <2>4. PICK first : first = FirstLinked(linked) /\ Picks(first, linked, J)
    <3>1. Listed(linked) /\ J \subseteq DOMAIN linked
      BY <2>2, <2>3 DEF Picks
    <3> QED BY <2>3, <3>1, PicksAt DEF FirstLinked
  <2>5. PICK K : K = {k \in DOMAIN first : Titled(first[k])}
    OBVIOUS
  <2>6. /\ TitledOf(first) = At(first, K)
        /\ Listed(At(first, K)) /\ (At(first, K) = <<>> <=> K = {})
    <3>1. Listed(first) /\ K \in SUBSET DOMAIN first
      BY <2>4, <2>5 DEF Picks
    <3> QED BY <2>5, <3>1, KeptAt DEF TitledOf
  <2>7. parse_startpage_html(p) = Capped(Rows(At(first, K)))
    BY <2>2, <2>4, <2>6, StartpageRows
  <2>8. At(first, K) # <<>>
    BY <1>7, <2>6, <2>7, NoRowsNoBlocks
  <2>9. PICK k \in DOMAIN first : Titled(first[k])
    BY <2>5, <2>6, <2>8
  <2>10. PICK j \in DOMAIN linked : first[k] = linked[j]
    BY <2>3, <2>4, <2>9 DEF Picks
  <2>11. PICK n \in I : linked[j] = p.blocks[n]
    BY <2>2, <2>10 DEF Picks
  <2> QED BY <2>1, <2>9, <2>10, <2>11 DEF Readable, sanitize_startpage_url
<1> QED BY <1>2, <1>3, <1>4, <1>5, <1>6, <1>7

LEMMA StartpageOnce ==
  ASSUME NEW p, Legible(p)
  PROVE  IsInjective(Urls(parse_startpage_html(p)))
<1>1. PICK linked : linked = Linked(p) /\ Listed(linked)
  <2>1. PICK I, blocks : /\ I = {n \in DOMAIN p.blocks : sanitize_startpage_url(p.blocks[n].href)}
                         /\ blocks = p.blocks
    OBVIOUS
  <2>2. I \in SUBSET DOMAIN blocks /\ Listed(blocks)
    BY <2>1 DEF Legible
  <2>3. Listed(At(blocks, I))
    BY <2>2, KeptAt
  <2>4. Linked(p) = At(blocks, I)
    BY <2>1 DEF Linked
  <2> QED BY <2>3, <2>4
<1>2. PICK first : first = FirstLinked(linked) /\ Listed(first) /\ Firsts(Links(first), Links(linked))
  BY <1>1, FirstsByLink
<1>3. \A i, j \in DOMAIN first : first[i].href.to = first[j].href.to => i = j
  <2>1. DOMAIN Links(first) = DOMAIN first /\ \A i \in DOMAIN first : Links(first)[i] = first[i].href.to
    BY DEF Links
  <2> QED BY <1>2, <2>1 DEF Firsts
<1>4. PICK K : K = {k \in DOMAIN first : Titled(first[k])}
  OBVIOUS
<1>5. PICK t : t = At(first, K) /\ Listed(t) /\ t = TitledOf(first)
  BY <1>2, <1>4, KeptAt DEF TitledOf
<1>6. PICK N \in Nat : DOMAIN first = 1..N
  BY <1>2, ListedAre
<1>7. PICK C \in Nat : /\ C = Cardinality(K)
                       /\ \A k \in 1..C : Nth(K, k) \in K
                       /\ \A k, m \in 1..C : k < m => Nth(K, k) < Nth(K, m)
  <2>1. K \in SUBSET (1..N)
    BY <1>4, <1>6
  <2> QED BY <2>1, NthIsOnto
<1>8. \A i, j \in DOMAIN t : t[i].href.to = t[j].href.to => i = j
  <2> SUFFICES ASSUME NEW i \in DOMAIN t, NEW j \in DOMAIN t, t[i].href.to = t[j].href.to
               PROVE  i = j
    OBVIOUS
  <2>1. DOMAIN t = 1..C /\ t[i] = first[Nth(K, i)] /\ t[j] = first[Nth(K, j)]
    BY <1>5, <1>7 DEF At
  <2>2. Nth(K, i) \in DOMAIN first /\ Nth(K, j) \in DOMAIN first
    BY <1>4, <1>7, <2>1
  <2>3. Nth(K, i) = Nth(K, j)
    BY <1>3, <2>1, <2>2
  <2>4. Nth(K, i) \in Nat
    BY <1>6, <2>2
  <2>5. (i < j => Nth(K, i) < Nth(K, j)) /\ (j < i => Nth(K, j) < Nth(K, i))
    BY <1>7, <2>1
  <2>6. ~(i < j) /\ ~(j < i)
    BY <2>3, <2>4, <2>5
  <2> QED BY <2>1, <2>6
<1>9. PICK c : c = Capped(t) /\ DOMAIN c \subseteq DOMAIN t /\ \A i \in DOMAIN c : c[i] = t[i]
  <2>1. PICK c : c = Capped(t)
    OBVIOUS
  <2>2. PICK n \in Nat, m \in Nat : n = Len(c) /\ m = Len(t) /\ n <= m
    BY <1>5, <2>1, CappedIs, ListedAre
  <2>3. DOMAIN c = 1..n /\ DOMAIN t = 1..m /\ \A i \in 1..n : c[i] = t[i]
    BY <1>5, <2>1, <2>2, CappedIs, ListedAre
  <2> QED BY <2>1, <2>2, <2>3
<1>10. Urls(parse_startpage_html(p)) = Links(c)
  BY <1>1, <1>2, <1>5, <1>9, StartpageRows, RowsAreTheBlocks
<1>11. IsInjective(Links(c))
  <2>1. DOMAIN Links(c) = DOMAIN c /\ \A i \in DOMAIN c : Links(c)[i] = c[i].href.to
    BY DEF Links
  <2> QED BY <1>8, <1>9, <2>1 DEF IsInjective
<1> QED BY <1>10, <1>11

-----------------------------------------------------------------------------
(* What a leg has read, of pages that are all fine: the links they show,   *)
(* once each, as long as more may follow; then the beginning of that list. *)
ShownBy(e, pages) == FlattenSeq([i \in DOMAIN pages |-> Shown(e, pages[i])])
Paginating == {"duckduckgo", "yahoo"}

Reading(e, rows, pages) ==
  /\ \A i \in DOMAIN pages : Fine(e, pages[i])
  /\ e \in Paginating => /\ Firsts(Urls(rows), Links(ShownBy(e, pages)))
                         /\ Len(rows) < MaxRows

ReadOut(e, rows, pages) ==
  /\ \A i \in DOMAIN pages : Fine(e, pages[i])
  /\ Len(rows) <= MaxRows
  /\ e \in Paginating \cup {"startpage"} => IsInjective(Urls(rows))
  /\ e \in Paginating =>
       Urls(rows) = [i \in 1..Min({Len(FirstLinked(ShownBy(e, pages))), MaxRows}) |->
                       FirstLinked(ShownBy(e, pages))[i].href.to]

LEMMA PagesShown ==
  ASSUME NEW e \in Paginating, NEW pages, Listed(pages), \A i \in DOMAIN pages : Fine(e, pages[i]),
         NEW p, Fine(e, p), NEW more, more = Append(pages, p)
  PROVE  /\ Listed(ShownBy(e, pages)) /\ Listed(Shown(e, p))
         /\ ShownBy(e, more) = ShownBy(e, pages) \o Shown(e, p)
         /\ \A i \in DOMAIN more : Fine(e, more[i])
<1>1. PICK N \in Nat : N = Len(pages) /\ DOMAIN pages = 1..N
  BY ListedAre
<1>2. \A q : Fine(e, q) => Listed(Shown(e, q))
  BY PagesShowRows DEF Fine, Paginating
<1>3. PICK M : M = N + 1 /\ M \in Nat /\ M \in 1..M /\ \A i \in 1..M : i = M \/ i \in 1..N
  <2>1. N + 1 \in Nat /\ \A i \in 1..(N + 1) : i = N + 1 \/ i \in 1..N
    OBVIOUS
  <2> QED BY <2>1
<1>4. /\ DOMAIN more = 1..M /\ more[M] = p
      /\ \A i \in 1..N : more[i] = pages[i] /\ i \in 1..M /\ i # M
  <2>1. PICK S : S = ToSet(pages) \cup {p}
    OBVIOUS
  <2>2. pages \in Seq(S) /\ p \in S
    BY <2>1 DEF Listed
  <2> QED BY <1>1, <1>3, <2>2
<1>5. PICK s : s = [i \in 1..N |-> Shown(e, pages[i])]
  OBVIOUS
<1>6. Listed(s) /\ DOMAIN s = 1..N /\ Len(s) = N /\ \A i \in DOMAIN s : Listed(s[i])
  <2>1. s = [i \in 1..N |-> s[i]]
    BY <1>5
  <2>2. \A i \in 1..N : Listed(s[i])
    BY <1>1, <1>2, <1>5
  <2> QED BY <2>1, <2>2, ListedTo
<1>7. PICK x : x = Shown(e, p) /\ Listed(x)
  BY <1>2
<1>8. PICK t : t = [i \in 1..M |-> Shown(e, more[i])]
  OBVIOUS
<1>9. t = Append(s, x)
  <2>1. PICK u, S : u = Append(s, x) /\ S = ToSet(s) \cup {x}
    OBVIOUS
  <2>2. s \in Seq(S) /\ x \in S
    BY <1>6, <2>1 DEF Listed
  <2>3. u \in Seq(S) /\ Len(u) = M /\ u[M] = x /\ \A i \in 1..N : u[i] = s[i]
    BY <1>3, <1>6, <2>1, <2>2
  <2>4. u = [i \in 1..M |-> u[i]]
    BY <2>3
  <2>5. \A i \in 1..M : u[i] = Shown(e, more[i])
    BY <1>3, <1>4, <1>5, <1>7, <2>3
  <2> QED BY <1>8, <2>1, <2>4, <2>5
<1>10. FlattenSeq(t) = FlattenSeq(s) \o x /\ Listed(FlattenSeq(s))
  BY <1>6, <1>7, <1>9, FlattenMore, FlattenListed
<1>11. ShownBy(e, pages) = FlattenSeq(s) /\ ShownBy(e, more) = FlattenSeq(t)
  BY <1>1, <1>4, <1>5, <1>8 DEF ShownBy
<1>12. \A i \in DOMAIN more : Fine(e, more[i])
  BY <1>1, <1>3, <1>4
<1> QED BY <1>7, <1>10, <1>11, <1>12

LEMMA ShownListed ==
  ASSUME NEW e \in Paginating, NEW pages, Listed(pages), \A i \in DOMAIN pages : Fine(e, pages[i])
  PROVE  Listed(ShownBy(e, pages))
<1>1. PICK N \in Nat : N = Len(pages) /\ DOMAIN pages = 1..N
  BY ListedAre
<1>2. PICK s : s = [i \in DOMAIN pages |-> Shown(e, pages[i])]
  OBVIOUS
<1>3. s = [i \in 1..N |-> s[i]] /\ \A i \in 1..N : Listed(s[i])
  <2>1. \A i \in 1..N : Listed(Shown(e, pages[i]))
    BY <1>1, PagesShowRows DEF Fine, Paginating
  <2> QED BY <1>1, <1>2, <2>1
<1>4. Listed(s) /\ DOMAIN s = 1..N
  BY <1>3, ListedTo
<1>5. Listed(FlattenSeq(s))
  BY <1>3, <1>4, FlattenListed
<1> QED BY <1>2, <1>5 DEF ShownBy

(* Links once each, as far as MaxRows. *)
LEMMA OnceAndCut ==
  ASSUME NEW s, Listed(s), NEW all, Listed(all), Firsts(Urls(all), Links(s)),
         NEW kept, kept = Capped(all)
  PROVE  /\ Urls(kept) = [i \in 1..Min({Len(FirstLinked(s)), MaxRows}) |->
                            FirstLinked(s)[i].href.to]
         /\ IsInjective(Urls(kept))
<1>1. PICK f : f = FirstLinked(s) /\ Listed(f) /\ Firsts(Links(f), Links(s))
  BY FirstsByLink
<1>2. Urls(all) = Links(f)
  BY <1>1, FirstsAreOne
<1>3. PICK n \in Nat : /\ n = Len(all) /\ n = Len(f) /\ DOMAIN all = 1..n /\ DOMAIN f = 1..n
  <2>1. Len(all) = Len(f)
    BY <1>1, <1>2, UrlsAreListed
  <2> QED BY <1>1, <2>1, ListedAre
<1>4. \A i \in 1..n : all[i].url = f[i].href.to
  <2>1. \A i \in 1..n : Urls(all)[i] = all[i].url /\ Links(f)[i] = f[i].href.to
    BY <1>3 DEF Urls, Links
  <2> QED BY <1>2, <2>1
<1>5. PICK m : m = Min({n, MaxRows})
  OBVIOUS
<1>6. /\ Urls(kept) = [i \in 1..m |-> all[i].url]
      /\ Len(kept) = m /\ m \in Nat /\ m <= n
  BY <1>3, <1>5, CappedUrls, CappedIs
<1>7. 1..m \subseteq 1..n
  BY <1>6
<1>8. Urls(kept) = [i \in 1..m |-> f[i].href.to]
  BY <1>4, <1>6, <1>7
<1>9. \A i, j \in 1..n : all[i].url = all[j].url => i = j
  <2>1. DOMAIN Urls(all) = 1..n /\ \A i \in 1..n : Urls(all)[i] = all[i].url
    BY <1>3 DEF Urls
  <2> QED BY <2>1 DEF Firsts
<1>10. IsInjective(Urls(kept))
  BY <1>6, <1>7, <1>9 DEF IsInjective
<1> QED BY <1>1, <1>3, <1>5, <1>8, <1>10

(* Refused a further page, a leg answers with what it has read. *)
LEMMA ReadingStands ==
  ASSUME NEW e \in Paginating, NEW pages, Listed(pages), NEW rows, Listed(rows),
         Reading(e, rows, pages)
  PROVE  ReadOut(e, rows, pages)
<1>1. Listed(ShownBy(e, pages)) /\ Firsts(Urls(rows), Links(ShownBy(e, pages)))
  BY ShownListed DEF Reading
<1>2. Len(rows) < MaxRows /\ Len(rows) \in Nat /\ MaxRows \in Nat
  BY ListedAre, MergeAssumption DEF Reading
<1>3. rows = Capped(rows)
  <2>1. PICK t : t = Capped(rows)
    OBVIOUS
  <2>2. Len(rows) <= MaxRows
    BY <1>2
  <2>3. Len(rows) <= MaxRows \/ Len(t) # MaxRows => t = rows /\ Len(rows) <= MaxRows
    BY <2>1, CappedIs
  <2> QED BY <2>1, <2>2, <2>3
<1>4. /\ Urls(rows) = [i \in 1..Min({Len(FirstLinked(ShownBy(e, pages))), MaxRows}) |->
                         FirstLinked(ShownBy(e, pages))[i].href.to]
      /\ IsInjective(Urls(rows))
  BY <1>1, <1>3, OnceAndCut
<1> QED BY <1>2, <1>4 DEF ReadOut, Reading

(* A further page adds what it shows. *)
LEMMA ReadingGrows ==
  ASSUME NEW e \in Paginating, NEW pages, Listed(pages), NEW rows, Listed(rows),
         Reading(e, rows, pages), NEW p, Fine(e, p), NEW more, more = Append(pages, p),
         NEW new, Listed(new), Urls(new) = Links(Shown(e, p)),
         NEW kept, kept = Capped(FirstBy(rows \o new, Url))
  PROVE  /\ ReadOut(e, kept, more)
         /\ Len(kept) # MaxRows => Reading(e, kept, more)
<1>1. PICK shown, s, x :
        /\ shown = ShownBy(e, pages) /\ x = Shown(e, p) /\ s = shown \o x
        /\ Listed(shown) /\ Listed(x) /\ s = ShownBy(e, more)
        /\ \A i \in DOMAIN more : Fine(e, more[i])
  BY PagesShown DEF Reading
<1>2. Firsts(Urls(rows), Links(shown)) /\ Urls(new) = Links(x)
  BY <1>1 DEF Reading
<1>3. Listed(s) /\ Links(s) = Links(shown) \o Links(x)
  BY <1>1, UrlsJoin
<1>4. Listed(rows \o new) /\ Urls(rows \o new) = Urls(rows) \o Links(x)
  BY <1>2, UrlsJoin
<1>5. PICK all : /\ all = FirstBy(rows \o new, Url) /\ Listed(all)
                 /\ Firsts(Urls(all), Urls(rows) \o Links(x))
  BY <1>4, FirstsByUrl
<1>6. Listed(Links(x))
  BY <1>1, UrlsAreListed
<1>7. Firsts(Urls(all), Links(s))
  BY <1>2, <1>3, <1>5, <1>6, FirstsContinue
<1>8. kept = Capped(all)
  BY <1>5
<1>9. /\ Urls(kept) = [i \in 1..Min({Len(FirstLinked(s)), MaxRows}) |-> FirstLinked(s)[i].href.to]
      /\ IsInjective(Urls(kept))
  BY <1>3, <1>5, <1>7, <1>8, OnceAndCut
<1>10. Len(kept) <= MaxRows /\ (Len(kept) # MaxRows => kept = all) /\ Len(kept) \in Nat
  BY <1>5, <1>8, CappedIs
<1>11. ReadOut(e, kept, more)
  BY <1>1, <1>9, <1>10 DEF ReadOut
<1>12. ASSUME Len(kept) # MaxRows PROVE Reading(e, kept, more)
  <2>1. Len(kept) < MaxRows
    BY <1>10, <1>12, MergeAssumption
  <2> QED BY <1>1, <1>7, <1>10, <1>12, <2>1 DEF Reading
<1> QED BY <1>11, <1>12

(* The other engines answer with the rows of one page. *)
LEMMA OnePageIsRead ==
  ASSUME NEW e, e \notin Paginating, NEW pages, Listed(pages), NEW rows, Reading(e, rows, pages),
         NEW p, Fine(e, p), NEW more, more = Append(pages, p), NEW new, Len(new) <= MaxRows,
         e = "startpage" => IsInjective(Urls(new))
  PROVE  ReadOut(e, new, more)
<1>1. \A i \in DOMAIN more : Fine(e, more[i])
  <2>0. PICK S : S = ToSet(pages) \cup {p}
    OBVIOUS
  <2>1. PICK N \in Nat : /\ N = Len(pages) /\ DOMAIN pages = 1..N
                         /\ pages \in Seq(S) /\ p \in S
    BY <2>0, ListedAre DEF Listed
  <2>2. DOMAIN more = 1..(N + 1) /\ more[N + 1] = p /\ \A i \in 1..N : more[i] = pages[i]
    BY <2>1
  <2>3. \A i \in 1..(N + 1) : i = N + 1 \/ i \in 1..N
    OBVIOUS
  <2> QED BY <2>1, <2>2, <2>3 DEF Reading
<1> QED BY <1>1 DEF ReadOut, Paginating

-----------------------------------------------------------------------------
(* What every engine makes of a page it accepts. *)
LEMMA AcceptedBy ==
  ASSUME NEW p, Legible(p), NEW e, NEW rows, NEW walled, NEW m,
         m = Judge(p, walled, rows), m.class = "ok",
         Walled(e, p) => walled \/ p.status = "busy",
         rows # <<>> => \E n \in DOMAIN p.blocks : Readable(e, p.blocks[n])
  PROVE  Fine(e, p) /\ m.rows = rows
<1>1. ~walled /\ p.status = "ok" /\ m.rows = rows /\ (rows # <<>> \/ p.serp)
  BY JudgedOk
<1> QED BY <1>1 DEF Fine

LEMMA AcceptedIsFine ==
  ASSUME NEW p, Legible(p), NEW way
  PROVE  /\ map_ddg_response(p).class = "ok" =>
              Fine("duckduckgo", p) /\ map_ddg_response(p).rows = parse_ddg_html(p)
         /\ map_yahoo_response(p).class = "ok" =>
              Fine("yahoo", p) /\ map_yahoo_response(p).rows = parse_yahoo_html(p)
         /\ map_startpage_response(p).class = "ok" =>
              Fine("startpage", p) /\ map_startpage_response(p).rows = parse_startpage_html(p)
         /\ map_bing_response(p).class = "ok" =>
              Fine("bing", p) /\ map_bing_response(p).rows = parse_bing_html(p)
         /\ map_brave_response(p).class = "ok" /\ ~p.wall =>
              Fine("brave", p) /\ map_brave_response(p).rows = parse_brave_html(p)
         /\ map_cratesio_response(p, way).class = "ok" /\ ~p.wall =>
              /\ Fine("cratesio", p)
              /\ map_cratesio_response(p, way).rows = keep_rows(parse_search_json(p), way)
<1>3. ASSUME map_ddg_response(p).class = "ok"
      PROVE  Fine("duckduckgo", p) /\ map_ddg_response(p).rows = parse_ddg_html(p)
  <2>1. PICK m, rows : m = map_ddg_response(p) /\ rows = parse_ddg_html(p)
    OBVIOUS
  <2>2. m = Judge(p, p.wall, rows) /\ m.class = "ok"
    BY <1>3, <2>1 DEF map_ddg_response
  <2>3. rows # <<>> => \E n \in DOMAIN p.blocks : Readable("duckduckgo", p.blocks[n])
    BY <2>1, RowsAreReadable
  <2>4. Walled("duckduckgo", p) => (p.wall) \/ p.status = "busy"
    BY DEF Walled
  <2> QED BY <2>1, <2>2, <2>3, <2>4, AcceptedBy
<1>4. ASSUME map_yahoo_response(p).class = "ok"
      PROVE  Fine("yahoo", p) /\ map_yahoo_response(p).rows = parse_yahoo_html(p)
  <2>1. PICK m, rows : m = map_yahoo_response(p) /\ rows = parse_yahoo_html(p)
    OBVIOUS
  <2>2. m = Judge(p, p.wall, rows) /\ m.class = "ok"
    BY <1>4, <2>1 DEF map_yahoo_response
  <2>3. rows # <<>> => \E n \in DOMAIN p.blocks : Readable("yahoo", p.blocks[n])
    BY <2>1, RowsAreReadable
  <2>4. Walled("yahoo", p) => (p.wall) \/ p.status = "busy"
    BY DEF Walled
  <2> QED BY <2>1, <2>2, <2>3, <2>4, AcceptedBy
<1>5. ASSUME map_startpage_response(p).class = "ok"
      PROVE  Fine("startpage", p) /\ map_startpage_response(p).rows = parse_startpage_html(p)
  <2>1. PICK m, rows : m = map_startpage_response(p) /\ rows = parse_startpage_html(p)
    OBVIOUS
  <2>2. m = Judge(p, p.wall, rows) /\ m.class = "ok"
    BY <1>5, <2>1 DEF map_startpage_response
  <2>3. rows # <<>> => \E n \in DOMAIN p.blocks : Readable("startpage", p.blocks[n])
    BY <2>1, RowsAreReadable
  <2>4. Walled("startpage", p) => (p.wall) \/ p.status = "busy"
    BY DEF Walled
  <2> QED BY <2>1, <2>2, <2>3, <2>4, AcceptedBy
<1>6. ASSUME map_bing_response(p).class = "ok"
      PROVE  Fine("bing", p) /\ map_bing_response(p).rows = parse_bing_html(p)
  <2> DEFINE walled == p.status = "busy" \/ p.wall
  <2>1. PICK m, rows : m = map_bing_response(p) /\ rows = parse_bing_html(p)
    OBVIOUS
  <2>2. m = Judge(p, walled, rows) /\ m.class = "ok"
    BY <1>6, <2>1 DEF map_bing_response
  <2>3. rows # <<>> => \E n \in DOMAIN p.blocks : Readable("bing", p.blocks[n])
    BY <2>1, RowsAreReadable
  <2>4. Walled("bing", p) => walled \/ p.status = "busy"
    BY DEF Walled
  <2> HIDE DEF walled
  <2> QED BY <2>1, <2>2, <2>3, <2>4, AcceptedBy
<1>7. ASSUME map_brave_response(p).class = "ok", ~p.wall
      PROVE  Fine("brave", p) /\ map_brave_response(p).rows = parse_brave_html(p)
  <2>1. PICK m, rows : m = map_brave_response(p) /\ rows = parse_brave_html(p)
    OBVIOUS
  <2>2. m = Judge(p, p.status = "busy", rows) /\ m.class = "ok"
    BY <1>7, <2>1 DEF map_brave_response
  <2>3. rows # <<>> => \E n \in DOMAIN p.blocks : Readable("brave", p.blocks[n])
    BY <2>1, RowsAreReadable
  <2>4. Walled("brave", p) => (p.status = "busy") \/ p.status = "busy"
    BY <1>7 DEF Walled
  <2> QED BY <2>1, <2>2, <2>3, <2>4, AcceptedBy
<1>8. ASSUME map_cratesio_response(p, way).class = "ok", ~p.wall
      PROVE  Fine("cratesio", p) /\ map_cratesio_response(p, way).rows = keep_rows(parse_search_json(p), way)
  <2> DEFINE walled == FALSE
  <2>1. PICK m, rows : m = map_cratesio_response(p, way) /\ rows = keep_rows(parse_search_json(p), way)
    OBVIOUS
  <2>2. m = Judge(p, walled, rows) /\ m.class = "ok"
    BY <1>8, <2>1 DEF map_cratesio_response
  <2>3. rows # <<>> => \E n \in DOMAIN p.blocks : Readable("cratesio", p.blocks[n])
    BY <2>1, RowsAreReadable
  <2>4. Walled("cratesio", p) => walled \/ p.status = "busy"
    BY <1>8 DEF Walled
  <2> HIDE DEF walled
  <2> QED BY <2>1, <2>2, <2>3, <2>4, AcceptedBy
<1> QED BY <1>3, <1>4, <1>5, <1>6, <1>7, <1>8

(* No page gives more than MaxRows rows where it is the only one. *)
LEMMA PagesAreCapped ==
  ASSUME NEW p, Legible(p), NEW way
  PROVE  /\ Len(parse_brave_html(p)) <= MaxRows
         /\ Len(parse_bing_html(p)) <= MaxRows
         /\ Len(parse_startpage_html(p)) <= MaxRows
         /\ Len(keep_rows(parse_search_json(p), way)) <= MaxRows
<1>0. Listed(p.blocks)
  BY DEF Legible
<1>1. \A s, I : Listed(s) /\ I \in SUBSET DOMAIN s =>
        Listed(At(s, I)) /\ Listed(Rows(At(s, I)))
  BY KeptAt, RowsAreListed
<1>2. \A s : Listed(s) => Listed(Capped(s)) /\ Len(Capped(s)) <= MaxRows
  BY CappedIs
<1>3. Len(parse_brave_html(p)) <= MaxRows
  BY <1>0, <1>1, <1>2 DEF parse_brave_html, Where
<1>4. Len(parse_bing_html(p)) <= MaxRows
  BY <1>0, <1>1, <1>2 DEF parse_bing_html, Where
<1>5. Len(parse_startpage_html(p)) <= MaxRows
  BY <1>0, <1>1, <1>2 DEF parse_startpage_html, Where, FirstBy
<1>6. PICK rows : rows = parse_search_json(p) /\ Listed(rows) /\ Len(rows) <= MaxRows
  BY <1>0, <1>1, <1>2 DEF parse_search_json, Where
<1>7. Len(keep_rows(rows, way)) <= MaxRows
  <2>1. PICK L \in Nat, R \in Nat, W \in Nat :
          L = Len(rows) /\ R = MaxRows /\ R # 0 /\ W = KeywordRows /\ L <= R
    BY <1>6, ListedAre, MergeAssumption, EnginesAssumption
  <2>2. PICK m : m = Min({Len(rows), KeywordRows}) /\ m \in Nat /\ m <= L
    <3>1. {L, W} \subseteq Nat /\ {L, W} # {}
      OBVIOUS
    <3>2. Min({L, W}) \in {L, W} /\ \A x \in {L, W} : Min({L, W}) <= x
      BY <3>1, MinOf
    <3> QED BY <2>1, <3>2
  <2>3. rows \in Seq(ToSet(rows))
    BY <1>6 DEF Listed
  <2>4. Len(SubSeq(rows, 1, m)) = m
    BY <2>1, <2>2, <2>3
  <2>5. \A row : Len(<<row>>) = 1
    OBVIOUS
  <2>6. keep_rows(rows, way) = SubSeq(rows, 1, m) \/ \E row : keep_rows(rows, way) = <<row>>
    BY <2>2 DEF keep_rows
  <2>7. CASE keep_rows(rows, way) = SubSeq(rows, 1, m)
    <3>1. Len(keep_rows(rows, way)) = m
      BY <2>4, <2>7
    <3> QED BY <2>1, <2>2, <3>1
  <2>8. CASE \E row : keep_rows(rows, way) = <<row>>
    <3>1. Len(keep_rows(rows, way)) = 1
      BY <2>5, <2>8
    <3> QED BY <2>1, <3>1
  <2> QED BY <2>6, <2>7, <2>8
<1> QED BY <1>3, <1>4, <1>5, <1>6, <1>7

-----------------------------------------------------------------------------
(* A leg that goes on has read fine pages only, and one that answered      *)
(* gives what they show.                                                   *)
AnswerFor(e, r, pages) ==
  /\ r.at # "done" => r.outcome = "none" /\ Reading(e, r.rows, pages)
  /\ r.at = "gap" => e \in Paginating
  /\ r.outcome = "ok" => ReadOut(e, r.rows, pages)

AnswerInv == WallInv /\ \A l \in Slots : AnswerFor(Engine(l), leg[l], served[l])

LEMMA AnswerSet ==
  ASSUME AnswerInv, WallInv', NEW l \in Slots, NEW record, Set(l, record), NEW pages,
         UNCHANGED call, served'[l] = pages, \A x \in Slots : x # l => served'[x] = served[x],
         AnswerFor(Engine(l), record, pages)
  PROVE  AnswerInv'
<1>1. /\ Slots' = Slots /\ \A x \in Slots : Engine(x)' = Engine(x)
      /\ leg' = [leg EXCEPT ![l] = record] /\ DOMAIN leg = Slots
  BY DEF Slots, Engine, Set, AnswerInv, WallInv
<1>2. leg'[l] = record /\ \A x \in Slots : x # l => leg'[x] = leg[x]
  BY <1>1
<1>3. AnswerFor(Engine(l), leg'[l], served'[l])
  BY <1>2
<1>4. \A x \in Slots : x # l => AnswerFor(Engine(x), leg'[x], served'[x])
  BY <1>2 DEF AnswerInv
<1>5. \A x \in Slots' : AnswerFor(Engine(x)', leg'[x], served'[x])
  BY <1>1, <1>3, <1>4
<1> QED BY <1>5 DEF AnswerInv

(* A leg that goes on as it was, or is given up. *)
LEMMA AnswerWaits ==
  ASSUME AnswerInv, WallInv', NEW l \in Slots, NEW record, Set(l, record),
         UNCHANGED <<call, served>>, leg[l].at # "done", record.at # "gap",
         \/ record.at = "done" /\ record.outcome # "ok"
         \/ record.outcome = leg[l].outcome /\ record.rows = leg[l].rows
  PROVE  AnswerInv'
<1>1. AnswerFor(Engine(l), leg[l], served[l])
  BY DEF AnswerInv
<1>2. AnswerFor(Engine(l), record, served[l])
  <2>1. leg[l].outcome = "none" /\ Reading(Engine(l), leg[l].rows, served[l])
    BY <1>1 DEF AnswerFor
  <2> QED BY <2>1 DEF AnswerFor
<1> QED BY <1>2, AnswerSet

LEMMA EndedAs ==
  ASSUME NEW l, Whole(leg[l]), NEW class, NEW rows, End(l, class, rows)
  PROVE  \E record : /\ Set(l, record) /\ record.at = "done"
                     /\ record.outcome = class /\ record.rows = rows
<1>1. PICK r, record :
        /\ r = leg[l]
        /\ record = [r EXCEPT !.at = "done", !.outcome = class, !.rows = rows,
                              !.form = "none", !.jar = "none"]
        /\ Set(l, record)
  BY DEF End
<1>2. record = [at |-> "done", page |-> r.page, form |-> "none", hop |-> r.hop,
                jar |-> "none", rows |-> rows, outcome |-> class,
                paid |-> r.paid, detours |-> r.detours]
  BY <1>1 DEF Whole
<1>3. record.at = "done" /\ record.outcome = class /\ record.rows = rows
  BY <1>2
<1> QED BY <1>1, <1>3

(* The steps in which no page comes. *)
LEMMA QuietAnswers ==
  ASSUME AnswerInv, WallInv', NEW l \in Slots,
         Start(l) \/ Home(l) \/ Fail(l) \/ Continue(l) \/ Redirected(l)
  PROVE  AnswerInv'
<1>0. Whole(leg[l]) /\ UNCHANGED <<call, served, output>>
  BY DEF AnswerInv, WallInv, WallOf, Start, Home, Fail, Continue, Redirected
<1>1. PICK r : r = leg[l] /\ Whole(r)
  BY <1>0
<1>2. ASSUME NEW record, Set(l, record), leg[l].at # "done",
             record.outcome = r.outcome, record.rows = r.rows, record.at # "gap"
      PROVE  AnswerInv'
  BY <1>0, <1>1, <1>2, AnswerWaits
<1>3. ASSUME NEW class, class # "ok", leg[l].at # "done", NEW rows, End(l, class, rows)
      PROVE  AnswerInv'
  BY <1>0, <1>3, EndedAs, AnswerWaits
<1>4. CASE Start(l)
  <2>1. leg[l].at = "start"
    BY <1>4 DEF Start
  <2>2. CASE Set(l, [leg[l] EXCEPT !.at = IF Engine(l) = "startpage" THEN "home" ELSE "search"])
    <3>1. PICK at, record : /\ at \in {"home", "search"}
                            /\ record = [r EXCEPT !.at = at] /\ Set(l, record)
      BY <1>1, <2>2
    <3>2. record = [at |-> at, page |-> r.page, form |-> r.form, hop |-> r.hop,
                    jar |-> r.jar, rows |-> r.rows, outcome |-> r.outcome,
                    paid |-> r.paid, detours |-> r.detours]
      BY <1>1, <3>1 DEF Whole
    <3>3. record.outcome = r.outcome /\ record.rows = r.rows /\ record.at # "gap"
      BY <3>1, <3>2
    <3> QED BY <1>2, <2>1, <3>1, <3>3
  <2> QED BY <1>3, <1>4, <2>1, <2>2 DEF Start
<1>5. CASE Home(l)
  <2>1. leg[l].at = "home"
    BY <1>5 DEF Home
  <2>2. PICK form, record : record = [r EXCEPT !.at = "search", !.form = form] /\ Set(l, record)
    BY <1>1, <1>5 DEF Home
  <2>3. record = [at |-> "search", page |-> r.page, form |-> form, hop |-> r.hop,
                  jar |-> r.jar, rows |-> r.rows, outcome |-> r.outcome,
                  paid |-> r.paid, detours |-> r.detours]
    BY <1>1, <2>2 DEF Whole
  <2>4. record.outcome = r.outcome /\ record.rows = r.rows /\ record.at # "gap"
    BY <2>3
  <2> QED BY <1>2, <2>1, <2>2, <2>4
<1>6. CASE Fail(l)
  <2>1. leg[l].at # "done" /\ \E class \in {"transport", "timeout"} : End(l, class, <<>>)
    BY <1>6 DEF Fail
  <2> QED BY <1>3, <2>1
<1>7. CASE Continue(l)
  <2>1. leg[l].at = "gap"
    BY <1>7 DEF Continue
  <2>2. CASE End(l, "ok", leg[l].rows)
    <3>1. PICK record : /\ Set(l, record) /\ record.at = "done"
                        /\ record.outcome = "ok" /\ record.rows = leg[l].rows
      BY <1>0, <2>2, EndedAs
    <3>2. Engine(l) \in Paginating /\ Listed(leg[l].rows) /\ Listed(served[l])
      <4>1. Engine(l) \in Paginating
        BY <2>1 DEF AnswerInv, AnswerFor
      <4> QED BY <4>1 DEF AnswerInv, WallInv, WallOf
    <3>3. Reading(Engine(l), leg[l].rows, served[l])
      BY <2>1 DEF AnswerInv, AnswerFor
    <3>4. ReadOut(Engine(l), leg[l].rows, served[l])
      BY <3>2, <3>3, ReadingStands
    <3>5. AnswerFor(Engine(l), record, served[l])
      BY <3>1, <3>4 DEF AnswerFor
    <3> QED BY <1>0, <3>1, <3>5, AnswerSet
  <2>3. CASE Set(l, [leg[l] EXCEPT !.at = "search"])
    <3>1. PICK record : record = [r EXCEPT !.at = "search"] /\ Set(l, record)
      BY <1>1, <2>3
    <3>2. record = [at |-> "search", page |-> r.page, form |-> r.form, hop |-> r.hop,
                    jar |-> r.jar, rows |-> r.rows, outcome |-> r.outcome,
                    paid |-> r.paid, detours |-> r.detours]
      BY <1>1, <3>1 DEF Whole
    <3>3. record.outcome = r.outcome /\ record.rows = r.rows /\ record.at # "gap"
      BY <3>2
    <3> QED BY <1>2, <2>1, <3>1, <3>3
  <2> QED BY <1>7, <2>2, <2>3 DEF Continue
<1>8. CASE Redirected(l)
  <2>1. leg[l].at \in {"search", "beacon"}
    BY <1>8 DEF Redirected
  <2>2. PICK at, set, detours, paid :
          at \in {"search", "beacon"} /\ Hop(l, at, set, detours, paid)
    BY <1>8 DEF Redirected
  <2>3. CASE End(l, "transport", <<>>)
    BY <1>3, <2>1, <2>3
  <2>4. CASE Set(l, [leg[l] EXCEPT !.at = at, !.hop = @ + 1, !.jar = Kept(@, set),
                                   !.detours = @ + detours, !.paid = @ + paid])
    <3>1. PICK record :
            /\ record = [r EXCEPT !.at = at, !.hop = @ + 1, !.jar = Kept(@, set),
                                  !.detours = @ + detours, !.paid = @ + paid]
            /\ Set(l, record)
      BY <1>1, <2>4
    <3>2. record = [at |-> at, page |-> r.page, form |-> r.form, hop |-> r.hop + 1,
                    jar |-> Kept(r.jar, set), rows |-> r.rows, outcome |-> r.outcome,
                    paid |-> r.paid + paid, detours |-> r.detours + detours]
      BY <1>1, <3>1 DEF Whole
    <3>3. record.outcome = r.outcome /\ record.rows = r.rows /\ record.at # "gap"
      BY <2>2, <3>2
    <3> QED BY <1>2, <2>1, <3>1, <3>3
  <2> QED BY <2>2, <2>3, <2>4 DEF Hop
<1> QED BY <1>4, <1>5, <1>6, <1>7, <1>8

(* A page comes. *)
LEMMA AnswerGrows ==
  ASSUME AnswerInv, WallInv', NEW l \in Slots, leg[l].at # "done", NEW p, Receive(l, p),
         NEW record, Set(l, record),
         \/ record.at = "done" /\ record.outcome # "ok"
         \/ /\ ReadOut(Engine(l), record.rows, Append(served[l], p))
            /\ record.at = "done"
         \/ /\ Engine(l) \in Paginating /\ record.outcome = leg[l].outcome
            /\ Reading(Engine(l), record.rows, Append(served[l], p))
  PROVE  AnswerInv'
<1>1. /\ served' = [served EXCEPT ![l] = Append(@, p)] /\ call' = call
      /\ DOMAIN served = Slots
  BY DEF Receive, AnswerInv, WallInv
<1>2. PICK pages : pages = Append(served[l], p)
  OBVIOUS
<1>3. served'[l] = pages /\ \A x \in Slots : x # l => served'[x] = served[x]
  BY <1>1, <1>2
<1>4. AnswerFor(Engine(l), record, pages)
  <2>1. leg[l].outcome = "none"
    BY DEF AnswerInv, AnswerFor
  <2> QED BY <1>2, <2>1 DEF AnswerFor
<1> QED BY <1>1, <1>3, <1>4, AnswerSet

LEMMA PageAnswers ==
  ASSUME AnswerInv, WallInv', NEW l \in Slots, leg[l].at # "done", NEW p, Receive(l, p),
         Legible(p), Engine(l) \in ToSet(Priority), Engine(l) \in {"brave", "cratesio"} => ~p.wall
  PROVE  AnswerInv'
<1>0. /\ search_engine(l, p) /\ Whole(leg[l]) /\ Listed(leg[l].rows) /\ Listed(served[l])
      /\ Reading(Engine(l), leg[l].rows, served[l])
  BY DEF Receive, AnswerInv, WallInv, WallOf, AnswerFor
<1>1. PICK r, e, pages, more :
        /\ r = leg[l] /\ e = Engine(l) /\ pages = served[l] /\ more = Append(pages, p)
        /\ Whole(r) /\ Listed(r.rows) /\ Listed(pages) /\ Reading(e, r.rows, pages)
  BY <1>0
<1>2. ASSUME NEW class, class # "ok", NEW rows, End(l, class, rows) PROVE AnswerInv'
  <2>1. PICK record : Set(l, record) /\ record.at = "done" /\ record.outcome = class
    BY <1>0, <1>2, EndedAs
  <2> QED BY <1>2, <2>1, AnswerGrows
<1>3. ASSUME NEW rows, End(l, "ok", rows), ReadOut(e, rows, more) PROVE AnswerInv'
  <2>1. PICK record : Set(l, record) /\ record.at = "done" /\ record.rows = rows
    BY <1>0, <1>3, EndedAs
  <2> QED BY <1>1, <1>3, <2>1, AnswerGrows
<1>4. ASSUME e \in Paginating, Fine(e, p), NEW new, Listed(new), Urls(new) = Links(Shown(e, p)),
             NEW kept, kept = Gathered(l, new)
      PROVE  /\ ReadOut(e, kept, more)
             /\ Len(kept) # MaxRows => Reading(e, kept, more)
  <2>1. kept = Capped(FirstBy(r.rows \o new, Url))
    BY <1>1, <1>4 DEF Gathered
  <2> QED BY <1>1, <1>4, <2>1, ReadingGrows
<1>5. CASE e = "duckduckgo"
  <2>1. PICK m : m = map_ddg_response(p)
    OBVIOUS
  <2>2. IF m.class = "ok" THEN ddg_page(l, p, m.rows) ELSE End(l, m.class, <<>>)
    BY <1>0, <1>1, <1>5, <2>1 DEF search_engine, ddg_search
  <2>3. CASE m.class = "ok"
    <3>1. PICK next, kept : next = parse_continuation_form(p) /\ kept = Gathered(l, m.rows)
      OBVIOUS
    <3>2. \/ End(l, "ok", kept)
          \/ /\ Len(kept) # MaxRows
             /\ Set(l, [leg[l] EXCEPT !.at = "gap", !.page = @ + 1, !.form = next[1].s, !.rows = kept])
      BY <2>2, <2>3, <3>1 DEF ddg_page
    <3>3. Fine(e, p) /\ m.rows = parse_ddg_html(p)
      BY <1>5, <2>1, <2>3, AcceptedIsFine
    <3>4. Listed(m.rows) /\ Urls(m.rows) = Links(Shown(e, p))
      BY <1>5, <3>3, PagesShowRows, ParsersList DEF Legible
    <3>5. ReadOut(e, kept, more) /\ (Len(kept) # MaxRows => Reading(e, kept, more))
      BY <1>4, <1>5, <3>1, <3>3, <3>4 DEF Paginating
    <3>6. CASE /\ Len(kept) # MaxRows
               /\ Set(l, [leg[l] EXCEPT !.at = "gap", !.page = @ + 1, !.form = next[1].s, !.rows = kept])
      <4>1. PICK record :
              /\ record = [r EXCEPT !.at = "gap", !.page = @ + 1, !.form = next[1].s, !.rows = kept]
              /\ Set(l, record)
        BY <1>1, <3>6
      <4>2. record = [at |-> "gap", page |-> r.page + 1, form |-> next[1].s, hop |-> r.hop,
                      jar |-> r.jar, rows |-> kept, outcome |-> r.outcome,
                      paid |-> r.paid, detours |-> r.detours]
        BY <1>1, <4>1 DEF Whole
      <4>3. record.outcome = r.outcome /\ record.rows = kept
        BY <4>2
      <4>4. Reading(e, record.rows, more) /\ e \in Paginating
        BY <1>5, <3>5, <3>6, <4>3 DEF Paginating
      <4> QED BY <1>1, <4>1, <4>3, <4>4, AnswerGrows
    <3> QED BY <1>3, <3>2, <3>5, <3>6
  <2> QED BY <1>2, <2>2, <2>3
<1>6. CASE e = "yahoo"
  <2>1. PICK m : m = map_yahoo_response(p)
    OBVIOUS
  <2>2. IF m.class = "ok" THEN yahoo_page(l, m.rows) ELSE End(l, m.class, <<>>)
    BY <1>0, <1>1, <1>6, <2>1 DEF search_engine, yahoo_search
  <2>3. CASE m.class = "ok"
    <3>1. PICK kept : kept = Gathered(l, m.rows)
      OBVIOUS
    <3>2. \/ End(l, "ok", kept)
          \/ /\ Len(kept) # MaxRows
             /\ Set(l, [leg[l] EXCEPT !.page = @ + 1, !.hop = 0, !.detours = 0, !.rows = kept])
      BY <2>2, <2>3, <3>1 DEF yahoo_page
    <3>3. Fine(e, p) /\ m.rows = parse_yahoo_html(p)
      BY <1>6, <2>1, <2>3, AcceptedIsFine
    <3>4. Listed(m.rows) /\ Urls(m.rows) = Links(Shown(e, p))
      BY <1>6, <3>3, PagesShowRows, ParsersList DEF Legible
    <3>5. ReadOut(e, kept, more) /\ (Len(kept) # MaxRows => Reading(e, kept, more))
      BY <1>4, <1>6, <3>1, <3>3, <3>4 DEF Paginating
    <3>6. CASE /\ Len(kept) # MaxRows
               /\ Set(l, [leg[l] EXCEPT !.page = @ + 1, !.hop = 0, !.detours = 0, !.rows = kept])
      <4>1. PICK record :
              /\ record = [r EXCEPT !.page = @ + 1, !.hop = 0, !.detours = 0, !.rows = kept]
              /\ Set(l, record)
        BY <1>1, <3>6
      <4>2. record = [at |-> r.at, page |-> r.page + 1, form |-> r.form, hop |-> 0,
                      jar |-> r.jar, rows |-> kept, outcome |-> r.outcome,
                      paid |-> r.paid, detours |-> 0]
        BY <1>1, <4>1 DEF Whole
      <4>3. record.outcome = r.outcome /\ record.rows = kept
        BY <4>2
      <4>4. Reading(e, record.rows, more) /\ e \in Paginating
        BY <1>6, <3>5, <3>6, <4>3 DEF Paginating
      <4> QED BY <1>1, <4>1, <4>3, <4>4, AnswerGrows
    <3> QED BY <1>3, <3>2, <3>5, <3>6
  <2> QED BY <1>2, <2>2, <2>3
<1>7. CASE e \notin Paginating
  <2>0. e \in {"startpage", "brave", "bing", "cratesio"}
    BY <1>1, <1>7 DEF ToSet, Priority, Paginating
  <2>1. ASSUME NEW m, End(l, m.class, m.rows), m.class = "ok" =>
                 /\ Fine(e, p) /\ Len(m.rows) <= MaxRows
                 /\ e = "startpage" => IsInjective(Urls(m.rows))
        PROVE  AnswerInv'
    <3>1. CASE m.class # "ok"
      BY <1>2, <2>1, <3>1
    <3>2. CASE m.class = "ok"
      <4>1. ReadOut(e, m.rows, more)
        BY <1>1, <1>7, <2>1, <3>2, OnePageIsRead
      <4> QED BY <1>3, <2>1, <3>2, <4>1
    <3> QED BY <3>1, <3>2
  <2>2. CASE e = "startpage"
    <3>1. PICK m : m = map_startpage_response(p) /\ End(l, m.class, m.rows)
      BY <1>0, <1>1, <2>2 DEF search_engine, startpage_search, OnePage
    <3>2. m.class = "ok" => /\ Fine(e, p) /\ Len(m.rows) <= MaxRows
                            /\ e = "startpage" => IsInjective(Urls(m.rows))
      BY <2>2, <3>1, AcceptedIsFine, PagesAreCapped, StartpageOnce
    <3> QED BY <2>1, <3>1, <3>2
  <2>3. CASE e = "brave"
    <3>1. PICK m : m = map_brave_response(p) /\ End(l, m.class, m.rows)
      BY <1>0, <1>1, <2>3 DEF search_engine, brave_search, OnePage
    <3>2. m.class = "ok" => Fine(e, p) /\ Len(m.rows) <= MaxRows
      BY <1>1, <2>3, <3>1, AcceptedIsFine, PagesAreCapped
    <3> QED BY <2>1, <2>3, <3>1, <3>2
  <2>4. CASE e = "bing"
    <3>1. PICK m : m = map_bing_response(p) /\ End(l, m.class, m.rows)
      BY <1>0, <1>1, <2>4 DEF search_engine, bing_search, OnePage
    <3>2. m.class = "ok" => Fine(e, p) /\ Len(m.rows) <= MaxRows
      BY <2>4, <3>1, AcceptedIsFine, PagesAreCapped
    <3> QED BY <2>1, <2>4, <3>1, <3>2
  <2>5. CASE e = "cratesio"
    <3>1. PICK way, m : m = map_cratesio_response(p, way) /\ End(l, m.class, m.rows)
      BY <1>0, <1>1, <2>5 DEF search_engine, cratesio_search, OnePage
    <3>2. m.class = "ok" => Fine(e, p) /\ Len(m.rows) <= MaxRows
      BY <1>1, <2>5, <3>1, AcceptedIsFine, PagesAreCapped
    <3> QED BY <2>1, <2>5, <3>1, <3>2
  <2> QED BY <2>0, <2>2, <2>3, <2>4, <2>5
<1> QED BY <1>5, <1>6, <1>7 DEF Paginating

LEMMA AnswerStep ==
  ASSUME AnswerInv, [Next]_vars
  PROVE  AnswerInv'
<1>0. WallInv /\ WallInv'
  BY WallStep DEF AnswerInv
<1>1. CASE UNCHANGED vars \/ Finish
  <2>1. UNCHANGED <<call, leg, served>>
    BY <1>1 DEF vars, Finish
  <2>2. Slots' = Slots /\ \A l \in Slots : Engine(l)' = Engine(l)
    BY <2>1 DEF Slots, Engine
  <2>3. \A l \in Slots' : AnswerFor(Engine(l)', leg'[l], served'[l])
    BY <2>1, <2>2 DEF AnswerInv
  <2> QED BY <1>0, <2>3 DEF AnswerInv
<1>2. \A l \in Slots : Engine(l) \in ToSet(Priority)
  <2> SUFFICES ASSUME NEW l \in Slots PROVE Engine(l) \in ToSet(Priority)
    OBVIOUS
  <2>1. PICK S, Q : S = [engine : ToSet(Priority), query : Q] /\ call.slots \in Seq(S)
    BY <1>0, CallsAssumption DEF WallInv
  <2>2. PICK slots : slots = call.slots /\ slots \in Seq(S) /\ l \in DOMAIN slots
    BY <2>1 DEF Slots
  <2>3. slots[l] \in S
    BY <2>2
  <2>4. slots[l].engine \in ToSet(Priority)
    BY <2>1, <2>3
  <2> QED BY <2>2, <2>4 DEF Engine
<1>3. ASSUME NEW l \in Slots, Answered(l) PROVE AnswerInv'
  <2>1. PICK p \in Pages[Engine(l)] : Receive(l, p)
    BY <1>3 DEF Answered
  <2>2. /\ Listed(p.blocks) /\ (Engine(l) \in {"brave", "cratesio"} => ~p.wall)
        /\ \A b \in ToSet(p.blocks) : b.href.form \in Forms
    BY <1>2, <2>1, PagesAssumption DEF Listed
  <2>3. Legible(p)
    <3>1. \A n \in DOMAIN p.blocks : p.blocks[n] \in ToSet(p.blocks)
      BY DEF ToSet
    <3> QED BY <2>2, <3>1 DEF Legible
  <2>4. leg[l].at # "done"
    BY <1>3 DEF Answered
  <2> QED BY <1>0, <1>2, <2>1, <2>2, <2>3, <2>4, PageAnswers
<1>4. ASSUME NEW l \in Slots, Stopped(l) PROVE AnswerInv'
  <2>1. PICK p, wall : p = Redirect(wall) /\ Receive(l, p)
    BY <1>4 DEF Stopped
  <2>2. Legible(p)
    <3>1. p.blocks = <<>> /\ DOMAIN <<>> = {}
      BY <2>1 DEF Redirect
    <3> QED BY <3>1, EmptyIsListed DEF Legible
  <2>3. leg[l].at # "done" /\ Engine(l) = "yahoo"
    BY <1>4 DEF Stopped
  <2> QED BY <1>0, <1>2, <2>1, <2>2, <2>3, PageAnswers
<1> QED BY <1>0, <1>1, <1>3, <1>4, QuietAnswers DEF Next

(* Whatever pages an engine serves a leg, and wherever its pagination is   *)
(* stopped, the rows it answers with are what the pages show: every link   *)
(* once, in the order of the pages, cut at MaxRows and nowhere else; and   *)
(* no page of an answer was a wall, an error or unknown to the parser      *)
(* (ddg_search, yahoo_search, rows_or_drift).                              *)
THEOREM AnswersAreThePages == Spec => []AnswerIsThePages
<1>1. Init => AnswerInv
  <2> SUFFICES ASSUME Init PROVE AnswerInv
    OBVIOUS
  <2>1. WallInv
    BY WallStarts
  <2> DEFINE first == [at |-> "start", page |-> 1, form |-> "none", hop |-> 0, jar |-> "none",
                       rows |-> <<>>, outcome |-> "none", paid |-> 0, detours |-> 0]
  <2>2. leg = [l \in Slots |-> first] /\ served = [l \in Slots |-> <<>>]
    BY DEF Init
  <2>3. first.at = "start" /\ first.outcome = "none" /\ first.rows = <<>>
    OBVIOUS
  <2> HIDE DEF first
  <2>4. ASSUME NEW e PROVE AnswerFor(e, first, <<>>)
    <3>1. DOMAIN <<>> = {} /\ Len(<<>>) = 0 /\ MaxRows > 0
      BY MergeAssumption
    <3>2. Firsts(Urls(<<>>), Links(ShownBy(e, <<>>)))
      <4>1. ShownBy(e, <<>>) = <<>>
        <5>1. PICK s : s = [i \in DOMAIN <<>> |-> Shown(e, <<>>[i])]
          OBVIOUS
        <5>2. s = <<>>
          BY <3>1, <5>1
        <5> QED BY <3>1, <5>1, <5>2 DEF ShownBy, FlattenSeq
      <4>2. Urls(<<>>) = <<>> /\ Links(<<>>) = <<>>
        BY <3>1 DEF Urls, Links
      <4> QED BY <4>1, <4>2, EmptyFirsts
    <3>3. Reading(e, <<>>, <<>>)
      BY <3>1, <3>2 DEF Reading
    <3> QED BY <2>3, <3>3 DEF AnswerFor
  <2>5. \A l \in Slots : AnswerFor(Engine(l), leg[l], served[l])
    BY <2>2, <2>4
  <2> QED BY <2>1, <2>5 DEF AnswerInv
<1>2. AnswerInv => AnswerIsThePages
  <2> SUFFICES ASSUME AnswerInv, NEW l \in Slots, leg[l].outcome = "ok"
               PROVE  /\ \A i \in DOMAIN served[l] :
                           /\ ~Walled(Engine(l), served[l][i]) /\ served[l][i].status = "ok"
                           /\ \/ served[l][i].serp
                              \/ \E n \in DOMAIN served[l][i].blocks :
                                   Readable(Engine(l), served[l][i].blocks[n])
                      /\ Len(Urls(leg[l].rows)) <= MaxRows
                      /\ Engine(l) \in {"duckduckgo", "yahoo", "startpage"} =>
                           IsInjective(Urls(leg[l].rows))
                      /\ Engine(l) \in {"duckduckgo", "yahoo"} =>
                           Urls(leg[l].rows) =
                             [i \in 1..Min({Len(FirstLinked(ShownBy(Engine(l), served[l]))), MaxRows}) |->
                                FirstLinked(ShownBy(Engine(l), served[l]))[i].href.to]
    BY DEF AnswerIsThePages, Urls, ShownBy, FirstLinked, FirstBy
  <2>1. ReadOut(Engine(l), leg[l].rows, served[l]) /\ Listed(leg[l].rows)
    BY DEF AnswerInv, AnswerFor, WallInv, WallOf
  <2>2. Len(Urls(leg[l].rows)) = Len(leg[l].rows)
    BY <2>1, UrlsAreListed
  <2>3. \A i \in DOMAIN served[l] :
          /\ ~Walled(Engine(l), served[l][i]) /\ served[l][i].status = "ok"
          /\ \/ served[l][i].serp
             \/ \E n \in DOMAIN served[l][i].blocks :
                  Readable(Engine(l), served[l][i].blocks[n])
    BY <2>1 DEF ReadOut, Fine
  <2> QED BY <2>1, <2>2, <2>3 DEF ReadOut, Paginating
<1> QED BY <1>1, <1>2, AnswerStep, PTL DEF Spec
=============================================================================
