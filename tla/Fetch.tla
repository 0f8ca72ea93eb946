------------------------------- MODULE Fetch --------------------------------
(***************************************************************************)
(* The fetches of one process (src/src/web/fetch): the static request with *)
(* its redirects, the browser it hands over to, and the crates.io rewrite, *)
(* which shares the API gate (web/crates_io.rs) with the search leg.  Each *)
(* call runs under the agent loop's timeout of a tool call.                *)
(*                                                                         *)
(* A timer fires when it is due: time does not pass over it.  A sleep of   *)
(* the gate, a lookup and an answer may take any time.                     *)
(***************************************************************************)
EXTENDS Integers, FiniteSets

CONSTANTS
  Calls,            \* fetch calls
  SearchLegs,       \* crates.io search legs: they only use the gate
  PublicOnly,       \* the egress policy: FALSE under FETCH_ALLOW_PRIVATE=1
  Bodies,           \* what a static answer comes to, from the MC module
  StaticTimeout, BrowserTimeout, ToolTimeout,
  Gap,              \* API_GAP
  MaxRedirects,     \* MAX_REDIRECTS
  MaxNow            \* bound on the clock

Site == [to : {"page", "browser", "failed"}, complete : BOOLEAN]

ASSUME FetchAssumption ==
  /\ Calls \cap SearchLegs = {}
  /\ PublicOnly \in BOOLEAN
  /\ Bodies \subseteq Site
  /\ StaticTimeout \in Nat \ {0} /\ BrowserTimeout \in Nat \ {0}
  /\ ToolTimeout \in Nat /\ StaticTimeout + BrowserTimeout < ToolTimeout
  /\ Gap \in Nat \ {0} /\ MaxRedirects \in Nat \ {0} /\ MaxNow \in Nat

VARIABLES
  site,             \* what a static request comes to once it is answered
  now,
  nextFree,         \* ApiGate.next_free: 0 before the first caller
  pc, url,          \* of each call: where it stands, what it was asked for
  host, hops,       \* of each call: whom the request is sent to, redirects
  start, since,     \* of each call: when it began, when its last wait began
  slot,             \* of each caller: what the gate gave it
  result,
  waited,           \* history: time in waits that have no timeout of their own
  reached           \* history: kinds of address the static client connected to

timing == <<start, since, waited>>
gate == <<nextFree, slot>>
to == <<url, host, hops>>
vars == <<site, now, gate, pc, to, timing, result, reached>>

-----------------------------------------------------------------------------
(* Whom a URL names: an address literal or a name.  A crate page is asked  *)
(* of crates.io, a name.                                                   *)
Hosts == {"public", "private", "name"}
Urls == Hosts \cup {"invalid", "crate"}
Callers == Calls \cup SearchLegs
Timed == {"static", "index", "api", "browser"}
Untimed == {"lookup", "slot"}
PCs == {"idle", "done"} \cup Timed \cup Untimed
MutLimit(at) == IF at = "browser" THEN ToolTimeout ELSE StaticTimeout
Limit(at) == IF at = "browser" THEN BrowserTimeout ELSE StaticTimeout
(* "refused": FetchError::Egress; "failed": any other FetchError; "partial":
   a page of the static path that lost something.                          *)
Results == {"none", "cut", "refused", "failed", "static", "partial", "browser", "api"}

(* The four points of the egress policy judge literals and names alike.    *)
Forbidden(address) == PublicOnly /\ address = "private"
CheckUrlHost(h) == ~Forbidden(h)

(* EgressResolver drops the forbidden addresses of the answer. *)
Resolve(h, answer) ==
  IF h = "name" THEN {a \in answer : ~Forbidden(a)} ELSE {h}
Answers == SUBSET {"public", "private"}

Due(c) ==
  \/ pc[c] \in Timed /\ now >= since[c] + Limit(pc[c])
  \/ pc[c] # "done" /\ pc[c] # "idle" /\ now >= start[c] + ToolTimeout

Waits(c) == IF pc[c] \in Untimed THEN waited[c] + (now - since[c]) ELSE waited[c]
Move(c, at) ==
  /\ pc' = [pc EXCEPT ![c] = at]
  /\ since' = [since EXCEPT ![c] = now]
  /\ waited' = [waited EXCEPT ![c] = Waits(c)]
  /\ UNCHANGED <<start, result>>

(* The call is over, and what it was at is forgotten. *)
End(c, r) ==
  /\ pc' = [pc EXCEPT ![c] = "done"]
  /\ result' = [result EXCEPT ![c] = r]
  /\ waited' = [waited EXCEPT ![c] = Waits(c)]
  /\ since' = [since EXCEPT ![c] = 0] /\ start' = [start EXCEPT ![c] = 0]
  /\ url' = [url EXCEPT ![c] = "name"] /\ host' = [host EXCEPT ![c] = "name"]
  /\ hops' = [hops EXCEPT ![c] = 0]

Requesting(c) == pc[c] \in {"static", "index", "api"}
Max2(x, y) == IF x > y THEN x ELSE y
(* ApiGate::wait, before it sleeps. *)
MutReserveSlot(c) ==
  /\ slot' = [slot EXCEPT ![c] = Max2(now, nextFree)]
  /\ nextFree' = now + Gap
ReserveSlot(c) ==
  /\ slot' = [slot EXCEPT ![c] = Max2(now, nextFree)]
  /\ nextFree' = Max2(now, nextFree) + Gap

-----------------------------------------------------------------------------
Init ==
  /\ site \in Bodies /\ now = 0
  /\ nextFree = 0 /\ slot = [c \in Callers |-> -1]
  /\ pc = [c \in Calls |-> "idle"]
  /\ url = [c \in Calls |-> "name"] /\ host = url
  /\ hops = [c \in Calls |-> 0]
  /\ start = [c \in Calls |-> 0] /\ since = start /\ waited = start
  /\ result = [c \in Calls |-> "none"]
  /\ reached = {}

(* normalize_url, then the rewrite for a crate page or the static request. *)
Start(c, u) ==
  /\ pc[c] = "idle"
  /\ IF u = "invalid" THEN End(c, "failed")
     ELSE IF ~CheckUrlHost(u) THEN End(c, "refused")
     ELSE /\ pc' = [pc EXCEPT ![c] = IF u = "crate" THEN "index" ELSE "static"]
          /\ start' = [start EXCEPT ![c] = now] /\ since' = [since EXCEPT ![c] = now]
          /\ url' = [url EXCEPT ![c] = u]
          /\ host' = [host EXCEPT ![c] = IF u \in Hosts THEN u ELSE "name"]
          /\ UNCHANGED <<hops, waited, result>>
  /\ UNCHANGED <<site, now, gate, reached>>

(* The client connects to one of the addresses it may use. *)
Connect(c) ==
  \E answer \in Answers \ {{}} : \E a \in Resolve(host[c], answer) :
    reached' = reached \cup {a}

(* A request of the client that comes to nothing.  The API only enriches a *)
(* crate page: without it the page is served from the index.               *)
Fails(c, failure) == End(c, IF pc[c] = "api" THEN "api" ELSE failure)

(* redirect_policy: previous() holds the request's own URL too. *)
Follow(c, h) ==
  /\ host' = [host EXCEPT ![c] = h]
  /\ hops' = [hops EXCEPT ![c] = @ + 1]
  /\ UNCHANGED <<pc, url, timing, result>>
MutRedirect(c, h) ==
  /\ Requesting(c) /\ Connect(c)
  /\ IF hops[c] + 1 >= MaxRedirects THEN Fails(c, "failed") ELSE Follow(c, h)
  /\ UNCHANGED <<site, now, gate>>

Redirect(c, h) ==
  /\ Requesting(c) /\ Connect(c)
  /\ IF hops[c] + 1 >= MaxRedirects THEN Fails(c, "failed")
     ELSE IF ~CheckUrlHost(h) THEN Fails(c, "refused") ELSE Follow(c, h)
  /\ UNCHANGED <<site, now, gate>>

(* The resolver leaves no address, or the transport fails. *)
Refused(c) ==
  /\ Requesting(c) /\ host[c] = "name"
  /\ \E answer \in Answers : Resolve(host[c], answer) = {}
  /\ Fails(c, IF PublicOnly THEN "refused" ELSE "failed")
  /\ UNCHANGED <<site, now, gate, reached>>

SendFails(c) ==
  /\ Requesting(c)
  /\ Fails(c, "failed")
  /\ UNCHANGED <<site, now, gate, reached>>

(* The client's timeout spans the redirects and the body. *)
RequestTimesOut(c) ==
  /\ Requesting(c) /\ now >= since[c] + Limit(pc[c])
  /\ Fails(c, "failed")
  /\ UNCHANGED <<site, now, gate, reached>>

(* fetch_static from the status on. *)
Answered(c) ==
  /\ pc[c] = "static" /\ Connect(c)
  /\ \/ site.to = "page" /\ End(c, IF site.complete THEN "static" ELSE "partial")
     \/ site.to = "failed" /\ End(c, "failed")
     \/ site.to = "browser" /\ Move(c, "lookup") /\ UNCHANGED to
  /\ UNCHANGED <<site, now, gate>>

(* check_resolved and the spawn.  The browser is given the URL asked for,  *)
(* not where the redirects led; a lookup that fails is left to it.         *)
Spawn(c) ==
  /\ pc[c] = "lookup"
  /\ \/ PublicOnly /\ url[c] = "name" /\ End(c, "refused")
     \/ End(c, "failed")
     \/ Move(c, "browser") /\ UNCHANGED to
  /\ UNCHANGED <<site, now, gate, reached>>

(* The child's output is read to its end, or until it is too long. *)
BrowserEnds(c) ==
  /\ pc[c] = "browser"
  /\ \E r \in {"browser", "failed"} : End(c, r)
  /\ UNCHANGED <<site, now, gate, reached>>

BrowserTimesOut(c) ==
  /\ pc[c] = "browser" /\ now >= since[c] + Limit(pc[c])
  /\ End(c, "failed")
  /\ UNCHANGED <<site, now, gate, reached>>

(* The index has a line of a version, or the crate page fails. *)
IndexAnswered(c) ==
  /\ pc[c] = "index" /\ Connect(c)
  /\ \/ Move(c, "slot") /\ ReserveSlot(c) /\ UNCHANGED to
     \/ End(c, "failed") /\ UNCHANGED gate
  /\ UNCHANGED <<site, now>>

(* The sleep of the gate is over: the API request is sent. *)
SendApi(c) ==
  /\ pc[c] = "slot" /\ now >= slot[c]
  /\ Move(c, "api")
  /\ host' = [host EXCEPT ![c] = "name"] /\ hops' = [hops EXCEPT ![c] = 0]
  /\ UNCHANGED <<site, now, gate, url, reached>>

ApiAnswered(c) ==
  /\ pc[c] = "api" /\ Connect(c)
  /\ End(c, "api")
  /\ UNCHANGED <<site, now, gate>>

(* The agent loop drops a call at its timeout, wherever it stands: a slot  *)
(* it holds stays reserved, its child is killed.                           *)
Cut(c) ==
  /\ pc[c] \notin {"idle", "done"} /\ now >= start[c] + ToolTimeout
  /\ End(c, "cut")
  /\ UNCHANGED <<site, now, gate, reached>>

(* The crates.io leg of a search waits for the gate too. *)
LegAsks(l) ==
  /\ slot[l] = -1 /\ ReserveSlot(l)
  /\ UNCHANGED <<site, now, pc, to, timing, result, reached>>

Tick ==
  /\ now < MaxNow /\ \A c \in Calls : ~Due(c)
  /\ now' = now + 1
  /\ UNCHANGED <<site, gate, pc, to, timing, result, reached>>

Call(c) ==
  \/ \E u \in Urls : Start(c, u)
  \/ \E h \in Hosts : Redirect(c, h)
  \/ Refused(c) \/ SendFails(c) \/ RequestTimesOut(c) \/ Answered(c)
  \/ Spawn(c) \/ BrowserEnds(c) \/ BrowserTimesOut(c)
  \/ IndexAnswered(c) \/ SendApi(c) \/ ApiAnswered(c) \/ Cut(c)

Next ==
  \/ \E c \in Calls : Call(c)
  \/ \E l \in SearchLegs : LegAsks(l)
  \/ Tick

Spec == Init /\ [][Next]_vars
-----------------------------------------------------------------------------
(* Every variable stays in its type. *)
TypeOK ==
  /\ site \in Site /\ now \in Nat /\ nextFree \in Nat
  /\ pc \in [Calls -> PCs] /\ url \in [Calls -> Urls] /\ host \in [Calls -> Hosts]
  /\ hops \in [Calls -> Nat]
  /\ start \in [Calls -> Nat] /\ since \in [Calls -> Nat] /\ waited \in [Calls -> Nat]
  /\ slot \in [Callers -> Nat \cup {-1}]
  /\ result \in [Calls -> Results]
  /\ reached \subseteq {"public", "private"}

(* A fetch is cut by the agent loop only after waits that have no timeout: *)
(* of a lookup or of the API gate.  The timeouts of the static request and *)
(* of the browser always end before the tool call's.                       *)
CutOnlyAfterWaiting ==
  \A c \in Calls :
    result[c] = "cut" =>
      waited[c] + StaticTimeout + Max2(StaticTimeout, BrowserTimeout) >= ToolTimeout

(* The API requests of the fetches and of the search legs together are     *)
(* given instants at least one gap apart, although a caller may be cut with *)
(* its instant reserved, wake late, or come after the gate stood idle.     *)
GateRate ==
  \A c, d \in Callers :
    c # d /\ slot[c] # -1 /\ slot[d] # -1 =>
      slot[c] + Gap <= slot[d] \/ slot[d] + Gap <= slot[c]

(* Under the public-only policy the static client never connects to a      *)
(* private address, whatever the redirects and the resolver answer.        *)
PublicOnlyReached == PublicOnly => "private" \notin reached

(* A page served from its main content keeps the code, the tables and the  *)
(* answers of the whole page, as the agent then reads them.                *)
NothingLost == \A c \in Calls : result[c] # "partial"
=============================================================================
