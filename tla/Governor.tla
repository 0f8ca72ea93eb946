------------------------------- MODULE Governor -------------------------------
(***************************************************************************)
(* The per-engine governor of the search fan-out                           *)
(* (src/src/web/search/governor): suspension, pacing and request budget.   *)
(* Every process keeps a view of each engine; the processes that share a   *)
(* cache root meet in engines.json, which each of them reads, merges and   *)
(* writes back under one file lock.  A leg (fanout/leg.rs) passes the      *)
(* governor's checks, waits out the pacing gap, sends a request and        *)
(* records how it ended.  A step ends where the code awaits or releases a  *)
(* lock, so every interleaving of threads and processes is a behaviour.    *)
(***************************************************************************)
EXTENDS Integers, Sequences, FiniteSets

CONSTANTS
  Proc,            \* processes on one cache root
  Leg,             \* concurrent legs of one process
  Engine,          \* search engines
  LegEngine,       \* the engine each leg asks
  Concurrency,     \* permits of each engine in one process
  Paginates,       \* engines whose legs pace continuation pages
  RequestCap,      \* wire requests per engine and process
  MinGap, MaxGap,  \* jittered gap between two requests, in clock units
  MaxSuspension,   \* longest configured suspension
  ErrorSuspension, \* durations errors ask for, Retry-After included; 0 = none
  Backoff,         \* pause before the transport retry
  Res,             \* clock units per persisted millisecond
  CacheRoot,       \* FALSE: no cache root, nothing is shared
  WriteMayFail,    \* TRUE: a write of engines.json may be lost
  FarFuture,       \* suspended_until values a hand-edited file may hold
  MaxTime          \* bound on the clock

(* Option::None.  Rust orders it below every instant, and so does -1. *)
None == -1

ASSUME GovernorAssumption ==
  /\ IsFiniteSet(Leg)
  /\ LegEngine \in [Leg -> Engine]
  /\ Concurrency \in [Engine -> Nat \ {0}]
  /\ Paginates \subseteq Engine
  /\ RequestCap \in Nat
  /\ MinGap \in Nat /\ MaxGap \in Nat /\ MinGap <= MaxGap
  /\ MaxSuspension \in Nat
  /\ ErrorSuspension \subseteq Nat
  /\ Backoff \in Nat
  /\ Res \in Nat \ {0}
  /\ CacheRoot \in BOOLEAN /\ WriteMayFail \in BOOLEAN
  /\ FarFuture \subseteq Nat
  /\ MaxTime \in Nat

VARIABLES
  now,     \* the clock (tokio Instant)
  disk,    \* engines.json: per engine, in persisted milliseconds
  since,   \* history: when engines.json got the suspension it holds
  loaded,  \* per process: has engines.json been read (or claimed to be)
  views,   \* per process and engine: the in-memory view
  leg,     \* per process and leg: where it stands
  starts   \* history: per process and engine, its last Concurrency starts

vars == <<now, disk, since, loaded, views, leg, starts>>

-----------------------------------------------------------------------------
Time == Nat \cup {None}

(* EngineView, without the reason string. *)
View == [until : Time, at : Time, request : Time, success : Time, count : Nat]

(* PersistedEngine. *)
Entry == [until : Time, at : Time, request : Time, success : Time]

NoView == [until |-> None, at |-> None, request |-> None, success |-> None,
           count |-> 0]
NoEntry == [until |-> None, at |-> None, request |-> None, success |-> None]

(* Where a leg stands.  "refreshed" is history: when it last read          *)
(* engines.json in pace.                                                   *)
PC == {"idle", "load", "precheck", "acquire", "refresh", "suspended",
       "budget", "last", "sleep", "wire", "partial", "backoff"}
LegState == [pc : PC, gate : {"first", "page", "retry"}, retried : BOOLEAN,
             wake : Nat, refreshed : Time]
IdleLeg == [pc |-> "idle", gate |-> "first", retried |-> FALSE, wake |-> 0,
            refreshed |-> None]

LaterOf(a, b) == IF a >= b THEN a ELSE b
EarlierOf(a, b) == IF a <= b THEN a ELSE b

(* Persisted times are whole milliseconds: mono_to_wall truncates.         *)
ToDisk(t) == IF t = None THEN None ELSE t \div Res
FromDisk(ms) == IF ms = None THEN None ELSE ms * Res

(* now + max_suspension() *)
SuspensionCap == now + MaxSuspension

(* Mutant: the pacing clock is forgotten on the way in.                    *)
MutViewFromDisk(entry) ==
  [until   |-> FromDisk(EarlierOf(entry.until, ToDisk(SuspensionCap))),
   at      |-> FromDisk(entry.at),
   request |-> None,
   success |-> FromDisk(entry.success)]

ViewFromDisk(entry) ==
  [until   |-> FromDisk(EarlierOf(entry.until, ToDisk(SuspensionCap))),
   at      |-> FromDisk(entry.at),
   request |-> FromDisk(entry.request),
   success |-> FromDisk(entry.success)]

DiskFromView(view) ==
  [until   |-> ToDisk(view.until),   at      |-> ToDisk(view.at),
   request |-> ToDisk(view.request), success |-> ToDisk(view.success)]

(* merge_view: a suspension survives if it still runs and no later success *)
(* is known on either side; of two survivors the later expiry wins.        *)
MergeView(view, remote) ==
  LET success == LaterOf(view.success, remote.success)
      Alive(s) == s.until > now /\ (success = None \/ s.at >= success)
      winner == IF Alive(remote) /\ ~(Alive(view) /\ view.until >= remote.until)
                THEN remote ELSE view
      kept == Alive(winner)
  IN  [until   |-> IF kept THEN EarlierOf(winner.until, SuspensionCap) ELSE None,
       at      |-> IF kept THEN winner.at ELSE None,
       request |-> LaterOf(view.request, remote.request),
       success |-> success,
       count   |-> view.count]

(* Mutant: the process trusts its own view and the last writer wins.       *)
MutMerged(p) == views[p]

(* The views process p holds once sync has merged the file into them. *)
Merged(p) ==
  IF CacheRoot
  THEN [e \in Engine |-> MergeView(views[p][e], ViewFromDisk(disk[e]))]
  ELSE views[p]

SameSuspension(entry, other) == entry.until = other.until /\ entry.at = other.at

(* The rest of sync: adopt the mutated views and write them back.  A write *)
(* is atomic (temp file and rename) and best effort.                       *)
Publish(p, mutated) ==
  /\ views' = [views EXCEPT ![p] = mutated]
  /\ \/ /\ CacheRoot
        /\ disk' = [e \in Engine |-> DiskFromView(mutated[e])]
        /\ since' = [e \in Engine |-> IF SameSuspension(disk'[e], disk[e])
                                      THEN since[e] ELSE now]
     \/ (~CacheRoot \/ WriteMayFail) /\ UNCHANGED <<disk, since>>

(* Mutant: the cap itself is still granted.                                *)
MutOverBudget(p, e) == views[p][e].count > RequestCap

(* suspended_remaining and over_budget, on the in-memory view. *)
Suspended(p, e) == views[p][e].until > now
OverBudget(p, e) == views[p][e].count >= RequestCap

(* A leg holds its EnginePermit from acquire until it is idle again. *)
PermitPC == PC \ {"idle", "load", "precheck", "acquire"}
Holders(p, e) == {l \in Leg : LegEngine[l] = e /\ leg[p][l].pc \in PermitPC}

Goto(p, l, pc) == leg' = [leg EXCEPT ![p][l].pc = pc]
Finish(p, l) == leg' = [leg EXCEPT ![p][l] = IdleLeg]

-----------------------------------------------------------------------------
(* Engines.json may be missing or hand-edited before the first process.    *)
Init ==
  /\ now = 0
  /\ \E until \in (IF CacheRoot THEN FarFuture ELSE {}) \cup {None} :
       disk = [e \in Engine |-> [NoEntry EXCEPT !.until = until]]
  /\ since = [e \in Engine |-> 0]
  /\ loaded = [p \in Proc |-> FALSE]
  /\ views = [p \in Proc |-> [e \in Engine |-> NoView]]
  /\ leg = [p \in Proc |-> [l \in Leg |-> IdleLeg]]
  /\ starts = [p \in Proc |-> [e \in Engine |-> << >>]]

(* settle calls suspended_remaining; ensure_loaded swaps the flag first,   *)
(* so only one leg loads and the others go on with what views holds.       *)
Begin(p, l) ==
  /\ leg[p][l].pc = "idle"
  /\ Goto(p, l, IF loaded[p] THEN "precheck" ELSE "load")
  /\ loaded' = [loaded EXCEPT ![p] = TRUE]
  /\ UNCHANGED <<now, disk, since, views, starts>>

Load(p, l) ==
  /\ leg[p][l].pc = "load"
  /\ Publish(p, Merged(p))
  /\ Goto(p, l, "precheck")
  /\ UNCHANGED <<now, loaded, starts>>

Precheck(p, l) ==
  /\ leg[p][l].pc = "precheck"
  /\ IF Suspended(p, LegEngine[l]) THEN Finish(p, l) ELSE Goto(p, l, "acquire")
  /\ UNCHANGED <<now, disk, since, loaded, views, starts>>

Acquire(p, l) ==
  /\ leg[p][l].pc = "acquire"
  /\ Cardinality(Holders(p, LegEngine[l])) < Concurrency[LegEngine[l]]
  /\ Goto(p, l, "refresh")
  /\ UNCHANGED <<now, disk, since, loaded, views, starts>>

-----------------------------------------------------------------------------
(* EnginePermit::pace, one action per lock it takes.                       *)
(* Mutant: pace trusts the view instead of reading engines.json again.     *)
MutRefresh(p, l) ==
  /\ leg[p][l].pc = "refresh"
  /\ leg' = [leg EXCEPT ![p][l].pc = "suspended", ![p][l].refreshed = now]
  /\ UNCHANGED <<now, disk, since, loaded, views, starts>>

Refresh(p, l) ==
  /\ leg[p][l].pc = "refresh"
  /\ loaded' = [loaded EXCEPT ![p] = TRUE]
  /\ Publish(p, Merged(p))
  /\ leg' = [leg EXCEPT ![p][l].pc = "suspended", ![p][l].refreshed = now]
  /\ UNCHANGED <<now, starts>>

(* A refusal ends a leg before its first request with a typed skip; on the *)
(* transport retry the failure stands, and it never suspends; on a         *)
(* continuation page the rows so far are the leg's answer.                 *)
Refuse(p, l) ==
  IF leg[p][l].gate = "page" THEN Goto(p, l, "partial") ELSE Finish(p, l)

CheckSuspended(p, l) ==
  /\ leg[p][l].pc = "suspended"
  /\ IF Suspended(p, LegEngine[l]) THEN Refuse(p, l) ELSE Goto(p, l, "budget")
  /\ UNCHANGED <<now, disk, since, loaded, views, starts>>

CheckBudget(p, l) ==
  /\ leg[p][l].pc = "budget"
  /\ IF OverBudget(p, LegEngine[l]) THEN Refuse(p, l) ELSE Goto(p, l, "last")
  /\ UNCHANGED <<now, disk, since, loaded, views, starts>>

(* The jittered gaps pace may pick (resolve_gap, pick_gap). *)
Gaps == MinGap..MaxGap

(* The gap is counted from the last request the view knows; one that the   *)
(* clock conversion puts in the future costs the whole gap.                *)
ReadLast(p, l) ==
  LET last == views[p][LegEngine[l]].request IN
  /\ leg[p][l].pc = "last"
  /\ \E gap \in Gaps :
       leg' = [leg EXCEPT ![p][l].pc = "sleep",
                          ![p][l].wake =
                             IF last = None THEN now
                             ELSE LaterOf(now, EarlierOf(last, now) + gap)]
  /\ UNCHANGED <<now, disk, since, loaded, views, starts>>

(* The history keeps the newest Concurrency starts of the engine. *)
Remember(history, e) ==
  Append(IF Len(history) >= Concurrency[e] THEN Tail(history) ELSE history, now)

(* Mutant: the request is counted but its start is not recorded.           *)
MutReserve(p, l) ==
  LET e == LegEngine[l] IN
  /\ leg[p][l].pc = "sleep"
  /\ now >= leg[p][l].wake
  /\ Publish(p, [Merged(p) EXCEPT ![e].count = @ + 1])
  /\ leg' = [leg EXCEPT ![p][l].pc = "wire", ![p][l].wake = 0]
  /\ starts' = [starts EXCEPT ![p][e] = Remember(@, e)]
  /\ UNCHANGED <<now, loaded>>

(* Pacing done: reserve the budget, record the start, send the request. *)
Reserve(p, l) ==
  LET e == LegEngine[l]
      merged == Merged(p)
  IN
  /\ leg[p][l].pc = "sleep"
  /\ now >= leg[p][l].wake
  /\ Publish(p, [merged EXCEPT ![e].request = now, ![e].count = @ + 1])
  /\ leg' = [leg EXCEPT ![p][l].pc = "wire", ![p][l].wake = 0]
  /\ starts' = [starts EXCEPT ![p][e] = Remember(@, e)]
  /\ UNCHANGED <<now, loaded>>

-----------------------------------------------------------------------------
(* A page arrived and the engine has another one: pace before asking.      *)
NextPage(p, l) ==
  /\ leg[p][l].pc = "wire"
  /\ LegEngine[l] \in Paginates
  /\ leg' = [leg EXCEPT ![p][l].pc = "refresh", ![p][l].gate = "page"]
  /\ UNCHANGED <<now, disk, since, loaded, views, starts>>

(* The leg has its rows: record_success. *)
Succeed(p, l) ==
  LET merged == Merged(p) IN
  /\ leg[p][l].pc \in {"wire", "partial"}
  /\ Publish(p, [merged EXCEPT ![LegEngine[l]].success = now,
                               ![LegEngine[l]].until = None,
                               ![LegEngine[l]].at = None])
  /\ Finish(p, l)
  /\ UNCHANGED <<now, loaded, starts>>

(* Mutant: a Retry-After taken at face value.                              *)
MutFailureUnclamped(view, duration) ==
  IF view.until = None \/ now + duration > view.until
  THEN [view EXCEPT !.until = now + duration, !.at = now]
  ELSE view

(* The leg failed: record_failure, which never shortens a suspension.      *)
WithFailure(view, duration) ==
  LET candidate == now + EarlierOf(duration, MaxSuspension) IN
  IF view.until = None \/ candidate > view.until
  THEN [view EXCEPT !.until = candidate, !.at = now]
  ELSE view

Fail(p, l) ==
  /\ leg[p][l].pc = "wire"
  /\ \E duration \in ErrorSuspension :
       IF EarlierOf(duration, MaxSuspension) = 0
       THEN UNCHANGED <<disk, since, views>>
       ELSE Publish(p, [Merged(p) EXCEPT ![LegEngine[l]] = WithFailure(@, duration)])
  /\ Finish(p, l)
  /\ UNCHANGED <<now, loaded, starts>>

(* No response at all: one retry per leg, if it fits before the deadline.  *)
TransportFail(p, l) ==
  /\ leg[p][l].pc = "wire"
  /\ \/ Finish(p, l)
     \/ /\ ~leg[p][l].retried
        /\ leg' = [leg EXCEPT ![p][l].pc = "backoff", ![p][l].retried = TRUE,
                              ![p][l].wake = now + Backoff]
  /\ UNCHANGED <<now, disk, since, loaded, views, starts>>

Retry(p, l) ==
  /\ leg[p][l].pc = "backoff"
  /\ now >= leg[p][l].wake
  /\ leg' = [leg EXCEPT ![p][l].pc = "refresh", ![p][l].gate = "retry",
                        ![p][l].wake = 0]
  /\ UNCHANGED <<now, disk, since, loaded, views, starts>>

-----------------------------------------------------------------------------
(* The fan-out drops a leg at an await; its permit is freed.               *)
Abort(p, l) ==
  /\ leg[p][l].pc \in {"acquire", "sleep", "wire", "backoff"}
  /\ Finish(p, l)
  /\ UNCHANGED <<now, disk, since, loaded, views, starts>>

(* The process is killed anywhere and a new run starts on the same root.   *)
Restart(p) ==
  /\ loaded' = [loaded EXCEPT ![p] = FALSE]
  /\ views' = [views EXCEPT ![p] = [e \in Engine |-> NoView]]
  /\ leg' = [leg EXCEPT ![p] = [l \in Leg |-> IdleLeg]]
  /\ starts' = [starts EXCEPT ![p] = [e \in Engine |-> << >>]]
  /\ UNCHANGED <<now, disk, since>>

Tick ==
  /\ now < MaxTime
  /\ now' = now + 1
  /\ UNCHANGED <<disk, since, loaded, views, leg, starts>>

LegStep(p, l) ==
  \/ Begin(p, l) \/ Load(p, l) \/ Precheck(p, l) \/ Acquire(p, l)
  \/ Refresh(p, l) \/ CheckSuspended(p, l) \/ CheckBudget(p, l)
  \/ ReadLast(p, l) \/ Reserve(p, l)
  \/ NextPage(p, l) \/ Succeed(p, l) \/ Fail(p, l)
  \/ TransportFail(p, l) \/ Retry(p, l) \/ Abort(p, l)

Next ==
  \/ \E p \in Proc, l \in Leg : LegStep(p, l)
  \/ \E p \in Proc : Restart(p)
  \/ Tick

Spec == Init /\ [][Next]_vars

-----------------------------------------------------------------------------
(* Every variable stays in its type. *)
TypeOK ==
  /\ now \in Nat
  /\ disk \in [Engine -> Entry] /\ since \in [Engine -> Nat]
  /\ loaded \in [Proc -> BOOLEAN]
  /\ views \in [Proc -> [Engine -> View]]
  /\ leg \in [Proc -> [Leg -> LegState]]
  /\ starts \in [Proc -> [Engine -> Seq(Nat)]]

(* Process p starts a wire request to e in this step. *)
Started(p, e) == views'[p][e].count > views[p][e].count

(* engines.json shows e suspended. *)
SuspendedOnDisk(e) == FromDisk(disk[e].until) > now

(* The budget overshoots by the siblings that may be between the check and *)
(* the reservation, and by no more (the bound pace documents).             *)
BudgetBound ==
  \A p \in Proc, e \in Engine :
    views[p][e].count <= RequestCap + Concurrency[e] - 1

(* Why the budget holds: a leg between the check and the reservation has a *)
(* permit, and no engine hands out more permits than it has.               *)
Passed(p, e) ==
  {l \in Leg : LegEngine[l] = e /\ leg[p][l].pc \in {"last", "sleep"}}

PermitBound ==
  \A p \in Proc, e \in Engine : Cardinality(Holders(p, e)) <= Concurrency[e]

ReservationBound ==
  \A p \in Proc, e \in Engine :
    views[p][e].count + Cardinality(Passed(p, e)) <= RequestCap + Concurrency[e] - 1

BudgetInv == PermitBound /\ ReservationBound

(* However the legs of one process interleave, no window of MinGap holds   *)
(* more of its request starts than the engine has permits; for an engine   *)
(* with one permit consecutive starts are a gap apart.                     *)
GapWindow ==
  [][\A p \in Proc, e \in Engine :
       Started(p, e) /\ Len(starts[p][e]) = Concurrency[e]
         => now - Head(starts[p][e]) >= MinGap]_vars

(* Neither a Retry-After nor a hand-edited file parks an engine for longer *)
(* than the largest configured suspension.                                 *)
SuspensionBounded ==
  \A p \in Proc, e \in Engine : views[p][e].until <= SuspensionCap

(* No process loses a suspension that engines.json holds: while it runs,   *)
(* only a success recorded since, or the clamp, takes any of it away.      *)
SuspensionKept ==
  [][\A e \in Engine :
       SuspendedOnDisk(e) /\ disk'[e].until < disk[e].until
         => \/ disk'[e].success # None /\ disk'[e].success >= disk[e].at
            \/ disk'[e].until >= ToDisk(SuspensionCap)]_vars

(* The shared pacing and success clocks never go back, whichever process   *)
(* writes last.                                                            *)
ClockNeverRewinds ==
  [][\A e \in Engine : /\ disk'[e].request >= disk[e].request
                       /\ disk'[e].success >= disk[e].success]_vars

(* The suspension of e in engines.json, as a reader at time t clamps it.   *)
ReadAt(e, t) == FromDisk(EarlierOf(disk[e].until, ToDisk(t + MaxSuspension)))

(* A request goes out to a suspended engine only if engines.json got that  *)
(* suspension no earlier than the leg re-read the file in pace, or its     *)
(* process knows of a success that came after the suspension.              *)
DispatchHonoursSuspension ==
  [][\A p \in Proc, l \in Leg :
       LET e == LegEngine[l]  read == leg[p][l].refreshed IN
       leg[p][l].pc = "sleep" /\ leg'[p][l].pc = "wire" /\ ReadAt(e, read) > now
       => since[e] >= read \/ views[p][e].success > FromDisk(disk[e].at)]_vars
=============================================================================
