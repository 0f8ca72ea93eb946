-------------------------------- MODULE Fanout --------------------------------
(***************************************************************************)
(* One call of the parallel search fan-out (src/src/web/search/fanout).    *)
(* The call spawns one task per leg, joins them under a soft and a hard    *)
(* deadline, cancels what is still queued once it has an answer, and makes *)
(* one verdict of what the legs report.  A task is cancelled at its next   *)
(* await, so what it does between two awaits is never cut short: the steps *)
(* below end where the code awaits.  The engine's governor is what a leg   *)
(* sees of it: whether its engine is suspended, and for what reason.       *)
(***************************************************************************)
EXTENDS Integers, FiniteSets

CONSTANTS
  Queries,       \* how many Queries the call has
  Engine,        \* the enabled engines
  Vertical,      \* engines that join only the Queries their router accepts
  Routed,        \* the Queries it accepts
  Applies,       \* engines that apply a recency window
  Concurrency,   \* permits per engine
  MaxQueries,    \* Queries dispatched to one engine within a call
  SoftDeadline, HardDeadline,
  Backoff,       \* pause before the transport retry
  Shared,        \* TRUE: other runs change the suspensions meanwhile
  Cacheable      \* TRUE: a leg may find its rows in the cache

ASSUME FanoutAssumption ==
  /\ Queries \in Nat
  /\ IsFiniteSet(Engine)
  /\ Routed \subseteq 1..Queries
  /\ Vertical \subseteq Engine /\ Applies \subseteq Engine
  /\ Concurrency \in [Engine -> Nat \ {0}]
  /\ MaxQueries \in Nat
  /\ SoftDeadline \in Nat /\ HardDeadline \in Nat /\ SoftDeadline < HardDeadline
  /\ Backoff \in Nat
  /\ Shared \in BOOLEAN /\ Cacheable \in BOOLEAN

VARIABLES
  now,      \* time since the call started
  call,     \* the legs of the call, and whether recency narrowed the engines
  wall,     \* per engine: not suspended, or the reason it is
  state,    \* per leg: the atomic QUEUED / STARTED / CANCELLED
  leg,      \* per leg: its task
  aborted,  \* legs whose AbortHandle was used
  main,     \* the joining loop
  slot      \* per leg: by_leg, what the loop has joined

vars == <<now, call, wall, state, leg, aborted, main, slot>>

-----------------------------------------------------------------------------
(* A leg is the pair of its Query and its engine. *)
Query == 1..Queries
Slot == Query \X Engine
EngineOf(s) == s[2]

Answered == {"rows", "empty"}
(* "walled" is Suspended for a challenge, "suspended" any other reason,    *)
(* "transport" is Upstream without an HTTP status, "upstream" with one.    *)
Failed == {"challenge", "walled", "suspended", "throttled", "timeout",
           "upstream", "transport"}
Outcome == Answered \cup Failed
Wall == {"none", "challenge", "other"}

(* Where a task stands.  A task that is done has returned its outcome. *)
Await == {"spawned", "acquire", "gap", "wire", "backoff"}
Ended == {"absent", "done", "dropped", "panicked"}
PC == Await \cup {"pace", "start"} \cup Ended
Task == [pc : PC, retried : BOOLEAN, result : Outcome \cup {"none"}]

(* One leg per Query and engine; the vertical joins only Queries its       *)
(* router accepts and, with a recency window, only engines that apply it   *)
(* are asked.                                                              *)
LegsOf(recency) ==
  {s \in Slot : /\ recency => EngineOf(s) \in Applies
                /\ EngineOf(s) \in Vertical => s[1] \in Routed}

(* How many Queries the call sent to the leg's engine before this one. *)
Ordinal(s) == Cardinality({q \in Query : q < s[1] /\ <<q, EngineOf(s)>> \in call.legs})

Holding == {"pace", "gap", "start", "wire", "backoff"}
Holders(e) == {s \in call.legs : EngineOf(s) = e /\ leg[s].pc \in Holding}

Refusal(e) == IF wall[e] = "challenge" THEN "walled" ELSE "suspended"

Goto(s, pc) == leg' = [leg EXCEPT ![s].pc = pc]
Return(s, outcome) == leg' = [leg EXCEPT ![s].pc = "done", ![s].result = outcome]

(* Mutant: any suspension counts as a bot wall. *)
MutVerdict(report) ==
  IF \E s \in call.legs : report[s] \in Answered THEN "ok"
  ELSE IF ~call.narrowed
          /\ \A s \in call.legs : report[s] \in {"challenge", "walled", "suspended"}
  THEN "blocked"
  ELSE "failed"

(* AllFailed, and whether it is a bot wall: no leg answered and every      *)
(* error is a challenge, live or remembered by the governor.               *)
Verdict(report) ==
  IF \E s \in call.legs : report[s] \in Answered THEN "ok"
  ELSE IF ~call.narrowed
          /\ \A s \in call.legs : report[s] \in {"challenge", "walled"}
  THEN "blocked"
  ELSE "failed"

-----------------------------------------------------------------------------
(* The legs are spawned; a call without legs returns a note at once. *)
Init ==
  /\ now = 0
  /\ \E recency \in BOOLEAN :
       call = [legs |-> LegsOf(recency),
               narrowed |-> recency /\ Applies # Engine]
  /\ wall \in [Engine -> Wall]
  /\ state = [s \in Slot |-> "queued"]
  /\ leg = [s \in Slot |-> [pc |-> IF s \in call.legs THEN "spawned" ELSE "absent",
                            retried |-> FALSE, result |-> "none"]]
  /\ aborted = {}
  /\ main = [phase |-> IF call.legs = {} THEN "returned" ELSE "loop",
             soft |-> FALSE, success |-> FALSE, todo |-> {},
             verdict |-> IF call.legs = {} THEN "ok" ELSE "none"]
  /\ slot = [s \in Slot |-> "unset"]

(* leg::run up to the permit: cache, per-call cap, suspension. *)
Begin(s) ==
  /\ leg[s].pc = "spawned" /\ s \notin aborted
  /\ \/ Cacheable /\ Return(s, "rows")
     \/ IF Ordinal(s) >= MaxQueries THEN Return(s, "throttled")
        ELSE IF wall[EngineOf(s)] # "none" THEN Return(s, Refusal(EngineOf(s)))
        ELSE Goto(s, "acquire")
  /\ UNCHANGED <<now, call, wall, state, aborted, main, slot>>

(* With a permit free, acquire does not wait, nor pace with no gap left:   *)
(* an aborted task may get past them before it is dropped.                 *)
Acquire(s) ==
  /\ leg[s].pc = "acquire"
  /\ Cardinality(Holders(EngineOf(s))) < Concurrency[EngineOf(s)]
  /\ Goto(s, "pace")
  /\ UNCHANGED <<now, call, wall, state, aborted, main, slot>>

(* pace before its sleep: the suspension, then the run's request budget.   *)
Pace(s) ==
  /\ leg[s].pc = "pace"
  /\ IF wall[EngineOf(s)] # "none" THEN Return(s, Refusal(EngineOf(s)))
     ELSE Return(s, "throttled") \/ Goto(s, "gap")
  /\ UNCHANGED <<now, call, wall, state, aborted, main, slot>>

(* The gap is over and the request is reserved.  A retry goes to the wire; *)
(* a first request must still be marked started.                           *)
Proceed(s) ==
  /\ leg[s].pc = "gap"
  /\ Goto(s, IF leg[s].retried THEN "wire" ELSE "start")
  /\ UNCHANGED <<now, call, wall, state, aborted, main, slot>>

(* Mutant: a plain store instead of the exchange. *)
MutStart(s) ==
  /\ leg[s].pc = "start"
  /\ state' = [state EXCEPT ![s] = "started"]
  /\ Goto(s, "wire")
  /\ UNCHANGED <<now, call, wall, aborted, main, slot>>

(* The atomic exchange QUEUED -> STARTED, or a Timeout that sent nothing. *)
Start(s) ==
  /\ leg[s].pc = "start"
  /\ IF state[s] = "queued"
     THEN state' = [state EXCEPT ![s] = "started"] /\ Goto(s, "wire")
     ELSE UNCHANGED state /\ Return(s, "timeout")
  /\ UNCHANGED <<now, call, wall, aborted, main, slot>>

-----------------------------------------------------------------------------
(* What record_success and record_failure may leave of a suspension: the   *)
(* later expiry wins, and not every error with a status records one.       *)
Recorded(e, outcome) ==
  CASE outcome \in Answered -> {"none"}
    [] outcome = "challenge" -> IF wall[e] = "other" THEN {"challenge", "other"}
                                ELSE {"challenge"}
    [] outcome = "upstream" -> {wall[e], "other"}
    [] OTHER -> {wall[e]}

(* The leg settles: record, free the permit, store the rows, return. *)
Settle(s, outcome) ==
  /\ \E reason \in Recorded(EngineOf(s), outcome) :
       wall' = [wall EXCEPT ![EngineOf(s)] = reason]
  /\ Return(s, outcome)

Answer(s) ==
  /\ leg[s].pc = "wire" /\ s \notin aborted
  /\ \E outcome \in Answered \cup {"challenge", "upstream", "timeout"} :
       Settle(s, outcome)
  /\ UNCHANGED <<now, call, state, aborted, main, slot>>

(* No response: one retry, if it still fits before the hard deadline. *)
TransportFail(s) ==
  /\ leg[s].pc = "wire" /\ s \notin aborted
  /\ IF ~leg[s].retried /\ now + Backoff < HardDeadline
     THEN UNCHANGED wall /\ Goto(s, "backoff")
     ELSE Settle(s, "transport")
  /\ UNCHANGED <<now, call, state, aborted, main, slot>>

(* The retry passes the gate again; refused, the first failure stands. *)
Retry(s) ==
  /\ leg[s].pc = "backoff" /\ s \notin aborted
  /\ \/ Settle(s, "transport")
     \/ /\ wall[EngineOf(s)] = "none"
        /\ leg' = [leg EXCEPT ![s].pc = "gap", ![s].retried = TRUE]
        /\ UNCHANGED wall
  /\ UNCHANGED <<now, call, state, aborted, main, slot>>

Panic(s) ==
  /\ leg[s].pc = "wire" /\ s \notin aborted
  /\ Goto(s, "panicked")
  /\ UNCHANGED <<now, call, wall, state, aborted, main, slot>>

(* An aborted task is dropped at an await, and its permit with it. *)
Drop(s) ==
  /\ leg[s].pc \in Await /\ s \in aborted
  /\ Goto(s, "dropped")
  /\ UNCHANGED <<now, call, wall, state, aborted, main, slot>>

-----------------------------------------------------------------------------
(* The joining loop.  A success after the soft deadline, like the soft     *)
(* deadline after a success, sends it through cancel_queued, leg by leg.   *)
Joined(s) == slot[s] # "unset"

(* Mutant: a success after the soft deadline cancels nothing. *)
MutJoin(s) ==
  /\ main.phase = "loop" /\ s \in call.legs /\ ~Joined(s)
  /\ leg[s].pc \in {"done", "panicked", "dropped"}
  /\ slot' = [slot EXCEPT ![s] = CASE leg[s].pc = "done" -> leg[s].result
                                   [] leg[s].pc = "panicked" -> "upstream"
                                   [] OTHER -> "cut"]
  /\ main' = [main EXCEPT !.success = @ \/ leg[s].result \in Answered]
  /\ UNCHANGED <<now, call, wall, state, leg, aborted>>

Join(s) ==
  /\ main.phase = "loop" /\ s \in call.legs /\ ~Joined(s)
  /\ \/ /\ leg[s].pc = "done"
        /\ slot' = [slot EXCEPT ![s] = leg[s].result]
        /\ LET ok == leg[s].result \in Answered
           IN  main' = [main EXCEPT
                          !.success = @ \/ ok,
                          !.phase = IF ok /\ main.soft THEN "cancel" ELSE @,
                          !.todo = IF ok /\ main.soft THEN call.legs ELSE @]
     \/ /\ leg[s].pc = "panicked"
        /\ slot' = [slot EXCEPT ![s] = "upstream"]
        /\ UNCHANGED main
     \/ /\ leg[s].pc = "dropped"
        /\ slot' = [slot EXCEPT ![s] = "cut"]
        /\ UNCHANGED main
  /\ UNCHANGED <<now, call, wall, state, leg, aborted>>

(* Mutant: the soft deadline cancels whether or not a leg has succeeded. *)
MutSoft ==
  /\ main.phase = "loop" /\ ~main.soft /\ now >= SoftDeadline
  /\ main' = [main EXCEPT !.soft = TRUE, !.phase = "cancel", !.todo = call.legs]
  /\ UNCHANGED <<now, call, wall, state, leg, aborted, slot>>

Soft ==
  /\ main.phase = "loop" /\ ~main.soft /\ now >= SoftDeadline
  /\ main' = [main EXCEPT !.soft = TRUE,
                          !.phase = IF main.success THEN "cancel" ELSE @,
                          !.todo = IF main.success THEN call.legs ELSE @]
  /\ UNCHANGED <<now, call, wall, state, leg, aborted, slot>>

(* The atomic exchange QUEUED -> CANCELLED, then the abort. *)
Cancel(s) ==
  /\ main.phase = "cancel" /\ s \in main.todo
  /\ IF state[s] = "queued"
     THEN state' = [state EXCEPT ![s] = "cancelled"] /\ aborted' = aborted \cup {s}
     ELSE UNCHANGED <<state, aborted>>
  /\ main' = [main EXCEPT !.todo = @ \ {s},
                          !.phase = IF main.todo = {s} THEN "loop" ELSE @]
  /\ UNCHANGED <<now, call, wall, leg, slot>>

(* Legs cut by a deadline report a Timeout. *)
Report == [s \in Slot |-> IF slot[s] \in {"unset", "cut"} THEN "timeout" ELSE slot[s]]

AllJoined == \A s \in call.legs : Joined(s)

(* Mutants: the loop never looks at the hard deadline; it leaves the       *)
(* remaining tasks alone.                                                  *)
MutFinishPatient ==
  /\ main.phase = "loop" /\ AllJoined
  /\ aborted' = call.legs
  /\ main' = [main EXCEPT !.phase = "returned", !.verdict = Verdict(Report)]
  /\ UNCHANGED <<now, call, wall, state, leg, slot>>

MutFinishDetached ==
  /\ main.phase = "loop"
  /\ AllJoined \/ (main.soft /\ now >= HardDeadline)
  /\ main' = [main EXCEPT !.phase = "returned", !.verdict = Verdict(Report)]
  /\ UNCHANGED <<now, call, wall, state, leg, aborted, slot>>

(* Nothing left to join, or the hard deadline: abort what runs and judge. *)
Finish ==
  /\ main.phase = "loop"
  /\ AllJoined \/ (main.soft /\ now >= HardDeadline)
  /\ aborted' = call.legs
  /\ main' = [main EXCEPT !.phase = "returned", !.verdict = Verdict(Report)]
  /\ UNCHANGED <<now, call, wall, state, leg, slot>>

(* Another process on the cache root suspends or clears an engine. *)
Elsewhere ==
  /\ Shared
  /\ \E e \in Engine, reason \in Wall :
       wall[e] # reason /\ wall' = [wall EXCEPT ![e] = reason]
  /\ UNCHANGED <<now, call, state, leg, aborted, main, slot>>

Tick ==
  /\ now < HardDeadline
  /\ now' = now + 1
  /\ UNCHANGED <<call, wall, state, leg, aborted, main, slot>>

-----------------------------------------------------------------------------
(* What the runtime does with a task on its own, and what needs an answer  *)
(* from the network, a permit or another leg.                              *)
Scheduled(s) == Begin(s) \/ Pace(s) \/ Proceed(s) \/ Start(s) \/ Retry(s) \/ Drop(s)
Awaited(s) == Acquire(s) \/ Answer(s) \/ TransportFail(s) \/ Panic(s)
Main == Soft \/ Finish \/ \E s \in Slot : Join(s) \/ Cancel(s)

Next ==
  \/ \E s \in Slot : Scheduled(s) \/ Awaited(s)
  \/ Main \/ Elsewhere \/ Tick

Spec == Init /\ [][Next]_vars

(* The runtime runs every woken task and fires timers; it does not promise *)
(* that any engine ever answers.                                           *)
Fairness ==
  /\ WF_vars(Main) /\ WF_vars(Tick)
  /\ \A s \in Slot : WF_vars(Scheduled(s))

FairSpec == Spec /\ Fairness

-----------------------------------------------------------------------------
(* Every variable stays in its type. *)
TypeOK ==
  /\ now \in 0..HardDeadline
  /\ call \in [legs : SUBSET Slot, narrowed : BOOLEAN]
  /\ wall \in [Engine -> Wall]
  /\ state \in [Slot -> {"queued", "started", "cancelled"}]
  /\ leg \in [Slot -> Task]
  /\ aborted \subseteq Slot
  /\ main \in [phase : {"loop", "cancel", "returned"}, soft : BOOLEAN,
               success : BOOLEAN, todo : SUBSET Slot,
               verdict : {"none", "ok", "failed", "blocked"}]
  /\ slot \in [Slot -> Outcome \cup {"unset", "cut"}]

(* A request of s is, or was, on the wire. *)
Dispatched(s) ==
  \/ leg[s].pc \in {"wire", "backoff", "panicked"}
  \/ leg[s].pc = "gap" /\ leg[s].retried
  \/ leg[s].pc = "done" /\ leg[s].result \in {"empty", "challenge", "upstream", "transport"}

(* A leg the soft deadline cancelled never sends, even when the abort      *)
(* lands after pace let it through; a leg whose request is on the wire is  *)
(* aborted only when the call is over.                                     *)
CancelledUnsent ==
  /\ \A s \in Slot : state[s] = "cancelled" => ~Dispatched(s)
  /\ main.phase # "returned" =>
       \A s \in aborted : state[s] = "cancelled" /\ ~Dispatched(s)

(* Once the soft deadline has passed and a leg has succeeded, the loop     *)
(* waits for no leg that is still queued for its engine.                   *)
NoneLeftQueued ==
  main.phase = "loop" /\ main.soft /\ main.success
    => \A s \in call.legs : state[s] # "queued"

(* The soft deadline never costs the call its answer. *)
CancelKeepsAnswer ==
  main.phase = "returned" /\ (\E s \in Slot : state[s] = "cancelled")
    => main.verdict = "ok"

(* With no other run around, a call that ends as a bot wall leaves every   *)
(* engine it asked suspended for a challenge.                              *)
BlockedMeansWalled ==
  ~Shared /\ main.verdict = "blocked"
    => \A s \in call.legs : wall[EngineOf(s)] = "challenge"

(* The call returns even if no engine ever answers, and no task outlives   *)
(* it for good: each one ends, and frees its engine's permit.              *)
CallEnds == <>(main.phase = "returned" /\ \A s \in Slot : leg[s].pc \in Ended)
=============================================================================
