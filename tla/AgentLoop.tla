------------------------------ MODULE AgentLoop ------------------------------
(***************************************************************************)
(* The Turns of one Session (src/src/research/agent_loop/runner.rs and     *)
(* dispatch.rs) and the exit they end in (src/src/research/run.rs).  A     *)
(* Turn asks the model through the gateway, then runs its tool calls, and  *)
(* only these waits take time.                                             *)
(***************************************************************************)
EXTENDS Gateway

CONSTANTS
  MaxTurns, MaxTurnsCap,  \* --max-turns, --max-turns-cap
  SearchTurnBonus,        \* SEARCH_TURN_BONUS
  MaxRepairs,             \* max_repairs
  MaxToolsPerTurn,        \* max_tools_per_turn
  ToolTimeout             \* tool_timeout

ASSUME AgentLoopAssumption ==
  /\ MaxTurns \in Nat \ {0} /\ MaxTurnsCap \in Nat /\ MaxTurns <= MaxTurnsCap
  /\ SearchTurnBonus \in Nat
  /\ MaxRepairs \in Nat
  /\ MaxToolsPerTurn \in Nat
  /\ ToolTimeout \in Nat

VARIABLES
  pc,
  turn, budget,  \* this Turn, and the turn budget it started under
  reserve,       \* deadline_final: it started in the final reserve
  repairs,       \* consecutive_failures
  searches,      \* successful_searches
  blocked, hits, sources,  \* search_blocked, had_search_hits, fetched Evidence
  told,          \* the turns left the transcript's last note names, 0: no note
  calls,         \* tool calls of this Turn still to run
  won, lost,     \* had_success, failure is Some
  cut,           \* when the running tool is cut
  exit,          \* the outcome of the Session
  replied,       \* history: when the last reply arrived
  good           \* history: the last Turn in which a call succeeded

loop == <<turn, budget, reserve, repairs, searches, blocked, hits, sources, told, good>>
tools == <<calls, won, lost, cut>>
vars == <<now, gateway, pc, loop, tools, exit, replied>>

-----------------------------------------------------------------------------
AtLeast(a, b) == IF a < b THEN b ELSE a

TurnBudget(n) ==
  AtMost(MaxTurns + AtLeast(0, n - 1) * SearchTurnBonus, MaxTurnsCap)

(* One model call is kept back, at most a quarter of the run. *)
FinalReserve == AtMost(RequestTimeout, RunTime \div 4)
Cutoff == Deadline - FinalReserve

InFinalReserve == now >= Cutoff

OutOfBudget == turn >= budget

Final == OutOfBudget \/ reserve

(* Mutant: the note is written against the budget the Turn started with. *)
MutTurnsLeft(n) == IF InFinalReserve THEN 1 ELSE budget - turn

(* The turns left the model is told, after n successful searches. *)
TurnsLeft(n) == IF InFinalReserve THEN 1 ELSE TurnBudget(n) - turn

Loop == {"turn", "model", "dispatch", "tool"}
Exit == {"ok", "search_blocked", "tool_failure", "budget_exhausted", "deadline_exceeded",
         "gateway_exhausted", "gateway_rejected", "interrupted"}

End(outcome) == pc' = "done" /\ exit' = outcome

Init ==
  /\ now = 0
  /\ GatewayInit
  /\ pc = "turn"
  /\ turn = 0 /\ budget = MaxTurns /\ reserve = FALSE /\ repairs = 0 /\ searches = 0
  /\ blocked = FALSE /\ hits = FALSE /\ sources = FALSE
  /\ told = 0 /\ good = 0
  /\ calls = 0 /\ won = FALSE /\ lost = FALSE /\ cut = 0
  /\ exit = "none" /\ replied = 0

-----------------------------------------------------------------------------
DeadlinePassed ==
  /\ pc = "turn" /\ now >= Deadline
  /\ End("deadline_exceeded")
  /\ UNCHANGED <<now, gateway, loop, tools, replied>>

StartTurn ==
  /\ pc = "turn" /\ now < Deadline
  /\ pc' = "model"
  /\ turn' = turn + 1 /\ budget' = TurnBudget(searches) /\ reserve' = InFinalReserve
  /\ Ask
  /\ UNCHANGED <<now, repairs, searches, blocked, hits, sources, told, good, tools,
                 exit, replied>>

GatewayStep ==
  /\ pc = "model"
  /\ Network \/ Local
  /\ UNCHANGED <<pc, loop, tools, exit, replied>>

(* Exit of a model call that failed. *)
ErrorExit(error) ==
  IF error = "timeout" /\ now >= Deadline THEN "deadline_exceeded"
  ELSE IF error = "rejected" THEN "gateway_rejected"
  ELSE "gateway_exhausted"

GatewayFailed ==
  /\ pc = "model" /\ phase = "answered" /\ result # "reply"
  /\ End(ErrorExit(result))
  /\ UNCHANGED <<now, gateway, loop, tools, replied>>

Reply == pc = "model" /\ phase = "answered" /\ result = "reply" /\ replied' = now

(* No tool call, and the text parses: the run has its answer.  A run that  *)
(* met a bot wall and has neither a Hit nor a page must not exit 0.        *)
Answer ==
  /\ Reply
  /\ End(IF blocked /\ ~sources /\ ~hits THEN "search_blocked" ELSE "ok")
  /\ UNCHANGED <<now, gateway, loop, tools>>

(* No answer in the text, or tool calls on the final Turn. *)
NoAnswer ==
  /\ Reply
  /\ repairs' = repairs + 1
  /\ IF repairs' > MaxRepairs THEN End("tool_failure") /\ UNCHANGED told
     ELSE IF Final THEN
       /\ End(IF reserve THEN "deadline_exceeded" ELSE "budget_exhausted")
       /\ UNCHANGED told
     ELSE pc' = "turn" /\ told' = TurnsLeft(searches) /\ UNCHANGED exit
  /\ UNCHANGED <<now, gateway, turn, budget, reserve, searches, blocked, hits, sources,
                 good, tools>>

(* Calls past the per-turn cap get a message and are not run. *)
Runs == 1..AtLeast(1, MaxToolsPerTurn)

ToolCalls ==
  /\ Reply /\ ~Final
  /\ calls' \in Runs
  /\ won' = FALSE /\ lost' = FALSE
  /\ pc' = "dispatch"
  /\ UNCHANGED <<now, gateway, loop, cut, exit>>

-----------------------------------------------------------------------------
(* A tool the run does not offer. *)
Disallowed ==
  /\ pc = "dispatch" /\ calls > 0
  /\ calls' = calls - 1 /\ lost' = TRUE
  /\ UNCHANGED <<now, gateway, pc, loop, won, cut, exit, replied>>

ToolEnd == now + AtMost(ToolTimeout, AtLeast(0, Cutoff - now))

StartTool ==
  /\ pc = "dispatch" /\ calls > 0
  /\ pc' = "tool" /\ cut' = ToolEnd /\ calls' = calls - 1
  /\ UNCHANGED <<now, gateway, loop, won, lost, exit, replied>>

(* What an executed call returns.  A note is a SearchNote or a repeated    *)
(* fetch: a success that yields neither a Hit nor a page.                  *)
Success == {"hits", "no hits", "page", "note"}
Failure == {"walled", "failed"}

ToolReturns ==
  /\ pc = "tool"
  /\ \E r \in Success \cup Failure :
       /\ searches' = searches + (IF r \in {"hits", "no hits"} THEN 1 ELSE 0)
       /\ hits' = (hits \/ r = "hits")
       /\ blocked' = (blocked \/ r = "walled")
       /\ sources' = (sources \/ r = "page")
       /\ won' = (won \/ r \in Success)
       /\ lost' = (lost \/ r \in Failure)
  /\ pc' = "dispatch"
  /\ UNCHANGED <<now, gateway, turn, budget, reserve, repairs, told, good, calls, cut,
                 exit, replied>>

ToolCut ==
  /\ pc = "tool" /\ now >= cut
  /\ lost' = TRUE /\ pc' = "dispatch"
  /\ UNCHANGED <<now, gateway, loop, calls, won, cut, exit, replied>>

(* A success anywhere in the Turn resets the count. *)
RepairsAfter == IF won THEN 0 ELSE IF lost THEN repairs + 1 ELSE repairs

SettleTurn ==
  /\ pc = "dispatch" /\ calls = 0
  /\ repairs' = RepairsAfter
  /\ good' = IF won THEN turn ELSE good
  /\ told' = TurnsLeft(searches)
  /\ IF lost /\ repairs' > MaxRepairs THEN End("tool_failure")
     ELSE pc' = "turn" /\ UNCHANGED exit
  /\ UNCHANGED <<now, gateway, turn, budget, reserve, searches, blocked, hits, sources,
                 tools, replied>>

(* ctrl_c, seen while the Session waits; work that is ready goes first. *)
Interrupt ==
  /\ pc = "tool" \/ (pc = "model" /\ phase \in Waiting)
  /\ End("interrupted")
  /\ UNCHANGED <<now, gateway, loop, tools, replied>>

(* Time passes in a wait, up to its timer. *)
Tick ==
  /\ \/ pc = "model" /\ phase \in Waiting /\ now < until
     \/ pc = "tool" /\ now < cut
  /\ now' = now + 1
  /\ UNCHANGED <<gateway, pc, loop, tools, exit, replied>>

-----------------------------------------------------------------------------
Next ==
  \/ DeadlinePassed \/ StartTurn
  \/ GatewayStep \/ GatewayFailed
  \/ Answer \/ NoAnswer \/ ToolCalls
  \/ Disallowed \/ StartTool \/ ToolReturns \/ ToolCut \/ SettleTurn
  \/ Interrupt \/ Tick

Spec == Init /\ [][Next]_vars

(* The runtime goes on with a task that need not wait, and fires timers;   *)
(* neither the gateway nor a tool is assumed to answer.                    *)
Fairness ==
  /\ WF_vars(Tick)
  /\ WF_vars(DeadlinePassed \/ StartTurn \/ GatewayFailed)
  /\ WF_vars(pc = "model" /\ Local /\ UNCHANGED <<pc, loop, tools, exit, replied>>)
  /\ WF_vars(Answer \/ NoAnswer \/ ToolCalls)
  /\ WF_vars(Disallowed \/ StartTool \/ ToolCut \/ SettleTurn)

FairSpec == Spec /\ Fairness

-----------------------------------------------------------------------------
(* Every variable stays in its type. *)
TypeOK ==
  /\ now \in Nat
  /\ GatewayType
  /\ pc \in Loop \cup {"done"}
  /\ turn \in Nat /\ budget \in Nat /\ reserve \in BOOLEAN
  /\ repairs \in Nat /\ searches \in Nat
  /\ blocked \in BOOLEAN /\ hits \in BOOLEAN /\ sources \in BOOLEAN
  /\ told \in Int
  /\ calls \in 0..AtLeast(1, MaxToolsPerTurn)
  /\ won \in BOOLEAN /\ lost \in BOOLEAN /\ cut \in Nat
  /\ exit \in Exit \cup {"none"}
  /\ replied \in Nat /\ good \in Nat

(* However tool timeouts, attempts, backoffs and Turns add up, no wait of  *)
(* the Session lasts past --deadline-secs.                                 *)
EndsByDeadline == now <= Deadline

(* The loop never asks the model more often than the budget its searches   *)
(* earned allows, nor than the cap, and says exit 5 only at that budget.   *)
TurnsWithinBudget ==
  /\ turn <= TurnBudget(searches)
  /\ TurnBudget(searches) <= MaxTurnsCap
  /\ pc = "turn" /\ turn > 0 => turn < TurnBudget(searches)
  /\ exit = "budget_exhausted" => turn = TurnBudget(searches)

(* What the model was told holds: after "1 turn left" the next Turn is the *)
(* final one, and no Turn is final for the budget without that note.       *)
NoteHonoured ==
  pc \in {"model", "dispatch", "tool"} /\ turn > 1
    => /\ told > 0
       /\ told = 1 => Final
       /\ OutOfBudget => told = 1

(* Tools never eat into the final reserve: a Turn that follows tools       *)
(* starts before it, unless the reply that asked for them came too late.   *)
ToolsLeaveTheReserve ==
  pc \in {"turn", "dispatch", "tool"} => now <= AtLeast(Cutoff, replied)

(* The repair count is the number of Turns since a call last succeeded,    *)
(* and a run given up for its failures made MaxRepairs + 1 of them.        *)
RepairsCounted ==
  /\ pc = "turn" => repairs = turn - good /\ repairs <= MaxRepairs
  /\ exit = "tool_failure" => turn - good = MaxRepairs + 1

(* The run ends, whatever the model and the tools do. *)
RunEnds == <>(pc = "done")
=============================================================================
