--------------------------- MODULE AgentLoopProofs ---------------------------
(***************************************************************************)
(* Theorems of AgentLoop, the Turns of a Session, and of Evidence, the     *)
(* pages its calls read, for every value of their constants.               *)
(***************************************************************************)
EXTENDS AgentLoop, Evidence, SequenceTheorems, WellFoundedInduction, TLAPS

(* The budget is at least one Turn and at most the cap, and one more       *)
(* successful search never shrinks it.                                     *)
LEMMA TurnBudgetGrows ==
  ASSUME NEW n \in Nat
  PROVE  /\ TurnBudget(n) \in Nat
         /\ 1 <= TurnBudget(n) /\ TurnBudget(n) <= MaxTurnsCap
         /\ TurnBudget(n) <= TurnBudget(n + 1)
<1> DEFINE bonus(k) == AtLeast(0, k - 1) * SearchTurnBonus
<1>1. bonus(n) \in Nat /\ bonus(n + 1) \in Nat /\ bonus(n) <= bonus(n + 1)
  <2>1. CASE n = 0
    BY <2>1, AgentLoopAssumption DEF AtLeast
  <2>2. CASE n > 0
    <3>1. bonus(n) = (n - 1) * SearchTurnBonus /\ bonus(n + 1) = n * SearchTurnBonus
      BY <2>2 DEF AtLeast
    <3>2. n * SearchTurnBonus = (n - 1) * SearchTurnBonus + SearchTurnBonus
      BY <2>2, AgentLoopAssumption
    <3>3. (n - 1) * SearchTurnBonus \in Nat
      BY <2>2, AgentLoopAssumption
    <3> QED BY <3>1, <3>2, <3>3, AgentLoopAssumption
  <2> QED BY <2>1, <2>2
<1>2. /\ TurnBudget(n) = AtMost(MaxTurns + bonus(n), MaxTurnsCap)
      /\ TurnBudget(n + 1) = AtMost(MaxTurns + bonus(n + 1), MaxTurnsCap)
  BY DEF TurnBudget
<1> HIDE DEF bonus
<1> QED BY <1>1, <1>2, AgentLoopAssumption DEF AtMost

(* The final reserve lies within the run. *)
LEMMA CutoffInRun == Cutoff \in Nat /\ Cutoff < Deadline /\ Deadline \in Nat
<1>1. RunTime \div 4 \in 1..RunTime
  BY GatewayAssumption
<1> QED BY <1>1, GatewayAssumption DEF Cutoff, Deadline, FinalReserve, AtMost

-----------------------------------------------------------------------------
(* Type correctness, action by action. *)

LEMMA AttemptFailsType ==
  ASSUME NEW error \in Error, GatewayType, now \in Nat, phase \in Waiting,
         AttemptFails(error)
  PROVE  GatewayType'
<1>1. timeouts' \in Nat
  BY DEF AttemptFails, GatewayType
<1>2. PICK delay \in Backoff :
        \/ Return(error)
        \/ phase' = "backoff" /\ until' = now + delay /\ UNCHANGED <<attempt, result>>
  BY DEF AttemptFails
<1>3. now + delay \in Nat
  BY GatewayAssumption
<1> QED BY <1>1, <1>2, <1>3 DEF GatewayType, Return, Result, Error, Waiting

LEMMA GatewayStepType ==
  ASSUME GatewayType, now \in Nat, Network \/ Local
  PROVE  GatewayType' /\ now' = now
<1>1. CASE SendAttempt
  <2>1. now < Deadline => AttemptEnd \in Nat
    BY GatewayAssumption DEF AttemptEnd, AtMost, Deadline
  <2>2. now < Deadline \/ now >= Deadline
    BY GatewayAssumption DEF Deadline
  <2> QED BY <1>1, <2>1, <2>2
          DEF SendAttempt, GatewayType, Return, Result, Error, Waiting
<1>2. CASE Replies
  BY <1>2 DEF Replies, GatewayType, Return, Result
<1>3. CASE Fails
  BY <1>3, AttemptFailsType DEF Fails, Waiting
<1>4. CASE ErrorStatus
  BY <1>4 DEF ErrorStatus, GatewayType, Waiting
<1>5. CASE ErrorBody
  BY <1>5, AttemptFailsType DEF ErrorBody, Waiting, Error
<1>6. CASE AttemptCut
  BY <1>6, AttemptFailsType DEF AttemptCut, Waiting, Error
<1>7. CASE NextAttempt
  BY <1>7 DEF NextAttempt, GatewayType
<1> QED BY <1>1, <1>2, <1>3, <1>4, <1>5, <1>6, <1>7 DEF Network, Local

LEMMA AskType == GatewayType /\ Ask => GatewayType'
  BY DEF GatewayType, Ask, Result

LEMMA GatewayKept == GatewayType /\ UNCHANGED gateway => GatewayType'
  BY DEF GatewayType, gateway

LEMMA TurnsLeftType == TypeOK => TurnsLeft(searches) \in Int
<1> SUFFICES ASSUME TypeOK PROVE TurnsLeft(searches) \in Int
  OBVIOUS
<1>1. TurnBudget(searches) \in Nat
  BY TurnBudgetGrows DEF TypeOK
<1> QED BY <1>1 DEF TurnsLeft, TypeOK

LEMMA TypeInit == Init => TypeOK
<1> SUFFICES ASSUME Init PROVE TypeOK
  OBVIOUS
<1>1. GatewayType
  BY DEF Init, GatewayInit, GatewayType, Result
<1>2. calls \in 0..AtLeast(1, MaxToolsPerTurn)
  BY AgentLoopAssumption DEF Init, AtLeast
<1>3. budget \in Nat
  BY AgentLoopAssumption DEF Init
<1>4. /\ reserve \in BOOLEAN /\ blocked \in BOOLEAN /\ hits \in BOOLEAN
      /\ sources \in BOOLEAN /\ won \in BOOLEAN /\ lost \in BOOLEAN
  BY DEF Init
<1>5. /\ now \in Nat /\ turn \in Nat /\ repairs \in Nat /\ searches \in Nat /\ told \in Int
      /\ cut \in Nat /\ replied \in Nat /\ good \in Nat
  BY DEF Init
<1>6. pc \in Loop \cup {"done"} /\ exit \in Exit \cup {"none"}
  BY DEF Init, Loop
<1> QED BY <1>1, <1>2, <1>3, <1>4, <1>5, <1>6 DEF TypeOK

LEMMA TypeStep == TypeOK /\ [Next]_vars => TypeOK'
<1> SUFFICES ASSUME TypeOK, [Next]_vars PROVE TypeOK'
  OBVIOUS
<1> USE DEF TypeOK, loop, tools, End, Loop, Exit
<1>1. CASE DeadlinePassed
  BY <1>1, GatewayKept DEF DeadlinePassed
<1>2. CASE StartTurn
  <2>1. TurnBudget(searches) \in Nat
    BY TurnBudgetGrows
  <2>2. InFinalReserve \in BOOLEAN
    BY DEF InFinalReserve
  <2> QED BY <1>2, <2>1, <2>2, AskType DEF StartTurn
<1>3. CASE GatewayStep
  BY <1>3, GatewayStepType DEF GatewayStep
<1>4. CASE GatewayFailed
  <2>1. ErrorExit(result) \in Exit
    BY DEF ErrorExit
  <2> QED BY <1>4, <2>1, GatewayKept DEF GatewayFailed
<1>5. CASE Answer
  BY <1>5, GatewayKept DEF Answer, Reply
<1>6. CASE NoAnswer
  <2>1. GatewayType' /\ now' \in Nat /\ replied' \in Nat
    BY <1>6, GatewayKept DEF NoAnswer, Reply
  <2>2. repairs' \in Nat
    BY <1>6 DEF NoAnswer
  <2>3. TurnsLeft(searches) \in Int
    BY TurnsLeftType
  <2>4. told' \in Int /\ pc' \in Loop \cup {"done"} /\ exit' \in Exit \cup {"none"}
    BY <1>6, <2>3 DEF NoAnswer
  <2> QED BY <1>6, <2>1, <2>2, <2>4 DEF NoAnswer
<1>7. CASE ToolCalls
  <2>1. calls' \in 0..AtLeast(1, MaxToolsPerTurn)
    BY <1>7, AgentLoopAssumption DEF ToolCalls, Runs, AtLeast
  <2>2. GatewayType' /\ now' \in Nat /\ replied' \in Nat
    BY <1>7, GatewayKept DEF ToolCalls, Reply
  <2>3. won' \in BOOLEAN /\ lost' \in BOOLEAN
    BY <1>7 DEF ToolCalls
  <2> QED BY <1>7, <2>1, <2>2, <2>3 DEF ToolCalls
<1>8. CASE Disallowed
  BY <1>8, GatewayKept, AgentLoopAssumption DEF Disallowed, AtLeast
<1>9. CASE StartTool
  <2>1. ToolEnd \in Nat
    BY AgentLoopAssumption, CutoffInRun DEF ToolEnd, AtMost, AtLeast
  <2>2. calls' \in 0..AtLeast(1, MaxToolsPerTurn)
    BY <1>9, AgentLoopAssumption DEF StartTool, AtLeast
  <2> QED BY <1>9, <2>1, <2>2, GatewayKept DEF StartTool
<1>10. CASE ToolReturns
  <2>1. PICK r \in Success \cup Failure :
          /\ searches' = searches + (IF r \in {"hits", "no hits"} THEN 1 ELSE 0)
          /\ hits' = (hits \/ r = "hits")
          /\ blocked' = (blocked \/ r = "walled")
          /\ sources' = (sources \/ r = "page")
          /\ won' = (won \/ r \in Success)
          /\ lost' = (lost \/ r \in Failure)
    BY <1>10 DEF ToolReturns
  <2>2. searches' \in Nat
    <3>1. searches' = searches + 1 \/ searches' = searches + 0
      BY <2>1, Zenon
    <3> QED BY <3>1
  <2>3. /\ hits' \in BOOLEAN /\ blocked' \in BOOLEAN /\ sources' \in BOOLEAN
        /\ won' \in BOOLEAN /\ lost' \in BOOLEAN
    BY <2>1, Zenon
  <2> QED BY <1>10, <2>2, <2>3, GatewayKept DEF ToolReturns
<1>11. CASE ToolCut
  BY <1>11, GatewayKept DEF ToolCut
<1>12. CASE SettleTurn
  <2>1. repairs' \in Nat
    BY <1>12 DEF SettleTurn, RepairsAfter
  <2>2. told' \in Int
    BY <1>12, TurnsLeftType DEF SettleTurn
  <2>3. good' \in Nat
    BY <1>12 DEF SettleTurn
  <2>4. pc' \in Loop \cup {"done"} /\ exit' \in Exit \cup {"none"}
    BY <1>12 DEF SettleTurn
  <2> QED BY <1>12, <2>1, <2>2, <2>3, <2>4, GatewayKept DEF SettleTurn
<1>13. CASE Interrupt
  BY <1>13, GatewayKept DEF Interrupt
<1>14. CASE Tick
  BY <1>14, GatewayKept DEF Tick
<1>15. CASE UNCHANGED vars
  BY <1>15, GatewayKept DEF vars
<1> QED BY <1>1, <1>2, <1>3, <1>4, <1>5, <1>6, <1>7, <1>8, <1>9, <1>10, <1>11,
           <1>12, <1>13, <1>14, <1>15 DEF Next

(* Every variable of AgentLoop stays in its type. *)
THEOREM TypeCorrect == Spec => []TypeOK
  BY TypeInit, TypeStep, PTL DEF Spec

-----------------------------------------------------------------------------
(* No timer is ever set past the run deadline. *)
TimeInv == now <= Deadline /\ until <= Deadline /\ cut <= Deadline

LEMMA AttemptFailsInTime ==
  ASSUME NEW error \in Error, TypeOK, TimeInv, AttemptFails(error)
  PROVE  until' <= Deadline
<1>1. PICK delay \in Backoff :
        \/ until' = until
        \/ ~(Deadline - now <= delay) /\ until' = now + delay
  BY DEF AttemptFails, Return
<1>2. delay \in Nat /\ now \in Nat /\ Deadline \in Nat
  BY GatewayAssumption, CutoffInRun DEF TypeOK
<1> QED BY <1>1, <1>2 DEF TimeInv

LEMMA GatewayInTime ==
  ASSUME TypeOK, TimeInv, Network \/ Local
  PROVE  until' <= Deadline
<1>1. CASE SendAttempt
  <2>1. now \in Nat /\ Deadline \in Nat /\ RequestTimeout \in Nat
    BY GatewayAssumption, CutoffInRun DEF TypeOK
  <2>2. now < Deadline => AttemptEnd <= Deadline
    BY <2>1 DEF AttemptEnd, AtMost
  <2> QED BY <1>1, <2>1, <2>2 DEF SendAttempt, Return, TimeInv
<1>2. CASE Fails
  BY <1>2, AttemptFailsInTime DEF Fails
<1>3. CASE ErrorBody
  BY <1>3, AttemptFailsInTime DEF ErrorBody, Error
<1>4. CASE AttemptCut
  BY <1>4, AttemptFailsInTime DEF AttemptCut, Error
<1>5. CASE Replies \/ ErrorStatus \/ NextAttempt
  BY <1>5 DEF Replies, ErrorStatus, NextAttempt, Return, TimeInv
<1> QED BY <1>1, <1>2, <1>3, <1>4, <1>5 DEF Network, Local

LEMMA TimeStep == TypeOK /\ TimeInv /\ [Next]_vars => TimeInv'
<1> SUFFICES ASSUME TypeOK, TimeInv, [Next]_vars PROVE TimeInv'
  OBVIOUS
<1>0. Deadline' = Deadline
  BY DEF Deadline
<1>1. CASE StartTurn
  BY <1>1, <1>0 DEF StartTurn, Ask, TimeInv, tools
<1>2. CASE GatewayStep
  BY <1>2, <1>0, GatewayInTime, GatewayStepType DEF GatewayStep, TimeInv, tools, TypeOK
<1>3. CASE StartTool
  <2>1. now \in Nat /\ Deadline \in Nat /\ Cutoff \in Nat /\ Cutoff < Deadline
    BY CutoffInRun DEF TypeOK
  <2>2. ToolEnd <= Deadline
    BY <2>1, AgentLoopAssumption DEF ToolEnd, AtMost, AtLeast, TimeInv
  <2> QED BY <1>3, <1>0, <2>2 DEF StartTool, TimeInv, gateway
<1>4. CASE Tick
  <2>1. now \in Nat /\ until \in Nat /\ cut \in Nat /\ Deadline \in Nat
    BY CutoffInRun DEF TypeOK, GatewayType
  <2>2. now' <= Deadline
    BY <1>4, <2>1 DEF Tick, TimeInv
  <2> QED BY <1>4, <1>0, <2>2 DEF Tick, TimeInv, gateway, tools
<1>5. CASE \/ DeadlinePassed \/ GatewayFailed \/ Answer \/ NoAnswer \/ ToolCalls
           \/ Disallowed \/ ToolReturns \/ ToolCut \/ SettleTurn \/ Interrupt
           \/ UNCHANGED vars
  BY <1>5, <1>0
  DEF DeadlinePassed, GatewayFailed, Answer, NoAnswer, ToolCalls, Disallowed, ToolReturns,
      ToolCut, SettleTurn, Interrupt, vars, gateway, tools, TimeInv
<1> QED BY <1>1, <1>2, <1>3, <1>4, <1>5 DEF Next

(* The run is over by its deadline: tool timeouts, attempts and backoffs   *)
(* are each cut short enough, in every Turn.                               *)
THEOREM RunsInTime == Spec => []EndsByDeadline
<1>1. Init => TimeInv
  BY CutoffInRun DEF Init, GatewayInit, TimeInv
<1>2. TypeOK /\ TimeInv /\ [Next]_vars => TimeInv'
  BY TimeStep
<1>3. TimeInv => EndsByDeadline
  BY DEF TimeInv, EndsByDeadline
<1> QED BY <1>1, <1>2, <1>3, TypeCorrect, PTL DEF Spec

-----------------------------------------------------------------------------
(* A tool is cut where the reserve starts, or at once if the reply that    *)
(* asked for it came later.                                                *)
ReserveInv ==
  /\ ToolsLeaveTheReserve
  /\ pc = "tool" => cut <= AtLeast(Cutoff, replied)

LEMMA ReserveStep == TypeOK /\ ReserveInv /\ [Next]_vars => ReserveInv'
<1> SUFFICES ASSUME TypeOK, ReserveInv, [Next]_vars PROVE ReserveInv'
  OBVIOUS
<1> DEFINE late == AtLeast(Cutoff, replied)
<1>0. /\ now \in Nat /\ replied \in Nat /\ cut \in Nat /\ Cutoff \in Nat /\ late \in Nat
      /\ Cutoff' = Cutoff
  BY CutoffInRun DEF TypeOK, AtLeast, Cutoff, Deadline, FinalReserve, AtMost
<1>1. CASE StartTurn \/ GatewayStep \/ GatewayFailed \/ DeadlinePassed \/ Interrupt \/ Answer
  BY <1>1 DEF StartTurn, GatewayStep, GatewayFailed, DeadlinePassed, Interrupt, Answer, End,
              ReserveInv, ToolsLeaveTheReserve
<1>2. CASE NoAnswer \/ ToolCalls
  <2>1. replied' = now /\ now' = now /\ pc' # "tool"
    BY <1>2 DEF NoAnswer, ToolCalls, Reply, End
  <2> QED BY <1>0, <2>1 DEF ReserveInv, ToolsLeaveTheReserve, AtLeast
<1>3. CASE Disallowed \/ ToolReturns \/ ToolCut \/ SettleTurn
  <2>1. replied' = replied /\ now' = now /\ pc' # "tool" /\ pc \in {"dispatch", "tool"}
    BY <1>3 DEF Disallowed, ToolReturns, ToolCut, SettleTurn, End
  <2> QED BY <1>0, <2>1 DEF ReserveInv, ToolsLeaveTheReserve, AtLeast
<1>4. CASE StartTool
  <2>1. now <= late
    BY <1>4 DEF StartTool, ReserveInv, ToolsLeaveTheReserve
  <2>2. ToolEnd <= late
    BY <1>0, <2>1, AgentLoopAssumption DEF ToolEnd, AtMost, AtLeast
  <2> QED BY <1>4, <1>0, <2>1, <2>2 DEF StartTool, ReserveInv, ToolsLeaveTheReserve, AtLeast
<1>5. CASE Tick
  <2>1. CASE pc = "tool"
    <3>1. now' <= late
      BY <1>5, <2>1, <1>0 DEF Tick, ReserveInv
    <3> QED BY <1>5, <2>1, <1>0, <3>1
            DEF Tick, tools, ReserveInv, ToolsLeaveTheReserve, AtLeast
  <2>2. CASE pc = "model"
    BY <1>5, <2>2 DEF Tick, ReserveInv, ToolsLeaveTheReserve
  <2> QED BY <1>5, <2>1, <2>2 DEF Tick
<1>6. CASE UNCHANGED vars
  BY <1>6, <1>0 DEF vars, tools, ReserveInv, ToolsLeaveTheReserve, AtLeast
<1> QED BY <1>1, <1>2, <1>3, <1>4, <1>5, <1>6 DEF Next

(* Tools never eat into the final reserve. *)
THEOREM ReserveIsLeft == Spec => []ToolsLeaveTheReserve
<1>1. Init => ReserveInv
  BY CutoffInRun DEF Init, ReserveInv, ToolsLeaveTheReserve, AtLeast
<1>2. TypeOK /\ ReserveInv /\ [Next]_vars => ReserveInv'
  BY ReserveStep
<1>3. ReserveInv => ToolsLeaveTheReserve
  BY DEF ReserveInv
<1> QED BY <1>1, <1>2, <1>3, TypeCorrect, PTL DEF Spec

-----------------------------------------------------------------------------
(* Searches only ever extend the budget, so a Turn that was not final      *)
(* leaves a further one; the budget of a Turn that asks the model is still *)
(* the current one, for no tool runs before its reply.                     *)
BudgetInv ==
  /\ turn <= TurnBudget(searches)
  /\ pc = "turn" => turn < TurnBudget(searches)
  /\ pc = "model" => budget = TurnBudget(searches)
  /\ pc \in {"dispatch", "tool"} => turn < budget /\ budget <= TurnBudget(searches)
  /\ pc # "done" => exit = "none"
  /\ exit = "budget_exhausted" => turn = TurnBudget(searches)

LEMMA BudgetInit == Init => BudgetInv
<1> SUFFICES ASSUME Init PROVE BudgetInv
  OBVIOUS
<1>1. turn = 0 /\ searches = 0 /\ pc = "turn" /\ exit = "none"
  BY DEF Init
<1>2. TurnBudget(0) \in Nat /\ 1 <= TurnBudget(0)
  BY TurnBudgetGrows
<1> QED BY <1>1, <1>2 DEF BudgetInv

LEMMA BudgetStep == TypeOK /\ BudgetInv /\ [Next]_vars => BudgetInv'
<1> SUFFICES ASSUME TypeOK, BudgetInv, [Next]_vars PROVE BudgetInv'
  OBVIOUS
<1>0. /\ turn \in Nat /\ budget \in Nat /\ searches \in Nat
      /\ TurnBudget(searches) \in Nat /\ TurnBudget(searches + 1) \in Nat
      /\ TurnBudget(searches) <= TurnBudget(searches + 1)
  BY TurnBudgetGrows DEF TypeOK
<1>a. searches' = searches => TurnBudget(searches') = TurnBudget(searches)
  OBVIOUS
<1>b. TurnBudget(searches)' = TurnBudget(searches')
  BY DEF TurnBudget, AtMost, AtLeast
<1>1. CASE StartTurn
  <2>1. /\ pc = "turn" /\ pc' = "model" /\ turn' = turn + 1 /\ searches' = searches
        /\ budget' = TurnBudget(searches) /\ exit' = exit
    BY <1>1 DEF StartTurn
  <2> QED BY <1>0, <1>a, <1>b, <2>1 DEF BudgetInv
<1>2. CASE GatewayStep \/ Tick \/ UNCHANGED vars
  <2>1. UNCHANGED <<turn, budget, searches, pc, exit>>
    BY <1>2 DEF GatewayStep, Tick, vars, loop
  <2> QED BY <1>0, <1>a, <1>b, <2>1 DEF BudgetInv
<1>3. CASE DeadlinePassed \/ GatewayFailed \/ Answer \/ Interrupt
  <2>1. UNCHANGED <<turn, budget, searches>> /\ pc' = "done" /\ exit' # "budget_exhausted"
    BY <1>3 DEF DeadlinePassed, GatewayFailed, Answer, Interrupt, End, ErrorExit, loop
  <2> QED BY <1>0, <1>a, <1>b, <2>1 DEF BudgetInv
<1>4. CASE NoAnswer
  <2>1. UNCHANGED <<turn, budget, searches>> /\ pc = "model"
    BY <1>4 DEF NoAnswer, Reply
  <2>2. \/ pc' = "done" /\ exit' # "budget_exhausted"
        \/ pc' = "done" /\ exit' = "budget_exhausted" /\ Final /\ ~reserve
        \/ pc' = "turn" /\ exit' = exit /\ ~Final
    BY <1>4 DEF NoAnswer, End
  <2>3. CASE pc' = "done" /\ exit' # "budget_exhausted"
    BY <1>0, <1>a, <1>b, <2>1, <2>3 DEF BudgetInv
  <2>4. CASE pc' = "done" /\ exit' = "budget_exhausted" /\ Final /\ ~reserve
    BY <1>0, <1>a, <1>b, <2>1, <2>4 DEF BudgetInv, Final, OutOfBudget
  <2>5. CASE pc' = "turn" /\ exit' = exit /\ ~Final
    BY <1>0, <1>a, <1>b, <2>1, <2>5 DEF BudgetInv, Final, OutOfBudget
  <2> QED BY <2>2, <2>3, <2>4, <2>5
<1>5. CASE ToolCalls
  <2>1. /\ UNCHANGED <<turn, budget, searches, exit>>
        /\ pc = "model" /\ pc' = "dispatch" /\ ~Final
    BY <1>5 DEF ToolCalls, Reply, loop
  <2> QED BY <1>0, <1>a, <1>b, <2>1 DEF BudgetInv, Final, OutOfBudget
<1>6. CASE Disallowed \/ StartTool \/ ToolCut
  <2>1. /\ UNCHANGED <<turn, budget, searches, exit>>
        /\ pc \in {"dispatch", "tool"} /\ pc' \in {"dispatch", "tool"}
    BY <1>6 DEF Disallowed, StartTool, ToolCut, loop
  <2> QED BY <1>0, <1>a, <1>b, <2>1 DEF BudgetInv
<1>7. CASE ToolReturns
  <2>1. /\ UNCHANGED <<turn, budget, exit>>
        /\ pc = "tool" /\ pc' = "dispatch"
        /\ searches' = searches + 1 \/ searches' = searches + 0
    BY <1>7, Zenon DEF ToolReturns
  <2>2. CASE searches' = searches + 1
    BY <1>0, <1>b, <2>1, <2>2 DEF BudgetInv
  <2>3. CASE searches' = searches + 0
    BY <1>0, <1>a, <1>b, <2>1, <2>3 DEF BudgetInv
  <2> QED BY <2>1, <2>2, <2>3
<1>8. CASE SettleTurn
  <2>1. /\ UNCHANGED <<turn, budget, searches>> /\ pc = "dispatch"
        /\ \/ pc' = "done" /\ exit' = "tool_failure"
           \/ pc' = "turn" /\ exit' = exit
    BY <1>8 DEF SettleTurn, End
  <2> QED BY <1>0, <1>a, <1>b, <2>1 DEF BudgetInv
<1> QED BY <1>1, <1>2, <1>3, <1>4, <1>5, <1>6, <1>7, <1>8 DEF Next

(* The model is asked at most as often as the searches of the run earned,  *)
(* never past --max-turns-cap, and exit 5 means all of that was used.      *)
THEOREM TurnsAreBounded == Spec => []TurnsWithinBudget
<1>1. TypeOK /\ BudgetInv => TurnsWithinBudget
  BY TurnBudgetGrows DEF TypeOK, BudgetInv, TurnsWithinBudget
<1> QED BY <1>1, BudgetInit, BudgetStep, TypeCorrect, PTL DEF Spec

-----------------------------------------------------------------------------
(* Inside a Turn the count is one behind, and a Turn that has run its      *)
(* calls has seen a success or a failure.                                  *)
RepairsInv ==
  /\ pc = "turn" => repairs = turn - good
  /\ pc \in {"model", "dispatch", "tool"} => repairs = turn - 1 - good
  /\ pc # "done" => repairs <= MaxRepairs /\ exit = "none"
  /\ pc = "dispatch" /\ calls = 0 => won \/ lost
  /\ exit = "tool_failure" => turn - good = MaxRepairs + 1

LEMMA RepairsStep == TypeOK /\ RepairsInv /\ [Next]_vars => RepairsInv'
<1> SUFFICES ASSUME TypeOK, RepairsInv, [Next]_vars PROVE RepairsInv'
  OBVIOUS
<1>0. turn \in Nat /\ good \in Nat /\ repairs \in Nat /\ calls \in Nat /\ MaxRepairs \in Nat
  BY AgentLoopAssumption DEF TypeOK, AtLeast
<1>1. CASE StartTurn
  <2>1. /\ pc = "turn" /\ pc' = "model" /\ turn' = turn + 1
        /\ UNCHANGED <<good, repairs, exit>>
    BY <1>1 DEF StartTurn
  <2> QED BY <1>0, <2>1 DEF RepairsInv
<1>2. CASE GatewayStep \/ Tick \/ UNCHANGED vars
  BY <1>2 DEF GatewayStep, Tick, vars, loop, tools, RepairsInv
<1>3. CASE DeadlinePassed \/ GatewayFailed \/ Answer \/ Interrupt
  <2>1. pc' = "done" /\ exit' # "tool_failure"
    BY <1>3 DEF DeadlinePassed, GatewayFailed, Answer, Interrupt, End, ErrorExit
  <2> QED BY <2>1 DEF RepairsInv
<1>4. CASE NoAnswer
  <2>1. pc = "model" /\ turn' = turn /\ good' = good /\ repairs' = repairs + 1
    BY <1>4 DEF NoAnswer, Reply
  <2>2. \/ pc' = "done" /\ exit' = "tool_failure" /\ repairs' > MaxRepairs
        \/ pc' = "done" /\ exit' # "tool_failure"
        \/ pc' = "turn" /\ exit' = exit /\ ~(repairs' > MaxRepairs)
    BY <1>4 DEF NoAnswer, End
  <2> QED BY <1>0, <2>1, <2>2 DEF RepairsInv
<1>5. CASE ToolCalls
  <2>1. /\ pc = "model" /\ pc' = "dispatch" /\ calls' # 0
        /\ UNCHANGED <<turn, good, repairs, exit>>
    BY <1>5, AgentLoopAssumption DEF ToolCalls, Reply, Runs, AtLeast, loop
  <2> QED BY <1>0, <2>1 DEF RepairsInv
<1>6. CASE Disallowed \/ ToolCut
  <2>1. /\ pc \in {"dispatch", "tool"} /\ pc' = "dispatch" /\ lost' = TRUE
        /\ UNCHANGED <<turn, good, repairs, exit>>
    BY <1>6 DEF Disallowed, ToolCut, loop
  <2> QED BY <1>0, <2>1 DEF RepairsInv
<1>7. CASE StartTool
  <2>1. pc = "dispatch" /\ pc' = "tool" /\ UNCHANGED <<turn, good, repairs, exit>>
    BY <1>7 DEF StartTool, loop
  <2> QED BY <1>0, <2>1 DEF RepairsInv
<1>8. CASE ToolReturns
  <2>1. pc = "tool" /\ pc' = "dispatch" /\ UNCHANGED <<turn, good, repairs, exit>>
    BY <1>8 DEF ToolReturns
  <2>2. won' \/ lost'
    BY <1>8, Zenon DEF ToolReturns
  <2> QED BY <1>0, <2>1, <2>2 DEF RepairsInv
<1>9. CASE SettleTurn
  <2>1. pc = "dispatch" /\ turn' = turn /\ (won \/ lost)
    BY <1>9 DEF SettleTurn, RepairsInv
  <2>2. \/ pc' = "done" /\ exit' = "tool_failure" /\ repairs' > MaxRepairs
        \/ pc' = "turn" /\ exit' = exit /\ ~(lost /\ repairs' > MaxRepairs)
    BY <1>9 DEF SettleTurn, End
  <2>3. CASE won
    <3>1. repairs' = 0 /\ good' = turn
      BY <1>9, <2>3 DEF SettleTurn, RepairsAfter
    <3> QED BY <1>0, <2>1, <2>2, <3>1 DEF RepairsInv
  <2>4. CASE ~won
    <3>1. repairs' = repairs + 1 /\ good' = good /\ lost
      BY <1>9, <2>1, <2>4 DEF SettleTurn, RepairsAfter
    <3> QED BY <1>0, <2>1, <2>2, <3>1 DEF RepairsInv
  <2> QED BY <2>3, <2>4
<1> QED BY <1>1, <1>2, <1>3, <1>4, <1>5, <1>6, <1>7, <1>8, <1>9 DEF Next

(* Exit 4 means MaxRepairs + 1 Turns in a row in which nothing succeeded.  *)
THEOREM RepairsAreCounted == Spec => []RepairsCounted
<1>1. Init => RepairsInv
  BY AgentLoopAssumption DEF Init, RepairsInv
<1>2. RepairsInv => RepairsCounted
  BY DEF RepairsInv, RepairsCounted
<1> QED BY <1>1, <1>2, RepairsStep, TypeCorrect, PTL DEF Spec

-----------------------------------------------------------------------------
(* A note is written for the Turn after it: it says 1 exactly when that    *)
(* Turn will be the last of the budget or starts in the final reserve.     *)
NoteInv ==
  /\ NoteHonoured
  /\ pc = "turn" /\ turn > 0
       => /\ told > 0
          /\ told = 1 => InFinalReserve \/ turn + 1 >= TurnBudget(searches)
          /\ turn + 1 >= TurnBudget(searches) => told = 1

LEMMA NoteWritten ==
  ASSUME TypeOK, turn < TurnBudget(searches)
  PROVE  /\ TurnsLeft(searches) > 0
         /\ TurnsLeft(searches) = 1 => InFinalReserve \/ turn + 1 >= TurnBudget(searches)
         /\ turn + 1 >= TurnBudget(searches) => TurnsLeft(searches) = 1
<1>1. turn \in Nat /\ TurnBudget(searches) \in Nat
  BY TurnBudgetGrows DEF TypeOK
<1> QED BY <1>1 DEF TurnsLeft

LEMMA NoteStep == TypeOK /\ BudgetInv /\ NoteInv /\ [Next]_vars => NoteInv'
<1> SUFFICES ASSUME TypeOK, BudgetInv, NoteInv, [Next]_vars PROVE NoteInv'
  OBVIOUS
<1>0. turn \in Nat /\ budget \in Nat /\ told \in Int /\ TurnBudget(searches) \in Nat
  BY TurnBudgetGrows DEF TypeOK
<1>a. searches' = searches => TurnBudget(searches)' = TurnBudget(searches)
  BY DEF TurnBudget, AtMost, AtLeast
<1>b. now' = now => InFinalReserve' = InFinalReserve
  BY DEF InFinalReserve, Cutoff, Deadline, FinalReserve, AtMost
<1>1. CASE StartTurn
  <2>1. /\ pc = "turn" /\ pc' = "model" /\ turn' = turn + 1 /\ told' = told
        /\ budget' = TurnBudget(searches) /\ reserve' = InFinalReserve
    BY <1>1 DEF StartTurn
  <2> QED BY <1>0, <2>1 DEF NoteInv, NoteHonoured, Final, OutOfBudget
<1>2. CASE Tick \/ UNCHANGED vars
  <2>1. UNCHANGED <<pc, turn, budget, reserve, searches, told>> /\ (pc = "turn" => now' = now)
    BY <1>2 DEF Tick, vars, loop
  <2> QED BY <1>a, <1>b, <2>1 DEF NoteInv, NoteHonoured, Final, OutOfBudget
<1>3. CASE DeadlinePassed \/ GatewayFailed \/ Answer \/ Interrupt
  <2>1. pc' = "done"
    BY <1>3 DEF DeadlinePassed, GatewayFailed, Answer, Interrupt, End
  <2> QED BY <2>1 DEF NoteInv, NoteHonoured
<1>4. CASE GatewayStep \/ ToolCalls \/ Disallowed \/ StartTool \/ ToolReturns \/ ToolCut
  <2>1. /\ pc \in {"model", "dispatch", "tool"} /\ pc' \in {"model", "dispatch", "tool"}
        /\ UNCHANGED <<turn, budget, reserve, told>>
    BY <1>4 DEF GatewayStep, ToolCalls, Reply, Disallowed, StartTool, ToolReturns, ToolCut, loop
  <2> QED BY <2>1 DEF NoteInv, NoteHonoured, Final, OutOfBudget
<1>5. CASE NoAnswer
  <2>1. /\ UNCHANGED <<turn, budget, searches, now>> /\ pc = "model"
        /\ (pc' = "done" \/ (pc' = "turn" /\ told' = TurnsLeft(searches) /\ ~Final))
    BY <1>5 DEF NoAnswer, Reply, End
  <2>2. CASE pc' = "done"
    BY <2>2 DEF NoteInv, NoteHonoured
  <2>3. CASE pc' = "turn" /\ told' = TurnsLeft(searches) /\ ~Final
    <3>1. turn < TurnBudget(searches)
      BY <1>0, <2>1, <2>3 DEF BudgetInv, Final, OutOfBudget
    <3> QED BY <1>a, <1>b, <2>1, <2>3, <3>1, NoteWritten DEF NoteInv, NoteHonoured
  <2> QED BY <2>1, <2>2, <2>3
<1>6. CASE SettleTurn
  <2>1. /\ UNCHANGED <<turn, budget, searches, now>> /\ pc = "dispatch"
        /\ told' = TurnsLeft(searches) /\ pc' \in {"done", "turn"}
    BY <1>6 DEF SettleTurn, End
  <2>2. turn < TurnBudget(searches)
    BY <1>0, <2>1 DEF BudgetInv
  <2> QED BY <1>a, <1>b, <2>1, <2>2, NoteWritten DEF NoteInv, NoteHonoured
<1> QED BY <1>1, <1>2, <1>3, <1>4, <1>5, <1>6 DEF Next

(* The turns-left note never misleads the model about its last Turn. *)
THEOREM NotesAreHonoured == Spec => []NoteHonoured
<1>1. Init => NoteInv
  BY DEF Init, NoteInv, NoteHonoured
<1>2. NoteInv => NoteHonoured
  BY DEF NoteInv
<1> QED BY <1>1, <1>2, NoteStep, BudgetInit, BudgetStep, TypeCorrect, PTL DEF Spec

-----------------------------------------------------------------------------
(* Evidence.                                                               *)
(* The least of some natural numbers, and the greatest of bounded ones. *)
LEMMA MinOf ==
  ASSUME NEW S, S \subseteq Nat, S # {}
  PROVE  Min(S) \in S /\ \A x \in S : Min(S) <= x
<1> DEFINE Less == {pair \in Nat \X Nat : pair[1] < pair[2]}
<1>1. IsWellFoundedOn(Less, Nat)
  BY NatLessThanWellFounded, Zenon DEF OpToRel
<1> HIDE DEF Less
<1>2. PICK x \in S : \A y \in S : ~(<<y, x>> \in Less)
  BY <1>1, WFMin
<1>3. ASSUME NEW y \in S PROVE x <= y
  <2>1. x \in Nat /\ y \in Nat
    OBVIOUS
  <2>2. y < x => <<y, x>> \in Less
    BY <2>1 DEF Less
  <2>3. ~(<<y, x>> \in Less)
    BY <1>2
  <2>4. ~(y < x)
    BY <2>2, <2>3
  <2> QED BY <2>1, <2>4
<1> QED BY <1>3 DEF Min

LEMMA MaxOf ==
  ASSUME NEW S, NEW n \in Nat, S \subseteq 0..n, S # {}
  PROVE  Max(S) \in S /\ \A x \in S : Max(S) >= x
<1> DEFINE T == {n - x : x \in S}
<1>1. T \subseteq Nat /\ T # {}
  <2>1. \A x \in 0..n : n - x \in Nat
    OBVIOUS
  <2> QED BY <2>1
<1> HIDE DEF T
<1>2. Min(T) \in T /\ \A y \in T : Min(T) <= y
  BY <1>1, MinOf
<1>3. PICK x \in S : Min(T) = n - x
  BY <1>2 DEF T
<1>4. \A y \in S : x >= y
  <2> SUFFICES ASSUME NEW y \in S PROVE x >= y
    OBVIOUS
  <2>1. n - y \in T
    BY DEF T
  <2>2. n - x <= n - y
    BY <1>2, <1>3, <2>1
  <2>3. x \in Int /\ y \in Int
    OBVIOUS
  <2> QED BY <2>2, <2>3
<1> QED BY <1>4 DEF Max

-----------------------------------------------------------------------------
(* The answer of a reply is a sequence of its lines, so what its points    *)
(* are known by are natural numbers.                                       *)
LEMMA AnswerIsLines ==
  ASSUME NEW lines, lines \in Seq(ToSet(lines))
  PROVE  AnswerBlock(lines) \in Seq(ToSet(lines))
<1> DEFINE L == ToSet(lines)
           n == Len(lines)
<1>0. lines \in Seq(L) /\ n \in Nat
  OBVIOUS
<1>1. CASE Blocks(lines) # {}
  <2> DEFINE ends == {b[2] : b \in Blocks(lines)}
  <2>1. ends \subseteq 0..n /\ ends # {}
    BY <1>0, <1>1 DEF Blocks
  <2>2. Max(ends) \in ends /\ \A x \in ends : Max(ends) >= x
    BY <1>0, <2>1, MaxOf
  <2>3. \E b \in Blocks(lines) : \A c \in Blocks(lines) : c[2] <= b[2]
    <3>1. PICK b \in Blocks(lines) : b[2] = Max(ends)
      BY <2>2
    <3>2. \A c \in Blocks(lines) : c[2] \in ends /\ c[2] \in Nat /\ b[2] \in Nat
      BY <2>1, <3>1
    <3> QED BY <2>2, <3>1, <3>2
  <2> DEFINE last == CHOOSE b \in Blocks(lines) : \A c \in Blocks(lines) : c[2] <= b[2]
  <2>4. last \in Blocks(lines)
    BY <2>3
  <2> HIDE DEF last
  <2>5. last[1] \in 1..n /\ last[2] \in 1..n /\ last[1] < last[2]
    BY <2>4 DEF Blocks
  <2>6. SubSeq(lines, last[1] + 1, last[2] - 1) \in Seq(L)
    BY <1>0, <2>5
  <2>7. AnswerBlock(lines) = SubSeq(lines, last[1] + 1, last[2] - 1)
    BY <1>1 DEF AnswerBlock, last
  <2> QED BY <2>6, <2>7
<1>2. CASE Blocks(lines) = {} /\ Opens(lines) # {}
  <2>1. Opens(lines) \subseteq 0..n /\ Opens(lines) \subseteq 1..n
    BY <1>0 DEF Opens
  <2>2. Max(Opens(lines)) \in 1..n
    BY <1>0, <1>2, <2>1, MaxOf
  <2>3. SubSeq(lines, Max(Opens(lines)) + 1, n) \in Seq(L)
    BY <1>0, <2>2
  <2> QED BY <1>2, <2>3 DEF AnswerBlock
<1>3. CASE Blocks(lines) = {} /\ Opens(lines) = {}
  BY <1>0, <1>3 DEF AnswerBlock
<1> QED BY <1>1, <1>2, <1>3

(* Points known by natural numbers. *)
Placed(points) == \A p \in points : p.at \in Nat

LEMMA PointsArePlaced ==
  ASSUME NEW body, NEW L, body \in Seq(L), NEW h \in DOMAIN Themes(body)
  PROVE  Placed(Themes(body)[h].points)
<1>1. DOMAIN body \subseteq Nat
  OBVIOUS
<1>2. \A text : \A at \in Nat : Point(body, text, at).at = at
  BY DEF Point
<1>3. Placed({SummaryPoint(body)}) /\ Placed({})
  <2>1. SummaryPoint(body).at = 0
    BY <1>2 DEF SummaryPoint
  <2> QED BY <2>1 DEF Placed
<1>4. \A k \in Headings(body) : Placed(Points(body, k))
  <2> SUFFICES ASSUME NEW k \in Headings(body) PROVE Placed(Points(body, k))
    OBVIOUS
  <2>1. k \in Nat /\ \A i \in Section(body, k) : i \in Nat
    BY <1>1 DEF Headings, Section, Prose
  <2>2. \A p \in Points(body, k) :
          \E text, at : at \in Nat /\ p = Point(body, text, at)
    BY <2>1 DEF Points
  <2> QED BY <1>2, <2>2 DEF Placed
<1>5. \A points, links : Theme(points, links).points = points
  BY DEF Theme
<1>6. CASE Headings(body) = {}
  <2>1. Themes(body)[h].points = {SummaryPoint(body)}
    BY <1>5, <1>6 DEF Themes
  <2> QED BY <1>3, <2>1
<1>7. CASE Headings(body) # {}
  <2>1. /\ DOMAIN ThemesAt(body) = Headings(body)
        /\ \A k \in Headings(body) : ThemesAt(body)[k].points = Points(body, k)
    BY <1>5 DEF ThemesAt
  <2>2. \/ /\ Themes(body) = [ThemesAt(body) EXCEPT
                                ![Min(Headings(body))].points = {SummaryPoint(body)}]
           /\ \A k \in Headings(body) : ThemesAt(body)[k].points = {}
        \/ Themes(body) = ThemesAt(body)
    BY <1>7 DEF Themes
  <2>3. CASE Themes(body) = ThemesAt(body)
    BY <1>4, <2>1, <2>3
  <2>4. CASE Themes(body) = [ThemesAt(body) EXCEPT
                               ![Min(Headings(body))].points = {SummaryPoint(body)}]
    <3> DEFINE f == ThemesAt(body)
               m == Min(Headings(body))
    <3>1. Themes(body) = [f EXCEPT ![m] = [f[m] EXCEPT !.points = {SummaryPoint(body)}]]
      BY <2>4
    <3>2. CASE h # m
      BY <1>4, <2>1, <3>1, <3>2
    <3>3. CASE h = m
      <4>1. Themes(body)[h] = [f[m] EXCEPT !.points = {SummaryPoint(body)}]
        BY <2>1, <3>1, <3>3
      <4>2. f[m] = [points |-> f[m].points, citations |-> f[m].citations]
        BY <2>1, <3>1, <3>3 DEF ThemesAt, Theme
      <4> HIDE DEF f, m
      <4>3. Themes(body)[h].points = {SummaryPoint(body)}
        BY <4>1, <4>2
      <4> QED BY <1>3, <4>3
    <3> QED BY <3>2, <3>3
  <2> QED BY <2>2, <2>3, <2>4
<1> QED BY <1>6, <1>7

(* The best of the points that link a URL has a quote of its page.         *)
LEMMA BestIsOnItsPage ==
  ASSUME NEW url, NEW points, NEW pages, Placed(points),
         Best(url, points, pages).support >= Partial
  PROVE  Best(url, points, pages).quote \in pages[KeyOf[url]].quotes
<1> DEFINE page == pages[KeyOf[url]]
           linking == Linking(url, points, pages)
           best == {p \in linking : \A q \in linking : Support(page, q) <= Support(page, p)}
           first == CHOOSE p \in best : \A q \in best : p.at <= q.at
<1>1. linking # {}
  BY DEF Best, Uncited, Unchecked, Partial
<1>2. \A p : Support(page, p) \in {1, 2, 3}
  BY DEF Support, None, Partial, Exact
<1>3. best # {}
  <2> HIDE DEF page, linking
  <2>1. CASE \E p \in linking : Support(page, p) = 3
    BY <1>2, <2>1
  <2>2. CASE /\ ~\E p \in linking : Support(page, p) = 3
             /\ \E p \in linking : Support(page, p) = 2
    BY <1>2, <2>2
  <2>3. CASE \A p \in linking : Support(page, p) = 1
    BY <1>1, <2>3
  <2> QED BY <1>2, <2>1, <2>2, <2>3
<1>4. first \in best
  <2> DEFINE places == {p.at : p \in best}
  <2>1. \A p \in best : p.at \in Nat
    BY DEF Linking, Placed
  <2> HIDE DEF best
  <2>2. places \subseteq Nat /\ places # {}
    BY <1>3, <2>1
  <2>3. Min(places) \in places /\ \A x \in places : Min(places) <= x
    BY <2>2, MinOf
  <2>4. \E p \in best : \A q \in best : p.at <= q.at
    BY <2>3
  <2> QED BY <2>4
<1>5. Best(url, points, pages) = [support |-> Support(page, first), quote |-> first.quote]
  BY <1>1 DEF Best
<1> HIDE DEF first, best
<1>6. Support(page, first) >= Partial
  BY <1>5
<1> QED BY <1>5, <1>6 DEF Support, None, Partial

(* What a Synthesis cites was fetched, and is graded by its own page.      *)
LEMMA SynthesisIsGraded ==
  ASSUME NEW lines \in FinalReplies, NEW keys, NEW pages, NEW verified,
         verified = VerifySynthesis(RetainFetched(ParseAnswer(lines), keys), pages)
  PROVE  \A url \in DOMAIN verified.citations :
           /\ KeyOf[url] \in keys
           /\ verified.citations[url].support >= Partial =>
                verified.citations[url].quote \in pages[KeyOf[url]].quotes
<1> DEFINE body == AnswerBlock(lines)
           parsed == ParseAnswer(lines)
           kept == RetainFetched(parsed, keys)
           points == AllPoints(kept)
<1>1. body \in Seq(ToSet(lines))
  BY AnswerIsLines, EvidenceAssumption
<1>2. parsed.themes = Themes(body)
  BY DEF ParseAnswer
<1> HIDE DEF body, parsed
<1>3. /\ DOMAIN kept.themes = DOMAIN parsed.themes
      /\ \A h \in DOMAIN parsed.themes : kept.themes[h].points = parsed.themes[h].points
  BY DEF RetainFetched, Theme
<1>4. \A url \in kept.citations : KeyOf[url] \in keys
  BY DEF RetainFetched
<1> HIDE DEF kept
<1>5. Placed(points)
  <2>1. \A h \in DOMAIN Themes(body) : Placed(Themes(body)[h].points)
    BY <1>1, PointsArePlaced
  <2> QED BY <1>2, <1>3, <2>1 DEF Placed, AllPoints
<1>6. verified.citations = [url \in kept.citations |-> Best(url, points, pages)]
  BY DEF VerifySynthesis, kept, parsed
<1> HIDE DEF points
<1> QED BY <1>4, <1>5, <1>6, BestIsOnItsPage

-----------------------------------------------------------------------------
(* The tape, and what a fixture of it says of a URL.                       *)
AnyPage == UNION {Web[key] : key \in Keys}
Row == [key : Keys, page : AnyPage \cup {NoPage}]
TapeInv ==
  /\ tape \in Seq(Row)
  /\ loaded \in 0..Len(tape)

LEMMA FixtureRows ==
  ASSUME TapeInv
  PROVE  /\ \A i \in DOMAIN Fixture : /\ i \in Nat
                                      /\ Fixture[i].key \in Keys
                                      /\ Fixture[i].page \in AnyPage \cup {NoPage}
<1>1. /\ tape \in Seq(Row) /\ loaded \in Nat /\ loaded <= Len(tape)
      /\ Fixture = SubSeq(tape, 1, loaded)
  BY DEF TapeInv, Fixture
<1>2. Fixture \in Seq(Row)
  BY <1>1
<1>3. \A i \in DOMAIN Fixture : i \in Nat /\ Fixture[i] \in Row
  <2> HIDE DEF Fixture
  <2> QED BY <1>2
<1>4. \A row \in Row : row.key \in Keys /\ row.page \in AnyPage \cup {NoPage}
  BY DEF Row
<1> QED BY <1>3, <1>4

LEMMA RecordedIsAPage ==
  ASSUME TapeInv, NEW key
  PROVE  /\ Recorded(key) \in AnyPage \cup {NoPage}
         /\ PagesOf(key) # {} => Recorded(key) # NoPage
<1>1. CASE PagesOf(key) # {}
  <2>1. PagesOf(key) \subseteq Nat
    BY FixtureRows DEF PagesOf, RowsOf
  <2>2. Min(PagesOf(key)) \in PagesOf(key)
    BY <1>1, <2>1, MinOf
  <2> QED BY <1>1, <2>2, FixtureRows DEF Recorded, PagesOf, RowsOf
<1>2. CASE PagesOf(key) = {}
  BY <1>2 DEF Recorded
<1> QED BY <1>1, <1>2

LEMMA LookupIsAPage ==
  ASSUME TapeInv, NEW key
  PROVE  Lookup(key) \in AnyPage \cup {NoPage}
BY RecordedIsAPage DEF Lookup

LEMMA TapeStep ==
  ASSUME TapeInv, [PagesNext]_research
  PROVE  TapeInv'
<1>1. CASE UNCHANGED <<tape, loaded>>
  BY <1>1 DEF TapeInv
<1>2. ASSUME NEW m \in Modes, Begin(m) PROVE TapeInv'
  BY <1>2 DEF TapeInv, Begin
<1>3. ASSUME NEW key \in Keys, NEW part \in Parts, Call(key, part) PROVE TapeInv'
  <2>1. UNCHANGED loaded
    BY <1>3 DEF Call
  <2>2. CASE FetchKnown(key, part) \/ FetchCut(key)
    BY <1>1, <2>1, <2>2 DEF FetchKnown, FetchCut
  <2>3. CASE FetchUnknown(key, part)
    <3>1. PICK page : Replayed(key, page) \/ Live(key, page)
      BY <2>3 DEF FetchUnknown
    <3>2. CASE Replayed(key, page)
      BY <1>1, <2>1, <3>2 DEF Replayed
    <3>3. CASE Live(key, page)
      <4>1. [key |-> key, page |-> page] \in Row
        BY <1>3, <3>3 DEF Live, AnyPage, Row
      <4>2. UNCHANGED tape \/ tape' = Append(tape, [key |-> key, page |-> page])
        BY <3>3 DEF Live
      <4>3. tape \in Seq(Row) /\ loaded \in Nat /\ loaded <= Len(tape)
        BY DEF TapeInv
      <4> DEFINE row == [key |-> key, page |-> page]
      <4> HIDE DEF row
      <4>4. tape' \in Seq(Row) /\ Len(tape') >= Len(tape) /\ Len(tape') \in Nat
        BY <4>1, <4>2, <4>3 DEF row
      <4> QED BY <2>1, <4>3, <4>4 DEF TapeInv
    <3> QED BY <3>1, <3>2, <3>3
  <2> QED BY <1>3, <2>2, <2>3 DEF Call
<1>4. CASE \E lines \in FinalReplies : Conclude(lines)
  BY <1>1, <1>4 DEF Conclude
<1>5. CASE EndRun
  BY <1>5 DEF EndRun, TapeInv
<1>6. CASE UNCHANGED research
  BY <1>1, <1>6 DEF research
<1> QED BY <1>2, <1>3, <1>4, <1>5, <1>6 DEF PagesNext

(* A URL with a page on the fixture replays to a page, whatever failures   *)
(* were recorded for it before or after (Fixture::load).                   *)
THEOREM RecordingsAreReplayed == PagesSpec => []RecordedIsReplayed
<1>1. PagesInit => TapeInv
  BY DEF PagesInit, TapeInv
<1>2. TapeInv => RecordedIsReplayed
  <2> SUFFICES ASSUME TapeInv, NEW key \in Keys,
                      NEW i \in DOMAIN Fixture, Fixture[i].key = key, Fixture[i].page # NoPage
               PROVE  Lookup(key) # NoPage
    BY DEF RecordedIsReplayed
  <2>1. i \in RowsOf(key) /\ i \in PagesOf(key)
    BY DEF RowsOf, PagesOf
  <2> QED BY <2>1, RecordedIsAPage DEF Lookup
<1> QED BY <1>1, <1>2, TapeStep, PTL DEF PagesSpec

-----------------------------------------------------------------------------
(* The memory of a run: its pages, what each key names among them, and its *)
(* results.  A page is found under its own key, so there are no two of one *)
(* URL, and it is delivered when a result of it says so, the first one     *)
(* only.                                                                   *)
Firsts(results) == {i \in DOMAIN results : results[i].first}
Stored == [page : AnyPage, delivered : BOOLEAN]
Shown == [id : Nat, part : Nat, first : BOOLEAN]
Sound(pages, names, results) ==
  /\ pages \in Seq(Stored)
  /\ names \in [Keys -> Nat] /\ \A key \in Keys : names[key] \in 0..Len(pages)
  /\ results \in Seq(Shown)
  /\ \A id \in DOMAIN pages : names[KeyOf[pages[id].page.source]] = id
  /\ \A id \in DOMAIN pages : pages[id].delivered => \E i \in Firsts(results) : results[i].id = id
  /\ \A i \in DOMAIN results : results[i].id \in DOMAIN pages /\ pages[results[i].id].delivered
  /\ \A i, j \in Firsts(results) : results[i].id = results[j].id => i = j

LEMMA KeysOfPages ==
  /\ \A page \in AnyPage : page.source \in Urls /\ KeyOf[page.source] \in Keys
BY EvidenceAssumption DEF AnyPage, Keys

LEMMA DeliverKeeps ==
  ASSUME NEW pages, NEW names, Sound(pages, names, evidence),
         NEW id \in DOMAIN pages, NEW part \in Nat, Deliver(id, pages, part)
  PROVE  Sound(store', names, evidence')
<1>1. CASE part > PartsOf(pages[id].page)
  BY <1>1 DEF Deliver
<1>2. CASE ~(part > PartsOf(pages[id].page))
  <2> DEFINE shown == [id |-> id, part |-> part, first |-> ~pages[id].delivered]
             n == Len(evidence) + 1
             given == [pages[id] EXCEPT !.delivered = TRUE]
  <2>0. /\ pages \in Seq(Stored)
        /\ evidence \in Seq(Shown)
        /\ id \in Nat /\ pages[id] \in Stored
    <3>1. pages \in Seq(Stored) /\ evidence \in Seq(Shown)
      BY DEF Sound
    <3> QED BY <3>1
  <2>1. /\ store' = [pages EXCEPT ![id] = given]
        /\ evidence' = Append(evidence, shown)
    BY <1>2 DEF Deliver
  <2>2. given \in Stored /\ given.page = pages[id].page /\ given.delivered
    BY <2>0 DEF Stored
  <2>3. shown \in Shown /\ shown.id = id
    BY <2>0 DEF Shown, Stored
  <2>f. shown.first <=> ~pages[id].delivered
    BY <2>0
  <2> HIDE DEF shown, given
  <2>4. /\ store' \in Seq(Stored)
        /\ DOMAIN store' = DOMAIN pages /\ Len(store') = Len(pages)
        /\ \A k \in DOMAIN pages : /\ store'[k].page = pages[k].page
                                   /\ pages[k].delivered => store'[k].delivered
                                   /\ k # id => store'[k] = pages[k]
        /\ store'[id].delivered
    BY <2>0, <2>1, <2>2
  <2>5. /\ evidence' \in Seq(Shown)
        /\ DOMAIN evidence' = DOMAIN evidence \cup {n} /\ n \notin DOMAIN evidence
        /\ \A i \in DOMAIN evidence : evidence'[i] = evidence[i]
        /\ evidence'[n] = shown
    BY <2>0, <2>1, <2>3
  <2> HIDE DEF n
  <2>6. \A k \in DOMAIN store' : names[KeyOf[store'[k].page.source]] = k
    BY <2>4 DEF Sound
  <2>7. /\ \A i \in Firsts(evidence) : i \in Firsts(evidence')
        /\ ~pages[id].delivered => n \in Firsts(evidence')
        /\ \A i \in Firsts(evidence') :
             i \in Firsts(evidence) \/ (i = n /\ ~pages[id].delivered)
    BY <2>5, <2>f DEF Firsts
  <2>8. \A k \in DOMAIN store' : store'[k].delivered =>
          \E i \in Firsts(evidence') : evidence'[i].id = k
    <3>0. DOMAIN store' = DOMAIN pages
      BY <2>4
    <3> SUFFICES ASSUME NEW k \in DOMAIN store', store'[k].delivered
                 PROVE  \E i \in Firsts(evidence') : evidence'[i].id = k
      OBVIOUS
    <3>1. CASE pages[k].delivered
      <4>1. PICK i \in Firsts(evidence) : evidence[i].id = k
        BY <3>0, <3>1 DEF Sound
      <4> QED BY <2>5, <2>7, <4>1 DEF Firsts
    <3>2. CASE ~pages[k].delivered
      <4>1. k = id
        BY <2>4, <3>0, <3>2
      <4> QED BY <2>3, <2>5, <2>7, <3>2, <4>1
    <3> QED BY <3>1, <3>2
  <2>9. \A i \in DOMAIN evidence' : evidence'[i].id \in DOMAIN store' /\ store'[evidence'[i].id].delivered
    BY <2>3, <2>4, <2>5 DEF Sound
  <2>10. \A i, j \in Firsts(evidence') : evidence'[i].id = evidence'[j].id => i = j
    <3>0. Firsts(evidence) \subseteq DOMAIN evidence
      BY DEF Firsts
    <3>1. \A i \in Firsts(evidence) : evidence'[i] = evidence[i] /\ pages[evidence[i].id].delivered
      BY <2>5, <3>0 DEF Sound
    <3> QED BY <2>3, <2>5, <2>7, <3>1 DEF Sound
  <2>11. \A key \in Keys : names[key] \in 0..Len(store')
    BY <2>4 DEF Sound
  <2> QED BY <2>4, <2>5, <2>6, <2>8, <2>9, <2>10, <2>11 DEF Sound
<1> QED BY <1>1, <1>2

(* A page is stored under its own key and the key asked for: the one stored *)
(* before under its key is kept in its place.                              *)
LEMMA StoreKeeps ==
  ASSUME Sound(store, fetched, evidence), NEW key \in Keys, fetched[key] = 0,
         NEW page \in AnyPage, NEW part \in Nat, Store(key, page, part)
  PROVE  Sound(store', fetched', evidence')
<1> DEFINE own == KeyOf[page.source]
<1>0. /\ store \in Seq(Stored) /\ fetched \in [Keys -> Nat]
      /\ \A k \in Keys : fetched[k] \in 0..Len(store)
      /\ own \in Keys /\ Kept(page) = fetched[own]
  BY KeysOfPages DEF Sound, Kept
<1>1. CASE Kept(page) # 0
  <2> DEFINE id == Kept(page)
  <2>1. PICK names : names = [fetched EXCEPT ![own] = id, ![key] = id]
    OBVIOUS
  <2>2. fetched' = names /\ Deliver(id, store, part)
    BY <1>1, <2>1 DEF Store
  <2>3. id \in DOMAIN store /\ id \in Nat
    BY <1>0, <1>1
  <2>4. /\ names \in [Keys -> Nat] /\ \A k \in Keys : names[k] \in 0..Len(store)
        /\ \A k \in Keys : k # key => names[k] = fetched[k]
    BY <1>0, <2>1, <2>3
  <2>5. \A k \in DOMAIN store : names[KeyOf[store[k].page.source]] = k
    <3> SUFFICES ASSUME NEW k \in DOMAIN store
                 PROVE  names[KeyOf[store[k].page.source]] = k
      OBVIOUS
    <3>1. store[k] \in Stored /\ k # 0 /\ fetched[KeyOf[store[k].page.source]] = k
      BY <1>0 DEF Sound
    <3>2. KeyOf[store[k].page.source] \in Keys
      BY <3>1, KeysOfPages DEF Stored
    <3> QED BY <2>4, <3>1, <3>2
  <2>6. Sound(store, names, evidence)
    BY <2>4, <2>5 DEF Sound
  <2>7. Sound(store', names, evidence')
    BY <2>2, <2>3, <2>6, DeliverKeeps
  <2> QED BY <2>2, <2>7
<1>2. CASE Kept(page) = 0
  <2> DEFINE row == [page |-> page, delivered |-> FALSE]
             n == Len(store) + 1
  <2>0. row \in Stored /\ row.page = page /\ row.delivered = FALSE /\ n \in Nat \ {0}
    BY <1>0 DEF Stored
  <2> HIDE DEF row
  <2>1. PICK pages, names : /\ pages = Append(store, row)
                            /\ names = [fetched EXCEPT ![own] = n, ![key] = n]
    OBVIOUS
  <2>2. /\ pages \in Seq(Stored) /\ Len(pages) = n
        /\ DOMAIN pages = DOMAIN store \cup {n} /\ n \notin DOMAIN store
        /\ \A k \in DOMAIN store : pages[k] = store[k]
        /\ pages[n] = row
    BY <1>0, <2>0, <2>1
  <2>3. fetched' = names /\ Deliver(n, pages, part)
    <3>1. LET id == Len(pages)
          IN fetched' = [fetched EXCEPT ![own] = id, ![key] = id] /\ Deliver(id, pages, part)
      BY <1>2, <2>1 DEF Store, row
    <3> QED BY <2>1, <2>2, <3>1
  <2>4. /\ names \in [Keys -> Nat] /\ names[own] = n
        /\ \A k \in Keys : k # key /\ k # own => names[k] = fetched[k]
    BY <1>0, <2>0, <2>1
  <2>5. \A k \in Keys : names[k] \in 0..Len(pages)
    <3> SUFFICES ASSUME NEW k \in Keys PROVE names[k] \in 0..Len(pages)
      OBVIOUS
    <3>1. names[k] = n \/ names[k] = fetched[k]
      BY <1>0, <2>1
    <3>2. fetched[k] \in 0..Len(store) /\ Len(store) \in Nat
      BY <1>0
    <3> QED BY <2>0, <2>2, <3>1, <3>2
  <2>6. \A k \in DOMAIN pages : names[KeyOf[pages[k].page.source]] = k
    <3> SUFFICES ASSUME NEW k \in DOMAIN store
                 PROVE  names[KeyOf[pages[k].page.source]] = k
      BY <2>0, <2>2, <2>4
    <3>1. /\ store[k] \in Stored /\ k # 0 /\ pages[k] = store[k]
          /\ fetched[KeyOf[store[k].page.source]] = k
      BY <1>0, <2>2 DEF Sound
    <3>2. KeyOf[store[k].page.source] \in Keys
      BY <3>1, KeysOfPages DEF Stored
    <3>3. KeyOf[store[k].page.source] # own /\ KeyOf[store[k].page.source] # key
      BY <1>0, <1>2, <3>1
    <3> QED BY <2>4, <3>1, <3>2, <3>3
  <2>7. \A k \in DOMAIN pages : pages[k].delivered => \E i \in Firsts(evidence) : evidence[i].id = k
    <3> SUFFICES ASSUME NEW k \in DOMAIN store, pages[k].delivered
                 PROVE  \E i \in Firsts(evidence) : evidence[i].id = k
      BY <2>0, <2>2
    <3> QED BY <2>2 DEF Sound
  <2>8. \A i \in DOMAIN evidence :
          evidence[i].id \in DOMAIN pages /\ pages[evidence[i].id].delivered
    BY <2>2 DEF Sound
  <2>9. /\ evidence \in Seq(Shown)
        /\ \A i, j \in Firsts(evidence) : evidence[i].id = evidence[j].id => i = j
    BY DEF Sound
  <2>10. Sound(pages, names, evidence)
    BY <2>2, <2>4, <2>5, <2>6, <2>7, <2>8, <2>9 DEF Sound
  <2>11. n \in DOMAIN pages
    BY <2>2
  <2>12. Sound(store', names, evidence')
    BY <2>3, <2>10, <2>11, DeliverKeeps
  <2> QED BY <2>3, <2>12
<1> QED BY <1>1, <1>2

LEMMA CallKeeps ==
  ASSUME TapeInv, Sound(store, fetched, evidence),
         NEW key \in Keys, NEW part \in Parts, Call(key, part)
  PROVE  Sound(store', fetched', evidence')
<1>1. part \in Nat /\ Asked(part) \in Nat
  BY EvidenceAssumption DEF Asked
<1>2. CASE UNCHANGED memory
  BY <1>2 DEF memory
<1>3. CASE FetchKnown(key, part)
  <2>1. UNCHANGED fetched
    BY <1>3 DEF FetchKnown
  <2>2. fetched[key] \in DOMAIN store
    <3>1. fetched[key] # 0 /\ fetched[key] \in 0..Len(store) /\ store \in Seq(Stored)
      BY <1>3 DEF FetchKnown, Sound
    <3> QED BY <3>1
  <2>3. UNCHANGED <<store, evidence>> \/ Deliver(fetched[key], store, Asked(part))
    BY <1>3 DEF FetchKnown
  <2>4. CASE UNCHANGED <<store, evidence>>
    BY <2>1, <2>4
  <2>5. CASE Deliver(fetched[key], store, Asked(part))
    <3>1. Sound(store', fetched, evidence')
      BY <1>1, <2>2, <2>5, DeliverKeeps
    <3> QED BY <2>1, <3>1
  <2> QED BY <2>3, <2>4, <2>5
<1>4. CASE FetchUnknown(key, part)
  <2>1. PICK page \in Web[key] \cup {NoPage} \cup {Lookup(key)} :
          /\ Replayed(key, page) \/ Live(key, page)
          /\ IF page = NoPage THEN UNCHANGED memory ELSE Store(key, page, Asked(part))
    BY <1>4 DEF FetchUnknown
  <2>2. page \in AnyPage \cup {NoPage}
    BY <2>1, LookupIsAPage DEF AnyPage
  <2>3. CASE page = NoPage
    BY <1>2, <2>1, <2>3
  <2>4. CASE page # NoPage
    <3>1. page \in AnyPage /\ Store(key, page, Asked(part)) /\ fetched[key] = 0
      BY <1>4, <2>1, <2>2, <2>4 DEF FetchUnknown
    <3> QED BY <1>1, <3>1, StoreKeeps
  <2> QED BY <2>3, <2>4
<1>5. CASE FetchCut(key)
  BY <1>2, <1>5 DEF FetchCut
<1> QED BY <1>3, <1>4, <1>5 DEF Call

(* An answer stays what it was when it was checked: the memory of a run    *)
(* that answered does not change.                                          *)
AnswerInv ==
  stage = "answered" =>
    \A url \in DOMAIN synthesis.citations :
      /\ KeyOf[url] \in FetchedKeys
      /\ synthesis.citations[url].support >= Partial =>
           synthesis.citations[url].quote \in CheckedPages[KeyOf[url]].quotes

MemoryInv == TapeInv /\ Sound(store, fetched, evidence) /\ AnswerInv

LEMMA EmptyIsSound == Sound(<<>>, [key \in Keys |-> 0], <<>>)
<1>1. DOMAIN <<>> = {} /\ Len(<<>>) = 0 /\ \A S : <<>> \in Seq(S)
  OBVIOUS
<1> DEFINE none == [key \in Keys |-> 0]
<1>2. none \in [Keys -> Nat] /\ \A key \in Keys : none[key] = 0
  OBVIOUS
<1> HIDE DEF none
<1>3. Firsts(<<>>) = {}
  BY DEF Firsts
<1>4. Sound(<<>>, none, <<>>)
  BY <1>1, <1>2, <1>3 DEF Sound
<1> QED BY <1>4 DEF none

LEMMA MemoryStarts == PagesInit => MemoryInv
BY EmptyIsSound DEF PagesInit, MemoryInv, TapeInv, AnswerInv

LEMMA MemoryStep ==
  ASSUME MemoryInv, [PagesNext]_research
  PROVE  MemoryInv'
<1>0. TapeInv'
  BY TapeStep DEF MemoryInv
<1>1. CASE UNCHANGED <<memory, stage, synthesis>>
  <2>1. UNCHANGED <<store, fetched, evidence, stage, synthesis>>
    BY <1>1 DEF memory
  <2>2. FetchedKeys' = FetchedKeys /\ CheckedPages' = CheckedPages
    BY <2>1 DEF FetchedKeys, CheckedPages, CheckedKeys, PageAt, Delivered
  <2>3. AnswerInv'
    BY <2>1, <2>2 DEF MemoryInv, AnswerInv
  <2> QED BY <1>0, <2>1, <2>3 DEF MemoryInv
<1>2. ASSUME NEW m \in Modes, Begin(m) PROVE MemoryInv'
  <2>1. AnswerInv'
    BY <1>2 DEF Begin, AnswerInv
  <2>2. UNCHANGED <<store, fetched, evidence>>
    BY <1>2 DEF Begin, memory
  <2> QED BY <1>0, <2>1, <2>2 DEF MemoryInv
<1>3. ASSUME NEW key \in Keys, NEW part \in Parts, Call(key, part) PROVE MemoryInv'
  <2>1. AnswerInv'
    BY <1>3 DEF Call, AnswerInv
  <2>2. Sound(store', fetched', evidence')
    BY <1>3, CallKeeps DEF MemoryInv
  <2> QED BY <1>0, <2>1, <2>2 DEF MemoryInv
<1>4. ASSUME NEW lines \in FinalReplies, Conclude(lines) PROVE MemoryInv'
  <2>1. UNCHANGED <<store, fetched, evidence>>
    BY <1>4 DEF Conclude, memory
  <2>2. FetchedKeys' = FetchedKeys /\ CheckedPages' = CheckedPages
    BY <2>1 DEF FetchedKeys, CheckedPages, CheckedKeys, PageAt, Delivered
  <2>3. PICK keys, pages, verified :
          /\ keys = FetchedKeys /\ pages = CheckedPages
          /\ verified = VerifySynthesis(RetainFetched(ParseAnswer(lines), keys), pages)
    OBVIOUS
  <2>4. synthesis' = verified
    BY <1>4, <2>3 DEF Conclude
  <2>5. \A url \in DOMAIN verified.citations :
           /\ KeyOf[url] \in keys
           /\ verified.citations[url].support >= Partial =>
                verified.citations[url].quote \in pages[KeyOf[url]].quotes
    BY <2>3, SynthesisIsGraded
  <2>6. AnswerInv'
    BY <2>2, <2>3, <2>4, <2>5 DEF AnswerInv
  <2> QED BY <1>0, <2>1, <2>6 DEF MemoryInv
<1>5. CASE EndRun
  <2>1. AnswerInv'
    BY <1>5 DEF EndRun, AnswerInv
  <2>2. store' = <<>> /\ fetched' = [key \in Keys |-> 0] /\ evidence' = <<>>
    BY <1>5 DEF EndRun
  <2> QED BY <1>0, <2>1, <2>2, EmptyIsSound DEF MemoryInv
<1>6. CASE UNCHANGED research
  BY <1>1, <1>6 DEF research
<1> QED BY <1>2, <1>3, <1>4, <1>5, <1>6 DEF PagesNext

(* A citation of the Synthesis is of a page the model was shown a part of, *)
(* and that page is in the run's Evidence once, however many URLs led to   *)
(* it and however often it was asked for (deliver_part, store).            *)
THEOREM CitationsAreKeptOnce == PagesSpec => []CitedPageKeptOnce
<1>1. MemoryInv => CitedPageKeptOnce
  <2> SUFFICES ASSUME MemoryInv, stage = "answered", NEW url \in DOMAIN synthesis.citations
               PROVE  \E i \in Delivered :
                        /\ KeyOf[store[evidence[i].id].page.source] = KeyOf[url]
                        /\ \A j \in Delivered :
                             KeyOf[store[evidence[j].id].page.source] = KeyOf[url] => i = j
    BY DEF CitedPageKeptOnce
  <2>0. Delivered = Firsts(evidence) /\ Firsts(evidence) \subseteq DOMAIN evidence
    BY DEF Delivered, Firsts
  <2>1. KeyOf[url] \in FetchedKeys
    BY DEF MemoryInv, AnswerInv
  <2>2. PICK k \in DOMAIN evidence : KeyOf[store[evidence[k].id].page.source] = KeyOf[url]
    BY <2>1 DEF FetchedKeys
  <2>3. evidence[k].id \in DOMAIN store /\ store[evidence[k].id].delivered
    BY DEF MemoryInv, Sound
  <2>4. PICK i \in Firsts(evidence) : evidence[i].id = evidence[k].id
    BY <2>3 DEF MemoryInv, Sound
  <2>5. ASSUME NEW j \in Firsts(evidence),
               KeyOf[store[evidence[j].id].page.source] = KeyOf[url]
        PROVE  i = j
    <3>1. evidence[j].id \in DOMAIN store
      BY <2>0 DEF MemoryInv, Sound
    <3>2. evidence[j].id = evidence[i].id
      BY <2>2, <2>3, <2>4, <2>5, <3>1 DEF MemoryInv, Sound
    <3> QED BY <3>2 DEF MemoryInv, Sound
  <2> QED BY <2>0, <2>2, <2>4, <2>5
<1> QED BY <1>1, MemoryStarts, MemoryStep, PTL DEF PagesSpec

(* The quote a citation is shown with is on the page it cites, whatever    *)
(* other pages the same point links (verify_synthesis).                    *)
THEOREM QuotesAreOnTheirPages == PagesSpec => []QuoteIsOnItsPage
<1>1. MemoryInv => QuoteIsOnItsPage
  BY DEF MemoryInv, AnswerInv, QuoteIsOnItsPage
<1> QED BY <1>1, MemoryStarts, MemoryStep, PTL DEF PagesSpec

-----------------------------------------------------------------------------
(* Induction, over a set of numbers. *)
LEMMA Inductive ==
  ASSUME NEW S \in SUBSET Nat, 0 \in S, \A n \in S : n + 1 \in S
  PROVE  S = Nat
<1> SUFFICES ASSUME Nat \ S # {} PROVE FALSE
  OBVIOUS
<1>1. Min(Nat \ S) \in Nat \ S /\ \A x \in Nat \ S : Min(Nat \ S) <= x
  BY MinOf
<1>2. PICK least : least = Min(Nat \ S)
  OBVIOUS
<1>3. least \in Nat /\ least \notin S /\ least - 1 \notin Nat \ S
  BY <1>1, <1>2
<1>4. least # 0
  BY <1>3
<1>5. least - 1 \in Nat
  BY <1>3, <1>4
<1>6. (least - 1) + 1 \in S
  BY <1>3, <1>5
<1> QED BY <1>3, <1>6

(* A sequence of sequences is flattened from the first to the last. *)
Flat(f, seqs, n) == f = [i \in 1..n |-> IF i = 1 THEN seqs[i] ELSE f[i - 1] \o seqs[i]]

LEMMA Flattened ==
  ASSUME NEW seqs, Len(seqs) \in Nat \ {0}
  PROVE  \E f : Flat(f, seqs, Len(seqs)) /\ FlattenSeq(seqs) = f[Len(seqs)]
<1> DEFINE S == {n \in Nat : \E f : Flat(f, seqs, n)}
<1>1. 0 \in S
  <2>1. 1..0 = {}
    OBVIOUS
  <2> DEFINE f == [i \in 1..0 |-> {}]
  <2>2. Flat(f, seqs, 0)
    BY <2>1 DEF Flat
  <2> HIDE DEF f
  <2> QED BY <2>2
<1>2. \A n \in S : n + 1 \in S
  <2> SUFFICES ASSUME NEW n \in S PROVE n + 1 \in S
    OBVIOUS
  <2>1. n \in Nat
    OBVIOUS
  <2>2. PICK f : Flat(f, seqs, n)
    OBVIOUS
  <2> DEFINE last == IF n + 1 = 1 THEN seqs[n + 1] ELSE f[n] \o seqs[n + 1]
             g == [i \in 1..n + 1 |-> IF i = n + 1 THEN last ELSE f[i]]
  <2>3. ASSUME NEW i \in 1..n + 1
        PROVE  g[i] = IF i = 1 THEN seqs[i] ELSE g[i - 1] \o seqs[i]
    <3>1. CASE i = n + 1
      <4>1. CASE i = 1
        BY <3>1, <4>1
      <4>2. CASE i # 1
        <5>1. i - 1 \in 1..n + 1 /\ i - 1 # n + 1 /\ i - 1 = n
          BY <2>1, <3>1, <4>2
        <5>2. g[i - 1] = f[n]
          BY <5>1
        <5> QED BY <3>1, <4>2, <5>2
      <4> QED BY <4>1, <4>2
    <3>2. CASE i # n + 1
      <4>1. i \in 1..n /\ f[i] = IF i = 1 THEN seqs[i] ELSE f[i - 1] \o seqs[i]
        <5>1. i \in 1..n
          BY <2>1, <3>2
        <5> QED BY <2>2, <5>1 DEF Flat
      <4>2. i # 1 => g[i - 1] = f[i - 1]
        <5>1. i # 1 => i - 1 \in 1..n + 1 /\ i - 1 # n + 1
          BY <2>1, <4>1
        <5> QED BY <5>1
      <4>3. g[i] = f[i]
        BY <3>2
      <4> HIDE DEF g
      <4> QED BY <4>1, <4>2, <4>3
    <3> QED BY <3>1, <3>2
  <2>4. g = [i \in 1..n + 1 |-> g[i]]
    OBVIOUS
  <2> HIDE DEF g
  <2>5. Flat(g, seqs, n + 1)
    BY <2>3, <2>4 DEF Flat
  <2> QED BY <2>1, <2>5
<1>3. S \in SUBSET Nat
  OBVIOUS
<1> HIDE DEF S
<1>4. S = Nat
  BY <1>1, <1>2, <1>3, Inductive
<1>5. \E f : Flat(f, seqs, Len(seqs))
  BY <1>4 DEF S
<1> DEFINE flatten == CHOOSE f : Flat(f, seqs, Len(seqs))
<1>6. Flat(flatten, seqs, Len(seqs))
  BY <1>5
<1>7. FlattenSeq(seqs) = flatten[Len(seqs)]
  BY DEF FlattenSeq, Flat
<1> HIDE DEF flatten
<1> QED BY <1>6, <1>7

-----------------------------------------------------------------------------
(* A text, and where a part of it may begin. *)
Text(text) == text \in Seq(ToSet(text))

LEMMA PartEndsLater ==
  ASSUME NEW text, Text(text), NEW from \in 1..Len(text) + 1
  PROVE  /\ PartEnd(text, from) \in from - 1..Len(text)
         /\ PartEnd(text, from) - from < PartChars
         /\ PartEnd(text, from) # Len(text) => PartEnd(text, from) \in from..Len(text) - 1
<1> DEFINE L == Len(text)
<1>0. L \in Nat /\ from \in Nat /\ PartChars \in Nat \ {0}
  BY EvidenceAssumption DEF Text
<1>1. CASE L < from + PartChars
  <2>1. PartEnd(text, from) = L
    BY <1>1 DEF PartEnd
  <2> QED BY <1>0, <1>1, <2>1
<1>2. CASE ~(L < from + PartChars) /\ LineEnds(text, from) # {}
  <2> DEFINE ends == LineEnds(text, from)
  <2>1. PartChars \div 10 \in 0..PartChars
    BY <1>0
  <2>2. ends \subseteq from..from + PartChars - 1
    BY <1>0, <2>1 DEF LineEnds
  <2>3. ends \subseteq 0..from + PartChars - 1 /\ from + PartChars - 1 \in Nat
    BY <1>0, <2>2
  <2> HIDE DEF ends
  <2>4. Max(ends) \in ends
    BY <1>2, <2>3, MaxOf DEF ends
  <2>5. PartEnd(text, from) = Max(ends)
    BY <1>2 DEF PartEnd, ends
  <2>6. PICK m : m = Max(ends)
    OBVIOUS
  <2>7. m \in from..from + PartChars - 1
    BY <2>2, <2>4, <2>6
  <2> QED BY <1>0, <1>2, <2>5, <2>6, <2>7
<1>3. CASE ~(L < from + PartChars) /\ LineEnds(text, from) = {}
  <2>1. PartEnd(text, from) = from + PartChars - 1
    BY <1>3 DEF PartEnd
  <2> QED BY <1>0, <1>3, <2>1
<1> QED BY <1>1, <1>2, <1>3

(* The parts of a text from each place on. *)
Cuts(p, text, first) ==
  p = [from \in first..Len(text) + 1 |->
         IF PartEnd(text, from) = Len(text) THEN <<<<from, Len(text)>>>>
         ELSE <<<<from, PartEnd(text, from)>>>> \o p[PartEnd(text, from) + 1]]

LEMMA PartsAreCuts ==
  ASSUME NEW text, Text(text)
  PROVE  \E p : Cuts(p, text, 1) /\ PageParts(text) = p[1]
<1> DEFINE L == Len(text)
           S == {n \in Nat : n <= L + 1 => \E p : Cuts(p, text, L + 2 - n)}
<1>0. L \in Nat
  BY DEF Text
<1>1. 0 \in S
  <2>1. L + 2..L + 1 = {} /\ L + 2 - 0 = L + 2
    BY <1>0
  <2> DEFINE p == [from \in L + 2..L + 1 |-> {}]
  <2>2. Cuts(p, text, L + 2)
    BY <2>1 DEF Cuts
  <2> HIDE DEF p, L
  <2> QED BY <2>1, <2>2
<1>2. \A n \in S : n + 1 \in S
  <2> SUFFICES ASSUME NEW n \in S, n + 1 <= L + 1 PROVE \E p : Cuts(p, text, L + 2 - (n + 1))
    OBVIOUS
  <2>1. n \in Nat /\ n <= L
    BY <1>0
  <2>2. PICK p : Cuts(p, text, L + 2 - n)
    BY <2>1
  <2>3. PICK at : at = L + 2 - (n + 1)
    OBVIOUS
  <2>4. at \in 1..L + 1 /\ L + 2 - n = at + 1
    BY <1>0, <2>1, <2>3
  <2>5. Cuts(p, text, at + 1)
    BY <2>2, <2>4
  <2>6. PICK end : end = PartEnd(text, at)
    OBVIOUS
  <2> DEFINE new == IF end = L THEN <<<<at, L>>>> ELSE <<<<at, end>>>> \o p[end + 1]
             q == [from \in at..L + 1 |-> IF from = at THEN new ELSE p[from]]
  <2>7. end # L => end + 1 \in at + 1..L + 1
    BY <1>0, <2>4, <2>6, PartEndsLater
  <2>8. ASSUME NEW from \in at..L + 1
        PROVE  q[from] = IF PartEnd(text, from) = L THEN <<<<from, L>>>>
                         ELSE <<<<from, PartEnd(text, from)>>>> \o q[PartEnd(text, from) + 1]
    <3>1. CASE from = at
      <4>1. end # L => end + 1 \in at..L + 1 /\ end + 1 # at
        BY <1>0, <2>4, <2>7
      <4>2. end # L => q[end + 1] = p[end + 1]
        BY <4>1
      <4>3. q[from] = new
        BY <3>1
      <4> HIDE DEF q
      <4> QED BY <2>6, <3>1, <4>2, <4>3
    <3>2. CASE from # at
      <4>1. from \in at + 1..L + 1 /\ from \in 1..L + 1
        BY <1>0, <2>4, <3>2
      <4>2. PICK stop : stop = PartEnd(text, from)
        OBVIOUS
      <4>3. stop # L => stop + 1 \in from + 1..L + 1
        BY <1>0, <4>1, <4>2, PartEndsLater
      <4>4. stop # L => stop + 1 \in at..L + 1 /\ stop + 1 # at
        BY <1>0, <2>4, <4>1, <4>3
      <4>5. stop # L => q[stop + 1] = p[stop + 1]
        BY <4>4
      <4>6. q[from] = p[from]
        BY <3>2
      <4>7. p[from] = IF stop = L THEN <<<<from, L>>>> ELSE <<<<from, stop>>>> \o p[stop + 1]
        BY <2>5, <4>1, <4>2 DEF Cuts
      <4> HIDE DEF q
      <4> QED BY <4>2, <4>5, <4>6, <4>7
    <3> QED BY <3>1, <3>2
  <2>9. q = [from \in at..L + 1 |-> q[from]]
    OBVIOUS
  <2> HIDE DEF q
  <2>10. Cuts(q, text, at)
    BY <2>8, <2>9 DEF Cuts
  <2> QED BY <2>3, <2>10
<1>3. S \in SUBSET Nat
  OBVIOUS
<1> HIDE DEF S
<1>4. S = Nat
  BY <1>1, <1>2, <1>3, Inductive
<1>5. L + 2 - (L + 1) = 1 /\ L + 1 \in Nat /\ L + 1 <= L + 1
  BY <1>0
<1>6. \E p : Cuts(p, text, 1)
  BY <1>4, <1>5 DEF S
<1> DEFINE parts == CHOOSE p : Cuts(p, text, 1)
<1>7. Cuts(parts, text, 1)
  BY <1>6
<1>8. PageParts(text) = parts[1]
  BY DEF PageParts, Cuts
<1> HIDE DEF parts
<1> QED BY <1>7, <1>8

(* From a place on, the parts follow each other to the end of the text. *)
Follow(parts, text, from) ==
  /\ parts \in Seq(Nat \X Nat) /\ parts # <<>>
  /\ parts[1][1] = from /\ parts[Len(parts)][2] = Len(text)
  /\ \A i \in 1..Len(parts) :
       /\ parts[i][1] \in 1..Len(text) + 1
       /\ parts[i][2] \in parts[i][1] - 1..Len(text)
       /\ parts[i][2] - parts[i][1] < PartChars
       /\ i < Len(parts) => parts[i + 1][1] = parts[i][2] + 1

LEMMA FollowOn ==
  ASSUME NEW text, Text(text), NEW from \in 1..Len(text) + 1, NEW end, NEW rest,
         end = PartEnd(text, from), end # Len(text), Follow(rest, text, end + 1)
  PROVE  Follow(<<<<from, end>>>> \o rest, text, from)
<1> DEFINE L == Len(text)
           P == Nat \X Nat
           part == <<from, end>>
           parts == <<part>> \o rest
<1>0. L \in Nat
  BY DEF Text
<1>1. end \in from..L - 1 /\ end - from < PartChars
  BY PartEndsLater
<1>2. part \in P /\ <<part>> \in Seq(P) /\ rest \in Seq(P) /\ Len(rest) \in Nat \ {0}
  BY <1>0, <1>1 DEF Follow
<1>3. /\ parts \in Seq(P) /\ Len(parts) = Len(rest) + 1
      /\ parts[1] = part
      /\ \A i \in 2..Len(rest) + 1 : parts[i] = rest[i - 1]
  BY <1>2
<1> HIDE DEF P, parts
<1>4. parts # <<>> /\ parts[Len(parts)] = rest[Len(rest)]
  BY <1>2, <1>3
<1>5. ASSUME NEW i \in 1..Len(parts)
      PROVE  /\ parts[i][1] \in 1..L + 1
             /\ parts[i][2] \in parts[i][1] - 1..L
             /\ parts[i][2] - parts[i][1] < PartChars
             /\ i < Len(parts) => parts[i + 1][1] = parts[i][2] + 1
  <2>1. CASE i = 1
    <3>1. parts[2] = rest[1]
      BY <1>2, <1>3
    <3>2. parts[i + 1][1] = end + 1
      BY <2>1, <3>1 DEF Follow
    <3>3. parts[i][1] = from /\ parts[i][2] = end
      BY <1>3, <2>1
    <3> QED BY <1>0, <1>1, <3>2, <3>3
  <2>2. CASE i # 1
    <3>1. PICK j : j = i - 1
      OBVIOUS
    <3>2. PICK m : m = Len(rest)
      OBVIOUS
    <3>3. m \in Nat /\ i \in 1..m + 1 /\ Len(parts) = m + 1
      BY <1>2, <1>3, <3>2
    <3>4. j \in 1..m /\ i \in 2..m + 1 /\ (i < m + 1 => j < m /\ i + 1 \in 2..m + 1 /\ (i + 1) - 1 = j + 1)
      BY <2>2, <3>1, <3>3
    <3>5. parts[i] = rest[j] /\ (i < m + 1 => parts[i + 1] = rest[j + 1])
      BY <1>3, <3>1, <3>2, <3>4
    <3>6. /\ rest[j][1] \in 1..L + 1 /\ rest[j][2] \in rest[j][1] - 1..L
          /\ rest[j][2] - rest[j][1] < PartChars
          /\ j < m => rest[j + 1][1] = rest[j][2] + 1
      BY <3>2, <3>4 DEF Follow
    <3> QED BY <3>3, <3>4, <3>5, <3>6
  <2> QED BY <2>1, <2>2
<1>6. parts[1][1] = from /\ parts[Len(parts)][2] = L
  BY <1>3, <1>4 DEF Follow
<1>7. Follow(parts, text, from)
  BY <1>3, <1>4, <1>5, <1>6 DEF Follow, P
<1> QED BY <1>7 DEF parts

LEMMA PartsFollow ==
  ASSUME NEW text, Text(text)
  PROVE  Follow(PageParts(text), text, 1)
<1> DEFINE L == Len(text)
<1>0. L \in Nat
  BY DEF Text
<1>1. PICK p : Cuts(p, text, 1) /\ PageParts(text) = p[1]
  BY PartsAreCuts
<1> DEFINE S == {n \in Nat : \A from \in 1..L + 1 : from >= L + 1 - n => Follow(p[from], text, from)}
<1>2. ASSUME NEW from \in 1..L + 1,
             PartEnd(text, from) # L => Follow(p[PartEnd(text, from) + 1], text, PartEnd(text, from) + 1)
      PROVE  Follow(p[from], text, from)
  <2>1. PICK end : end = PartEnd(text, from)
    OBVIOUS
  <2>2. p[from] = IF end = L THEN <<<<from, L>>>> ELSE <<<<from, end>>>> \o p[end + 1]
    BY <1>1, <2>1 DEF Cuts
  <2>3. CASE end = L
    <3>1. L \in from - 1..L /\ L - from < PartChars
      BY <2>1, <2>3, PartEndsLater
    <3> DEFINE part == <<from, L>>
    <3>2. part \in Nat \X Nat /\ part[1] = from /\ part[2] = L
      BY <1>0
    <3> HIDE DEF part
    <3>3. p[from] = <<part>>
      BY <2>2, <2>3 DEF part
    <3>4. /\ <<part>> \in Seq(Nat \X Nat) /\ Len(<<part>>) = 1 /\ <<part>>[1] = part
          /\ <<part>> # <<>>
      BY <3>2
    <3>5. \A i \in 1..1 : i = 1 /\ ~(i < 1)
      OBVIOUS
    <3> QED BY <3>1, <3>2, <3>3, <3>4, <3>5 DEF Follow
  <2>4. CASE end # L
    BY <1>2, <2>1, <2>2, <2>4, FollowOn
  <2> QED BY <2>3, <2>4
<1>3. 0 \in S
  <2> SUFFICES ASSUME NEW from \in 1..L + 1, from >= L + 1 - 0 PROVE Follow(p[from], text, from)
    OBVIOUS
  <2>1. from = L + 1
    BY <1>0
  <2>2. PartEnd(text, from) = L
    BY <1>0, <2>1, PartEndsLater
  <2> QED BY <1>2, <2>2
<1>4. \A n \in S : n + 1 \in S
  <2> SUFFICES ASSUME NEW n \in S PROVE n + 1 \in S
    OBVIOUS
  <2>0. n \in Nat /\ n + 1 \in Nat
    OBVIOUS
  <2> SUFFICES ASSUME NEW from \in 1..L + 1, from >= L + 1 - (n + 1)
               PROVE  Follow(p[from], text, from)
    BY <2>0
  <2>1. PICK end : end = PartEnd(text, from)
    OBVIOUS
  <2>2. end # L => end + 1 \in 1..L + 1 /\ end + 1 >= L + 1 - n
    <3>1. end # L => end \in from..L - 1
      BY <2>1, PartEndsLater
    <3> QED BY <1>0, <2>0, <3>1
  <2>3. end # L => Follow(p[end + 1], text, end + 1)
    BY <2>2
  <2> QED BY <1>2, <2>1, <2>3
<1>5. S \in SUBSET Nat
  OBVIOUS
<1>6. S = Nat
  <2> HIDE DEF S
  <2> QED BY <1>3, <1>4, <1>5, Inductive
<1>7. 1 \in 1..L + 1 /\ 1 >= L + 1 - L /\ L \in S
  BY <1>0, <1>6
<1>8. Follow(p[1], text, 1)
  BY <1>7
<1> QED BY <1>1, <1>8

(* Parts that follow each other make up the text. *)
LEMMA PartsMakeUp ==
  ASSUME NEW text, Text(text), NEW parts, Follow(parts, text, 1)
  PROVE  FlattenSeq([n \in DOMAIN parts |-> SubSeq(text, parts[n][1], parts[n][2])]) = text
<1> DEFINE L == Len(text)
           N == Len(parts)
           seqs == [n \in DOMAIN parts |-> SubSeq(text, parts[n][1], parts[n][2])]
<1>0. /\ L \in Nat /\ text \in Seq(ToSet(text))
      /\ N \in Nat \ {0} /\ DOMAIN parts = 1..N
  BY DEF Text, Follow
<1>1. Len(seqs) = N /\ \A n \in 1..N : seqs[n] = SubSeq(text, parts[n][1], parts[n][2])
  <2>1. DOMAIN seqs = 1..N
    BY <1>0
  <2>2. Len(seqs) = N
    BY <1>0, <2>1
  <2> QED BY <1>0, <2>2
<1> HIDE DEF seqs
<1>2. PICK f : Flat(f, seqs, N) /\ FlattenSeq(seqs) = f[N]
  BY <1>0, <1>1, Flattened
<1> DEFINE S == {n \in Nat : n + 1 <= N => f[n + 1] = SubSeq(text, 1, parts[n + 1][2])}
<1>3. \A n \in 1..N : /\ parts[n][1] \in 1..L + 1 /\ parts[n][2] \in parts[n][1] - 1..L
                      /\ n < N => parts[n + 1][1] = parts[n][2] + 1
  BY DEF Follow
<1>4. 0 \in S
  <2>1. f[1] = seqs[1]
    BY <1>0, <1>2 DEF Flat
  <2>2. parts[1][1] = 1
    BY DEF Follow
  <2> QED BY <1>0, <1>1, <2>1, <2>2
<1>5. \A n \in S : n + 1 \in S
  <2> SUFFICES ASSUME NEW n \in S, n + 2 <= N
               PROVE  f[n + 2] = SubSeq(text, 1, parts[n + 2][2])
    OBVIOUS
  <2>1. n \in Nat /\ n + 1 \in 1..N /\ n + 2 \in 1..N /\ n + 1 < N
    BY <1>0
  <2>2. PICK k, e : k = parts[n + 1][2] /\ e = parts[n + 2][2]
    OBVIOUS
  <2>3. f[n + 1] = SubSeq(text, 1, k)
    BY <2>1, <2>2
  <2>4. f[n + 2] = f[n + 1] \o seqs[n + 2]
    <3>1. n + 2 # 1 /\ (n + 2) - 1 = n + 1
      BY <2>1
    <3> QED BY <1>2, <2>1, <3>1 DEF Flat
  <2>5. parts[n + 2][1] = k + 1
    <3>1. (n + 1) + 1 = n + 2
      BY <2>1
    <3> QED BY <1>3, <2>1, <2>2, <3>1
  <2>6. k \in 0..L /\ e \in k..L
    BY <1>0, <1>3, <2>1, <2>2, <2>5
  <2>7. SubSeq(text, 1, k) \o SubSeq(text, k + 1, e) = SubSeq(text, 1, e)
    BY <1>0, <2>6, ConcatAdjacentSubSeq
  <2> QED BY <1>1, <2>1, <2>2, <2>3, <2>4, <2>5, <2>7
<1>6. S \in SUBSET Nat
  OBVIOUS
<1>7. S = Nat
  <2> HIDE DEF S
  <2> QED BY <1>4, <1>5, <1>6, Inductive
<1>8. f[N] = SubSeq(text, 1, parts[N][2])
  <2>1. PICK n : n = N - 1
    OBVIOUS
  <2>2. n \in Nat /\ n + 1 = N /\ n + 1 <= N
    BY <1>0, <2>1
  <2>3. f[n + 1] = SubSeq(text, 1, parts[n + 1][2])
    BY <1>7, <2>2
  <2> QED BY <2>2, <2>3
<1>9. f[N] = SubSeq(text, 1, L)
  <2>1. parts[N][2] = L
    BY DEF Follow
  <2> QED BY <1>8, <2>1
<1>10. SubSeq(text, 1, L) = text
  BY <1>0, SubSeqFull
<1> QED BY <1>2, <1>9, <1>10 DEF seqs

(* A page the model reads part after part is read whole, every character   *)
(* once, in parts of at most the size the budget allows, for any text and  *)
(* any size of a part (page_parts).                                        *)
THEOREM PartsAreWhole == PagesSpec => []PartsAreThePage
<1>1. MemoryInv => PartsAreThePage
  <2> SUFFICES ASSUME MemoryInv, NEW id \in DOMAIN store, NEW text, text = store[id].page.text
               PROVE  LET parts == PageParts(text) IN
                      /\ FlattenSeq([n \in DOMAIN parts |-> SubSeq(text, parts[n][1], parts[n][2])]) = text
                      /\ \A n \in DOMAIN parts : parts[n][2] - parts[n][1] < PartChars
    BY DEF PartsAreThePage
  <2>0. store \in Seq(Stored)
    BY DEF MemoryInv, Sound
  <2>1. store[id].page \in AnyPage
    <3>1. store[id] \in Stored
      BY <2>0
    <3> QED BY <3>1 DEF Stored
  <2>2. Text(text)
    BY <2>1, EvidenceAssumption DEF AnyPage, Keys, Text
  <2> DEFINE parts == PageParts(text)
  <2>3. Follow(parts, text, 1)
    BY <2>2, PartsFollow
  <2> HIDE DEF parts
  <2>4. FlattenSeq([n \in DOMAIN parts |-> SubSeq(text, parts[n][1], parts[n][2])]) = text
    BY <2>2, <2>3, PartsMakeUp
  <2>5. \A n \in DOMAIN parts : parts[n][2] - parts[n][1] < PartChars
    BY <2>3 DEF Follow
  <2> QED BY <2>4, <2>5 DEF parts
<1> QED BY <1>1, MemoryStarts, MemoryStep, PTL DEF PagesSpec
=============================================================================
