----------------------------- MODULE FanoutProofs -----------------------------
(***************************************************************************)
(* Theorems about Fanout, for every number of Queries and engines, every   *)
(* permit count, cap and deadline.  The argument does not need the types   *)
(* of the clock or of the verdict, only those of the tasks and their       *)
(* atomic states.                                                          *)
(***************************************************************************)
EXTENDS Fanout, TLAPS

Loop == [phase : {"loop", "cancel", "returned"}, soft : BOOLEAN, success : BOOLEAN,
         todo : SUBSET Slot, verdict : {"none", "ok", "failed", "blocked"}]

(* The part of TypeOK the argument uses. *)
Shape ==
  /\ call.legs \subseteq Slot
  /\ state \in [Slot -> {"queued", "started", "cancelled"}]
  /\ leg \in [Slot -> Task]
  /\ aborted \subseteq Slot
  /\ main \in Loop

(* Whatever has been on the wire won the exchange with cancel_queued. *)
WireStarted ==
  \A s \in Slot :
    \/ leg[s].retried
    \/ leg[s].pc \in {"wire", "backoff", "panicked"}
    \/ leg[s].pc = "done" /\ leg[s].result \in {"empty", "challenge", "upstream", "transport"}
    => state[s] = "started"

(* Until the call returns, only cancelled legs are aborted. *)
AbortedCancelled ==
  main.phase # "returned" => \A s \in aborted : state[s] = "cancelled"

SendInv == Shape /\ WireStarted /\ AbortedCancelled

(* cancel_queued runs after the soft deadline and a success, and the legs  *)
(* it has passed are not queued.                                           *)
CancelPass ==
  main.phase = "cancel" => \A s \in call.legs \ main.todo : state[s] # "queued"

QueueInv == Shape /\ CancelPass /\ NoneLeftQueued

-----------------------------------------------------------------------------
(* The values of pc and result, and the tasks they make. *)
LEMMA TaskType ==
  ASSUME NEW task \in Task, NEW pc \in PC, NEW outcome \in Outcome
  PROVE  /\ [task EXCEPT !.pc = pc] \in Task
         /\ [task EXCEPT !.pc = "done", !.result = outcome] \in Task
         /\ [task EXCEPT !.pc = "gap", !.retried = TRUE] \in Task
<1>1. "done" \in PC /\ "gap" \in PC
  BY DEF PC, Await, Ended
<1>2. \A p \in PC : [task EXCEPT !.pc = p] \in Task
  BY DEF Task
<1>3. \A t \in Task : [t EXCEPT !.result = outcome] \in Task
  BY DEF Task
<1>4. \A t \in Task : [t EXCEPT !.retried = TRUE] \in Task
  BY DEF Task
<1>5. [task EXCEPT !.pc = "done", !.result = outcome]
        = [[task EXCEPT !.pc = "done"] EXCEPT !.result = outcome]
  OBVIOUS
<1>6. [task EXCEPT !.pc = "gap", !.retried = TRUE]
        = [[task EXCEPT !.pc = "gap"] EXCEPT !.retried = TRUE]
  OBVIOUS
<1> QED BY <1>1, <1>2, <1>3, <1>4, <1>5, <1>6

(* The updates the loop makes to its own record. *)
LEMMA LoopType ==
  ASSUME NEW m \in Loop, NEW b \in BOOLEAN, NEW todo \in SUBSET Slot,
         NEW phase \in {"loop", "cancel", "returned"},
         NEW verdict \in {"ok", "failed", "blocked"}
  PROVE  /\ [m EXCEPT !.soft = b, !.phase = phase, !.todo = todo] \in Loop
         /\ [m EXCEPT !.success = b, !.phase = phase, !.todo = todo] \in Loop
         /\ [m EXCEPT !.todo = todo, !.phase = phase] \in Loop
         /\ [m EXCEPT !.phase = phase, !.verdict = verdict] \in Loop
<1>1. \A x \in Loop : [x EXCEPT !.phase = phase] \in Loop
  BY DEF Loop
<1>2. \A x \in Loop : [x EXCEPT !.soft = b] \in Loop
  BY DEF Loop
<1>3. \A x \in Loop : [x EXCEPT !.success = b] \in Loop
  BY DEF Loop
<1>4. \A x \in Loop : [x EXCEPT !.todo = todo] \in Loop
  BY DEF Loop
<1>5. \A x \in Loop : [x EXCEPT !.verdict = verdict] \in Loop
  BY DEF Loop
<1>6. [m EXCEPT !.soft = b, !.phase = phase, !.todo = todo]
        = [[[m EXCEPT !.soft = b] EXCEPT !.phase = phase] EXCEPT !.todo = todo]
  OBVIOUS
<1>7. [m EXCEPT !.success = b, !.phase = phase, !.todo = todo]
        = [[[m EXCEPT !.success = b] EXCEPT !.phase = phase] EXCEPT !.todo = todo]
  OBVIOUS
<1>8. [m EXCEPT !.todo = todo, !.phase = phase]
        = [[m EXCEPT !.todo = todo] EXCEPT !.phase = phase]
  OBVIOUS
<1>9. [m EXCEPT !.phase = phase, !.verdict = verdict]
        = [[m EXCEPT !.phase = phase] EXCEPT !.verdict = verdict]
  OBVIOUS
<1> QED BY <1>1, <1>2, <1>3, <1>4, <1>5, <1>6, <1>7, <1>8, <1>9

(* A leg action changes the task of one leg only. *)
LEMMA Moves ==
  ASSUME Shape, NEW s \in Slot
  PROVE  /\ \A pc \in PC : Goto(s, pc) =>
              /\ leg' \in [Slot -> Task]
              /\ \A t \in Slot \ {s} : leg'[t] = leg[t]
              /\ leg'[s].pc = pc /\ leg'[s].retried = leg[s].retried
         /\ \A outcome \in Outcome : Return(s, outcome) =>
              /\ leg' \in [Slot -> Task]
              /\ \A t \in Slot \ {s} : leg'[t] = leg[t]
              /\ leg'[s].pc = "done" /\ leg'[s].result = outcome
              /\ leg'[s].retried = leg[s].retried
<1>1. leg[s] \in Task /\ DOMAIN leg = Slot
  BY DEF Shape
<1>2. ASSUME NEW pc \in PC, Goto(s, pc)
      PROVE  /\ leg' \in [Slot -> Task]
             /\ \A t \in Slot \ {s} : leg'[t] = leg[t]
             /\ leg'[s].pc = pc /\ leg'[s].retried = leg[s].retried
  <2>1. leg' = [leg EXCEPT ![s] = [leg[s] EXCEPT !.pc = pc]]
    BY <1>2 DEF Goto
  <2>2. [leg[s] EXCEPT !.pc = pc] \in Task
    BY <1>1, TaskType DEF Outcome, Answered
  <2>3. [leg[s] EXCEPT !.pc = pc].pc = pc
        /\ [leg[s] EXCEPT !.pc = pc].retried = leg[s].retried
    BY <1>1 DEF Task
  <2> QED BY <2>1, <2>2, <2>3 DEF Shape
<1>3. ASSUME NEW outcome \in Outcome, Return(s, outcome)
      PROVE  /\ leg' \in [Slot -> Task]
             /\ \A t \in Slot \ {s} : leg'[t] = leg[t]
             /\ leg'[s].pc = "done" /\ leg'[s].result = outcome
             /\ leg'[s].retried = leg[s].retried
  <2> DEFINE returned == [leg[s] EXCEPT !.pc = "done", !.result = outcome]
  <2>1. leg' = [leg EXCEPT ![s] = returned]
    BY <1>3 DEF Return
  <2>2. returned \in Task
    BY <1>1, TaskType DEF PC, Await
  <2>3. returned.pc = "done" /\ returned.result = outcome
        /\ returned.retried = leg[s].retried
    BY <1>1 DEF Task
  <2> HIDE DEF returned
  <2> QED BY <2>1, <2>2, <2>3 DEF Shape
<1> QED BY <1>2, <1>3

(* What the steps of the loop do to its record and to the legs. *)
LEMMA LoopSteps ==
  ASSUME Shape
  PROVE  /\ \A s \in Slot : Join(s) =>
                       /\ Shape' /\ main.phase = "loop"
                       /\ UNCHANGED <<call, state, leg, aborted>>
                       /\ main'.soft = main.soft
                       /\ \/ main'.phase = "loop" /\ (~main.soft \/ main'.success = main.success)
                          \/ main'.phase = "cancel" /\ main'.todo = call.legs
         /\ Soft => /\ Shape' /\ main.phase = "loop"
                    /\ UNCHANGED <<call, state, leg, aborted>>
                    /\ main'.success = main.success
                    /\ \/ main'.phase = "loop" /\ ~main.success
                       \/ main'.phase = "cancel" /\ main'.todo = call.legs
         /\ Finish => /\ Shape' /\ main'.phase = "returned"
                      /\ UNCHANGED <<call, state, leg>>
<1>0. main \in Loop /\ call.legs \in SUBSET Slot /\ main.todo \in SUBSET Slot
      /\ main.soft \in BOOLEAN /\ main.success \in BOOLEAN
  BY DEF Shape, Loop
<1>1. ASSUME NEW s \in Slot, Join(s)
      PROVE  /\ Shape' /\ main.phase = "loop"
             /\ UNCHANGED <<call, state, leg, aborted>>
             /\ main'.soft = main.soft
             /\ \/ main'.phase = "loop" /\ (~main.soft \/ main'.success = main.success)
                \/ main'.phase = "cancel" /\ main'.todo = call.legs
  <2>1. main.phase = "loop" /\ UNCHANGED <<call, state, leg, aborted>>
    BY <1>1 DEF Join
  <2>2. CASE UNCHANGED main
    BY <2>1, <2>2, <1>0 DEF Shape
  <2>3. CASE ~UNCHANGED main
    <3> DEFINE ok == leg[s].result \in Answered
               success == main.success \/ ok
               phase == IF ok /\ main.soft THEN "cancel" ELSE main.phase
               todo == IF ok /\ main.soft THEN call.legs ELSE main.todo
    <3>1. main' = [main EXCEPT !.success = success, !.phase = phase, !.todo = todo]
      BY <1>1, <2>3 DEF Join
    <3>2. success \in BOOLEAN /\ phase \in {"loop", "cancel", "returned"}
          /\ todo \in SUBSET Slot
      BY <1>0, <2>1
    <3>3. \/ phase = "loop" /\ (~main.soft \/ success = main.success)
          \/ phase = "cancel" /\ todo = call.legs
      BY <1>0, <2>1
    <3> HIDE DEF success, phase, todo
    <3>4. main' \in Loop
      BY <1>0, <3>1, <3>2, LoopType
    <3>5. main'.success = success /\ main'.phase = phase /\ main'.todo = todo
          /\ main'.soft = main.soft
      BY <1>0, <3>1 DEF Loop
    <3> QED BY <2>1, <3>3, <3>4, <3>5 DEF Shape
  <2> QED BY <2>2, <2>3
<1>2. ASSUME Soft
      PROVE  /\ Shape' /\ main.phase = "loop"
             /\ UNCHANGED <<call, state, leg, aborted>>
             /\ main'.success = main.success
             /\ \/ main'.phase = "loop" /\ ~main.success
                \/ main'.phase = "cancel" /\ main'.todo = call.legs
  <2>1. main.phase = "loop" /\ UNCHANGED <<call, state, leg, aborted>>
    BY <1>2 DEF Soft
  <2> DEFINE phase == IF main.success THEN "cancel" ELSE main.phase
             todo == IF main.success THEN call.legs ELSE main.todo
  <2>2. main' = [main EXCEPT !.soft = TRUE, !.phase = phase, !.todo = todo]
    BY <1>2 DEF Soft
  <2>3. phase \in {"loop", "cancel", "returned"} /\ todo \in SUBSET Slot
    BY <1>0, <2>1
  <2>4. \/ phase = "loop" /\ ~main.success
        \/ phase = "cancel" /\ todo = call.legs
    BY <1>0, <2>1
  <2> HIDE DEF phase, todo
  <2>5. main' \in Loop
    BY <1>0, <2>2, <2>3, LoopType
  <2>6. main'.success = main.success /\ main'.phase = phase /\ main'.todo = todo
    BY <1>0, <2>2 DEF Loop
  <2> QED BY <2>1, <2>4, <2>5, <2>6 DEF Shape
<1>3. ASSUME Finish
      PROVE  Shape' /\ main'.phase = "returned" /\ UNCHANGED <<call, state, leg>>
  <2>1. Verdict(Report) \in {"ok", "failed", "blocked"}
    BY DEF Verdict
  <2>2. main' = [main EXCEPT !.phase = "returned", !.verdict = Verdict(Report)]
        /\ aborted' = call.legs /\ UNCHANGED <<call, state, leg>>
    BY <1>3 DEF Finish
  <2>3. main' \in Loop
    BY <1>0, <2>1, <2>2, LoopType
  <2>4. main'.phase = "returned"
    BY <1>0, <2>2 DEF Loop
  <2> QED BY <2>2, <2>3, <2>4 DEF Shape
<1> QED BY <1>1, <1>2, <1>3

(* The one step that marks a leg cancelled. *)
LEMMA CancelStep ==
  ASSUME Shape, NEW s \in Slot, Cancel(s)
  PROVE  /\ Shape' /\ main.phase = "cancel" /\ UNCHANGED <<call, leg>>
         /\ \A t \in Slot \ {s} : state'[t] = state[t]
         /\ \/ state[s] = "queued" /\ state'[s] = "cancelled" /\ aborted' = aborted \cup {s}
            \/ state[s] # "queued" /\ state'[s] = state[s] /\ aborted' = aborted
         /\ main'.todo = main.todo \ {s}
         /\ \/ main'.phase = "cancel"
            \/ main'.phase = "loop" /\ main.todo = {s}
<1>0. main \in Loop /\ main.todo \in SUBSET Slot
  BY DEF Shape, Loop
<1>1. main.phase = "cancel" /\ UNCHANGED <<call, leg>>
  BY DEF Cancel
<1> DEFINE phase == IF main.todo = {s} THEN "loop" ELSE main.phase
<1>2. main' = [main EXCEPT !.todo = main.todo \ {s}, !.phase = phase]
  BY DEF Cancel
<1>3. phase \in {"loop", "cancel"} /\ (phase = "loop" => main.todo = {s})
  BY <1>1
<1> HIDE DEF phase
<1>4. main' \in Loop
  BY <1>0, <1>2, <1>3, LoopType
<1>5. main'.todo = main.todo \ {s} /\ main'.phase = phase
  BY <1>0, <1>2 DEF Loop
<1>6. CASE state[s] = "queued"
  <2>1. state' = [state EXCEPT ![s] = "cancelled"] /\ aborted' = aborted \cup {s}
    BY <1>6 DEF Cancel
  <2> QED BY <1>1, <1>3, <1>4, <1>5, <1>6, <2>1 DEF Shape
<1>7. CASE state[s] # "queued"
  <2>1. UNCHANGED <<state, aborted>>
    BY <1>7 DEF Cancel
  <2> QED BY <1>1, <1>3, <1>4, <1>5, <1>7, <2>1 DEF Shape
<1> QED BY <1>6, <1>7

(* The steps of a leg that leave it where it was with respect to the wire. *)
LEMMA LegStepSend ==
  ASSUME SendInv, NEW s \in Slot, Scheduled(s) \/ Awaited(s)
  PROVE  SendInv'
<1> USE DEF SendInv
<1> DEFINE Others == \A t \in Slot \ {s} : leg'[t] = leg[t]
           Silent == {"rows", "throttled", "walled", "suspended", "timeout"}
<1>f. Refusal(EngineOf(s)) \in {"walled", "suspended"}
  BY DEF Refusal
<1>q. ASSUME NEW pc \in {"acquire", "pace", "gap", "start", "dropped"},
             Goto(s, pc), UNCHANGED <<call, state, aborted, main>>
      PROVE  SendInv'
  <2>1. leg' \in [Slot -> Task] /\ Others
        /\ leg'[s].pc = pc /\ leg'[s].retried = leg[s].retried
    BY <1>q, Moves DEF PC, Await, Ended
  <2>2. WireStarted'
    BY <1>q, <2>1 DEF WireStarted
  <2> QED BY <1>q, <2>1, <2>2 DEF Shape, AbortedCancelled
<1>s. ASSUME NEW outcome \in Silent,
             Return(s, outcome), UNCHANGED <<call, state, aborted, main>>
      PROVE  SendInv'
  <2>1. leg' \in [Slot -> Task] /\ Others
        /\ leg'[s].pc = "done" /\ leg'[s].result = outcome
        /\ leg'[s].retried = leg[s].retried
    BY <1>s, Moves DEF Outcome, Answered, Failed
  <2>2. WireStarted'
    BY <1>s, <2>1 DEF WireStarted
  <2> QED BY <1>s, <2>1, <2>2 DEF Shape, AbortedCancelled
<1>w. ASSUME state[s] = "started", UNCHANGED <<call, state, aborted, main>>,
             \/ \E pc \in {"wire", "backoff", "panicked"} : Goto(s, pc)
             \/ \E outcome \in Outcome : Return(s, outcome)
      PROVE  SendInv'
  <2>1. leg' \in [Slot -> Task] /\ Others
    BY <1>w, Moves DEF PC, Await, Ended
  <2>2. WireStarted'
    BY <1>w, <2>1 DEF WireStarted
  <2> QED BY <1>w, <2>1, <2>2 DEF Shape, AbortedCancelled
<1>1. CASE Begin(s)
  BY <1>1, <1>f, <1>q, <1>s DEF Begin
<1>2. CASE Acquire(s)
  BY <1>2, <1>q DEF Acquire
<1>3. CASE Pace(s)
  BY <1>3, <1>f, <1>q, <1>s DEF Pace
<1>4. CASE Proceed(s)
  <2>1. CASE leg[s].retried
    <3>1. state[s] = "started"
      BY <2>1 DEF WireStarted
    <3> QED BY <1>4, <2>1, <3>1, <1>w DEF Proceed
  <2>2. CASE ~leg[s].retried
    BY <1>4, <2>2, <1>q DEF Proceed
  <2> QED BY <2>1, <2>2
<1>5. CASE Start(s)
  <2>1. CASE state[s] = "queued"
    <3>1. state' = [state EXCEPT ![s] = "started"] /\ Goto(s, "wire")
          /\ UNCHANGED <<call, aborted, main>>
      BY <1>5, <2>1 DEF Start
    <3>2. leg' \in [Slot -> Task] /\ Others
      BY <3>1, Moves DEF PC, Await
    <3>3. WireStarted'
      BY <3>1, <3>2 DEF WireStarted, Shape
    <3>4. AbortedCancelled'
      BY <2>1, <3>1 DEF AbortedCancelled, Shape
    <3> QED BY <3>1, <3>2, <3>3, <3>4 DEF Shape
  <2>2. CASE state[s] # "queued"
    BY <1>5, <2>2, <1>s DEF Start
  <2> QED BY <2>1, <2>2
<1>6. CASE Answer(s)
  <2>1. state[s] = "started"
    BY <1>6 DEF Answer, WireStarted
  <2> QED BY <1>6, <2>1, <1>w DEF Answer, Settle, Outcome, Answered, Failed
<1>7. CASE TransportFail(s)
  <2>1. state[s] = "started"
    BY <1>7 DEF TransportFail, WireStarted
  <2> QED BY <1>7, <2>1, <1>w DEF TransportFail, Settle, Outcome, Failed
<1>8. CASE Retry(s)
  <2>1. state[s] = "started"
    BY <1>8 DEF Retry, WireStarted
  <2>2. CASE Settle(s, "transport")
    BY <1>8, <2>1, <2>2, <1>w DEF Retry, Settle, Outcome, Failed
  <2>3. CASE leg' = [leg EXCEPT ![s].pc = "gap", ![s].retried = TRUE]
    <3>1. leg' = [leg EXCEPT ![s] = [leg[s] EXCEPT !.pc = "gap", !.retried = TRUE]]
      BY <2>3
    <3>2. [leg[s] EXCEPT !.pc = "gap", !.retried = TRUE] \in Task
      BY TaskType DEF Shape, PC, Await, Outcome, Answered
    <3>3. leg' \in [Slot -> Task] /\ Others
      BY <3>1, <3>2 DEF Shape
    <3>4. WireStarted'
      BY <1>8, <2>1, <3>3 DEF Retry, WireStarted
    <3> QED BY <1>8, <3>3, <3>4 DEF Retry, Shape, AbortedCancelled
  <2> QED BY <1>8, <2>2, <2>3 DEF Retry
<1>9. CASE Panic(s)
  <2>1. state[s] = "started"
    BY <1>9 DEF Panic, WireStarted
  <2> QED BY <1>9, <2>1, <1>w DEF Panic
<1>10. CASE Drop(s)
  BY <1>10, <1>q DEF Drop
<1> QED
  BY <1>1, <1>2, <1>3, <1>4, <1>5, <1>6, <1>7, <1>8, <1>9, <1>10 DEF Scheduled, Awaited

LEMMA NextSend == SendInv /\ [Next]_vars => SendInv'
<1> SUFFICES ASSUME SendInv, [Next]_vars PROVE SendInv'
  OBVIOUS
<1> USE DEF SendInv
<1>1. CASE \E s \in Slot : Scheduled(s) \/ Awaited(s)
  BY <1>1, LegStepSend
<1>2. ASSUME NEW s \in Slot, Join(s) PROVE SendInv'
  BY <1>2, LoopSteps DEF WireStarted, AbortedCancelled
<1>3. ASSUME NEW s \in Slot, Cancel(s) PROVE SendInv'
  <2>1. WireStarted'
    BY <1>3, CancelStep DEF WireStarted
  <2>2. AbortedCancelled'
    BY <1>3, CancelStep DEF AbortedCancelled, Shape
  <2> QED BY <1>3, <2>1, <2>2, CancelStep
<1>4. CASE Soft \/ Finish
  BY <1>4, LoopSteps DEF WireStarted, AbortedCancelled
<1>5. CASE UNCHANGED <<call, state, leg, aborted, main>>
  BY <1>5 DEF Shape, WireStarted, AbortedCancelled
<1> QED
  BY <1>1, <1>2, <1>3, <1>4, <1>5 DEF Next, Main, Elsewhere, Tick, vars

LEMMA InitShape == Init => Shape /\ main.phase # "cancel" /\ ~main.soft
<1> SUFFICES ASSUME Init PROVE Shape /\ main.phase # "cancel" /\ ~main.soft
  OBVIOUS
<1>1. call.legs \subseteq Slot
  BY DEF Init, LegsOf
<1>2. leg \in [Slot -> Task]
  BY DEF Init, Task, PC, Await, Ended
<1>3. main \in Loop /\ main.phase # "cancel" /\ ~main.soft
  BY DEF Init, Loop
<1> QED BY <1>1, <1>2, <1>3 DEF Init, Shape

LEMMA InitSend == Init => SendInv
<1> SUFFICES ASSUME Init PROVE SendInv
  OBVIOUS
<1>1. WireStarted
  BY DEF Init, WireStarted
<1>2. AbortedCancelled
  BY DEF Init, AbortedCancelled
<1> QED BY <1>1, <1>2, InitShape DEF SendInv

(* No leg that the soft deadline cancelled ever sends a request, and no    *)
(* request on the wire is cut before the call returns, however the tasks,  *)
(* the deadlines and cancel_queued interleave.                             *)
THEOREM CancelledNeverSends == Spec => []CancelledUnsent
<1>1. ASSUME SendInv PROVE CancelledUnsent
  <2>1. \A s \in Slot : Dispatched(s) => state[s] = "started"
    BY <1>1 DEF SendInv, WireStarted, Dispatched
  <2> QED
    BY <1>1, <2>1 DEF SendInv, Shape, AbortedCancelled, CancelledUnsent
<1> QED BY <1>1, InitSend, NextSend, PTL DEF Spec

-----------------------------------------------------------------------------
(* A leg action leaves the loop alone and queues no leg. *)
LEMMA LegStepQueue ==
  ASSUME Shape, NEW s \in Slot, Scheduled(s) \/ Awaited(s)
  PROVE  UNCHANGED <<call, main>> /\ \A t \in Slot : state'[t] # state[t] => state'[t] = "started"
<1>1. CASE Start(s)
  BY <1>1 DEF Start, Shape
<1>2. CASE UNCHANGED <<call, main, state>>
  BY <1>2
<1> QED
  BY <1>1, <1>2 DEF Scheduled, Awaited, Begin, Acquire, Pace, Proceed, Answer,
                    TransportFail, Retry, Panic, Drop

LEMMA NextQueue == SendInv /\ QueueInv /\ [Next]_vars => QueueInv'
<1> SUFFICES ASSUME SendInv, QueueInv, [Next]_vars PROVE QueueInv'
  OBVIOUS
<1>0. Shape' /\ call.legs \subseteq Slot
  BY NextSend DEF SendInv, Shape
<1> USE DEF QueueInv
<1>1. ASSUME NEW s \in Slot, Scheduled(s) \/ Awaited(s) PROVE QueueInv'
  <2>1. UNCHANGED <<call, main>>
        /\ \A t \in Slot : state'[t] # state[t] => state'[t] = "started"
    BY <1>1, LegStepQueue
  <2> QED BY <1>0, <2>1 DEF CancelPass, NoneLeftQueued
<1>2. ASSUME NEW s \in Slot, Join(s) PROVE QueueInv'
  <2>1. /\ main.phase = "loop" /\ UNCHANGED <<call, state>> /\ main'.soft = main.soft
        /\ \/ main'.phase = "loop" /\ (~main.soft \/ main'.success = main.success)
           \/ main'.phase = "cancel" /\ main'.todo = call.legs
    BY <1>2, LoopSteps
  <2>2. CASE main'.phase = "loop"
    BY <1>0, <2>1, <2>2 DEF CancelPass, NoneLeftQueued
  <2>3. CASE main'.phase = "cancel" /\ main'.todo = call.legs
    BY <1>0, <2>1, <2>3 DEF CancelPass, NoneLeftQueued
  <2> QED BY <2>1, <2>2, <2>3
<1>3. ASSUME NEW s \in Slot, Cancel(s) PROVE QueueInv'
  <2>1. \A t \in call.legs \ (main.todo \ {s}) : state'[t] # "queued"
    BY <1>0, <1>3, CancelStep DEF CancelPass
  <2>2. call' = call /\ main'.todo = main.todo \ {s}
        /\ (main'.phase = "loop" => main.todo = {s})
    BY <1>3, CancelStep
  <2> QED BY <1>0, <2>1, <2>2 DEF CancelPass, NoneLeftQueued
<1>4. CASE Soft
  BY <1>0, <1>4, LoopSteps DEF CancelPass, NoneLeftQueued
<1>5. CASE Finish
  BY <1>0, <1>5, LoopSteps DEF CancelPass, NoneLeftQueued
<1>6. CASE UNCHANGED <<call, state, main>>
  BY <1>0, <1>6 DEF CancelPass, NoneLeftQueued
<1> QED
  BY <1>1, <1>2, <1>3, <1>4, <1>5, <1>6 DEF Next, Main, Elsewhere, Tick, vars

(* Once the soft deadline has passed and a leg has succeeded, the call     *)
(* waits only for requests that are on the wire.                           *)
THEOREM WaitsOnlyForTheWire == Spec => []NoneLeftQueued
<1>1. Init => QueueInv
  BY InitShape DEF QueueInv, CancelPass, NoneLeftQueued
<1> QED BY <1>1, InitSend, NextSend, NextQueue, PTL DEF Spec, QueueInv

-----------------------------------------------------------------------------
(* A task that is done has an outcome. *)
DoneHasOutcome == \A s \in Slot : leg[s].pc = "done" => leg[s].result \in Outcome

TypeInv == TypeOK /\ DoneHasOutcome

LEMMA TypeShape == TypeOK => Shape
BY DEF TypeOK, Shape, Loop

(* What every step of a task leaves alone, and the types of what it sets.  *)
LEMMA LegStep ==
  ASSUME TypeOK, NEW s \in Slot, Scheduled(s) \/ Awaited(s)
  PROVE  /\ UNCHANGED <<now, call, aborted, main, slot>>
         /\ leg' \in [Slot -> Task] /\ leg[s].pc \notin Ended
         /\ \A t \in Slot \ {s} : leg'[t] = leg[t]
         /\ leg'[s].pc = "done" => leg'[s].result \in Outcome
         /\ wall' \in [Engine -> Wall]
         /\ state' \in [Slot -> {"queued", "started", "cancelled"}]
<1> DEFINE Moved == /\ leg' \in [Slot -> Task]
                    /\ \A t \in Slot \ {s} : leg'[t] = leg[t]
                    /\ leg'[s].pc = "done" => leg'[s].result \in Outcome
<1>0. Shape /\ leg \in [Slot -> Task] /\ wall \in [Engine -> Wall]
      /\ state \in [Slot -> {"queued", "started", "cancelled"}] /\ EngineOf(s) \in Engine
  BY TypeShape DEF TypeOK, Slot, EngineOf
<1>g. \A pc \in PC \ {"done"} : Goto(s, pc) => Moved
  BY <1>0, Moves
<1>r. \A outcome \in Outcome : Return(s, outcome) => Moved
  BY <1>0, Moves
<1>f. Refusal(EngineOf(s)) \in Outcome
  BY DEF Refusal, Outcome, Failed
<1>o. {"rows", "throttled", "timeout", "transport"} \cup Answered
        \cup {"challenge", "upstream", "timeout"} \subseteq Outcome
  BY DEF Outcome, Answered, Failed
<1>p. {"acquire", "pace", "gap", "start", "wire", "backoff", "panicked", "dropped"}
        \subseteq PC \ {"done"}
  BY DEF PC, Await, Ended
<1>s. ASSUME NEW outcome \in Outcome, Settle(s, outcome)
      PROVE  Moved /\ wall' \in [Engine -> Wall]
  <2>1. Recorded(EngineOf(s), outcome) \subseteq Wall
    BY <1>0 DEF Recorded, Wall
  <2>2. PICK reason \in Wall : wall' = [wall EXCEPT ![EngineOf(s)] = reason]
    BY <1>s, <2>1 DEF Settle
  <2>3. wall' \in [Engine -> Wall]
    BY <1>0, <2>2
  <2> QED BY <1>s, <1>r, <2>3 DEF Settle
<1> HIDE DEF Moved
<1>1. CASE Begin(s)
  <2>1. Moved
    BY <1>1, <1>g, <1>r, <1>f, <1>o, <1>p DEF Begin
  <2> QED BY <1>0, <1>1, <2>1 DEF Begin, Moved, Ended
<1>2. CASE Acquire(s)
  <2>1. Moved
    BY <1>2, <1>g, <1>p DEF Acquire
  <2> QED BY <1>0, <1>2, <2>1 DEF Acquire, Moved, Ended
<1>3. CASE Pace(s)
  <2>1. Moved
    BY <1>3, <1>g, <1>r, <1>f, <1>o, <1>p DEF Pace
  <2> QED BY <1>0, <1>3, <2>1 DEF Pace, Moved, Ended
<1>4. CASE Proceed(s)
  <2>1. Moved
    BY <1>4, <1>g, <1>p DEF Proceed
  <2> QED BY <1>0, <1>4, <2>1 DEF Proceed, Moved, Ended
<1>5. CASE Start(s)
  <2>1. Moved
    BY <1>5, <1>g, <1>r, <1>o, <1>p DEF Start
  <2>2. state' \in [Slot -> {"queued", "started", "cancelled"}]
    BY <1>0, <1>5 DEF Start
  <2> QED BY <1>0, <1>5, <2>1, <2>2 DEF Start, Moved, Ended
<1>6. CASE Answer(s)
  <2>1. Moved /\ wall' \in [Engine -> Wall]
    BY <1>6, <1>s, <1>o DEF Answer
  <2> QED BY <1>0, <1>6, <2>1 DEF Answer, Moved, Ended
<1>7. CASE TransportFail(s)
  <2>1. Moved /\ wall' \in [Engine -> Wall]
    BY <1>0, <1>7, <1>s, <1>g, <1>o, <1>p DEF TransportFail
  <2> QED BY <1>0, <1>7, <2>1 DEF TransportFail, Moved, Ended
<1>8. CASE Retry(s)
  <2>1. CASE Settle(s, "transport")
    <3>1. Moved /\ wall' \in [Engine -> Wall]
      BY <2>1, <1>s, <1>o
    <3> QED BY <1>0, <1>8, <3>1 DEF Retry, Moved, Ended
  <2>2. CASE leg' = [leg EXCEPT ![s].pc = "gap", ![s].retried = TRUE] /\ UNCHANGED wall
    <3>1. leg' = [leg EXCEPT ![s] = [leg[s] EXCEPT !.pc = "gap", !.retried = TRUE]]
      BY <2>2
    <3>2. [leg[s] EXCEPT !.pc = "gap", !.retried = TRUE] \in Task
      BY <1>0, TaskType DEF PC, Await, Outcome, Answered
    <3>3. [leg[s] EXCEPT !.pc = "gap", !.retried = TRUE].pc = "gap"
      BY <1>0 DEF Task
    <3>4. Moved
      BY <1>0, <3>1, <3>2, <3>3 DEF Moved
    <3> QED BY <1>0, <1>8, <2>2, <3>4 DEF Retry, Moved, Ended
  <2> QED BY <1>8, <2>1, <2>2 DEF Retry
<1>9. CASE Panic(s)
  <2>1. Moved
    BY <1>9, <1>g, <1>p DEF Panic
  <2> QED BY <1>0, <1>9, <2>1 DEF Panic, Moved, Ended
<1>10. CASE Drop(s)
  <2>1. Moved
    BY <1>10, <1>g, <1>p DEF Drop
  <2> QED BY <1>0, <1>10, <2>1 DEF Drop, Moved, Ended, Await
<1> QED
  BY <1>1, <1>2, <1>3, <1>4, <1>5, <1>6, <1>7, <1>8, <1>9, <1>10 DEF Scheduled, Awaited

(* What joining a leg keeps of it, and when it sends the loop to cancel.   *)
LEMMA JoinStep ==
  ASSUME TypeInv, NEW s \in Slot, Join(s)
  PROVE  /\ UNCHANGED <<now, call, wall, state, leg, aborted>>
         /\ s \in call.legs /\ slot[s] = "unset" /\ main.phase = "loop"
         /\ slot' \in [Slot -> Outcome \cup {"unset", "cut"}]
         /\ \A t \in Slot \ {s} : slot'[t] = slot[t]
         /\ \/ leg[s].pc = "done" /\ slot'[s] = leg[s].result
               /\ main'.success = (main.success \/ leg[s].result \in Answered)
            \/ leg[s].pc # "done" /\ slot'[s] \in {"upstream", "cut"}
               /\ main'.success = main.success
         /\ main'.phase \in {"loop", "cancel"} /\ main'.verdict = main.verdict
         /\ main'.phase = "cancel" => main'.success
<1>0. /\ main \in Loop /\ slot \in [Slot -> Outcome \cup {"unset", "cut"}]
      /\ leg \in [Slot -> Task] /\ "upstream" \in Outcome
  BY DEF TypeInv, TypeOK, Loop, Outcome, Failed
<1>1. UNCHANGED <<now, call, wall, state, leg, aborted>>
      /\ s \in call.legs /\ slot[s] = "unset" /\ main.phase = "loop"
  BY DEF Join, Joined
<1>2. CASE leg[s].pc = "done"
  <2> DEFINE ok == leg[s].result \in Answered
             success == main.success \/ ok
             phase == IF ok /\ main.soft THEN "cancel" ELSE main.phase
             todo == IF ok /\ main.soft THEN call.legs ELSE main.todo
  <2>1. slot' = [slot EXCEPT ![s] = leg[s].result]
        /\ main' = [main EXCEPT !.success = success, !.phase = phase, !.todo = todo]
    BY <1>2 DEF Join
  <2>2. leg[s].result \in Outcome
    BY <1>2 DEF TypeInv, DoneHasOutcome
  <2>3. phase \in {"loop", "cancel"} /\ (phase = "cancel" => success)
    BY <1>1
  <2>4. success = (main.success \/ leg[s].result \in Answered)
    OBVIOUS
  <2> HIDE DEF success, phase, todo, ok
  <2>5. main'.success = success /\ main'.phase = phase /\ main'.verdict = main.verdict
    BY <1>0, <2>1 DEF Loop
  <2> QED BY <1>0, <1>1, <1>2, <2>1, <2>2, <2>3, <2>4, <2>5
<1>3. CASE leg[s].pc # "done"
  <2>1. PICK cut \in {"upstream", "cut"} : slot' = [slot EXCEPT ![s] = cut] /\ UNCHANGED main
    BY <1>3 DEF Join
  <2> QED BY <1>0, <1>1, <1>3, <2>1
<1> QED BY <1>2, <1>3

LEMMA NextType == TypeInv /\ [Next]_vars => TypeInv'
<1> SUFFICES ASSUME TypeInv, [Next]_vars PROVE TypeInv'
  OBVIOUS
<1>0. TypeOK /\ DoneHasOutcome /\ Shape
  BY TypeShape DEF TypeInv
<1>1. ASSUME NEW s \in Slot, Scheduled(s) \/ Awaited(s) PROVE TypeInv'
  <2>1. TypeOK'
    BY <1>0, <1>1, LegStep DEF TypeOK
  <2>2. DoneHasOutcome'
    BY <1>0, <1>1, LegStep DEF DoneHasOutcome
  <2> QED BY <2>1, <2>2 DEF TypeInv
<1>2. ASSUME NEW s \in Slot, Join(s) PROVE TypeInv'
  <2>1. Shape'
    BY <1>0, <1>2, LoopSteps
  <2> QED BY <1>0, <1>2, <2>1, JoinStep DEF TypeInv, TypeOK, Shape, Loop, DoneHasOutcome
<1>3. ASSUME NEW s \in Slot, Cancel(s) PROVE TypeInv'
  <2>1. Shape' /\ UNCHANGED <<now, call, wall, leg, slot>>
    BY <1>0, <1>3, CancelStep DEF Cancel
  <2> QED BY <1>0, <2>1 DEF TypeInv, TypeOK, Shape, Loop, DoneHasOutcome
<1>4. CASE Soft \/ Finish
  <2>1. Shape' /\ UNCHANGED <<now, call, wall, leg, slot>>
    BY <1>0, <1>4, LoopSteps DEF Soft, Finish
  <2> QED BY <1>0, <2>1 DEF TypeInv, TypeOK, Shape, Loop, DoneHasOutcome
<1>5. CASE Elsewhere
  <2>1. wall' \in [Engine -> Wall] /\ UNCHANGED <<now, call, state, leg, aborted, main, slot>>
    BY <1>0, <1>5 DEF Elsewhere, TypeOK
  <2> QED BY <1>0, <2>1 DEF TypeInv, TypeOK, DoneHasOutcome
<1>6. CASE Tick
  <2>1. now' \in 0..HardDeadline /\ UNCHANGED <<call, wall, state, leg, aborted, main, slot>>
    BY <1>0, <1>6, FanoutAssumption DEF Tick, TypeOK
  <2> QED BY <1>0, <2>1 DEF TypeInv, TypeOK, DoneHasOutcome
<1>7. CASE UNCHANGED vars
  BY <1>0, <1>7 DEF TypeInv, TypeOK, DoneHasOutcome, vars
<1> QED
  BY <1>1, <1>2, <1>3, <1>4, <1>5, <1>6, <1>7 DEF Next, Main

LEMMA InitType == Init => TypeInv
<1> SUFFICES ASSUME Init PROVE TypeInv
  OBVIOUS
<1>1. Shape
  BY InitShape
<1>2. call \in [legs : SUBSET Slot, narrowed : BOOLEAN]
  BY DEF Init, LegsOf
<1>3. now \in 0..HardDeadline
  BY FanoutAssumption DEF Init
<1>4. slot \in [Slot -> Outcome \cup {"unset", "cut"}] /\ wall \in [Engine -> Wall]
  BY DEF Init
<1>5. DoneHasOutcome
  BY DEF Init, DoneHasOutcome
<1> QED BY <1>1, <1>2, <1>3, <1>4, <1>5 DEF TypeInv, TypeOK, Shape, Loop

(* Every variable keeps its type; a task that is done has an outcome to    *)
(* report.                                                                 *)
THEOREM TypeCorrect == Spec => []TypeOK
<1> QED BY InitType, NextType, PTL DEF Spec, TypeInv

-----------------------------------------------------------------------------
(* A success is that of a joined leg; only a success cancels; and a call   *)
(* that returns with one has its answer.                                   *)
SuccessJoined == main.success => \E s \in call.legs : slot[s] \in Answered
OnlySuccessCancels ==
  main.phase = "cancel" \/ (\E s \in Slot : state[s] = "cancelled") => main.success
SuccessIsOk == main.phase = "returned" /\ main.success => main.verdict = "ok"

AnswerInv == TypeInv /\ SuccessJoined /\ OnlySuccessCancels /\ SuccessIsOk

LEMMA NextAnswer == AnswerInv /\ [Next]_vars => AnswerInv'
<1> SUFFICES ASSUME AnswerInv, [Next]_vars PROVE AnswerInv'
  OBVIOUS
<1>0. TypeInv /\ TypeInv' /\ TypeOK /\ Shape /\ main \in Loop /\ call.legs \subseteq Slot
  BY NextType, TypeShape DEF AnswerInv, TypeInv, Shape
<1> USE DEF AnswerInv
<1>1. ASSUME NEW s \in Slot, Scheduled(s) \/ Awaited(s) PROVE AnswerInv'
  <2>1. UNCHANGED <<call, main, slot>>
    BY <1>0, <1>1, LegStep
  <2>2. \A t \in Slot : state'[t] # state[t] => state'[t] = "started"
    BY <1>0, <1>1, LegStepQueue
  <2> QED BY <1>0, <2>1, <2>2 DEF SuccessJoined, OnlySuccessCancels, SuccessIsOk
<1>2. ASSUME NEW s \in Slot, Join(s) PROVE AnswerInv'
  <2>1. SuccessJoined'
    <3>1. ASSUME main.success PROVE SuccessJoined'
      <4>1. PICK t \in call.legs : slot[t] \in Answered
        BY <3>1 DEF SuccessJoined
      <4>2. t # s
        BY <1>0, <1>2, <4>1, JoinStep DEF Answered
      <4> QED BY <1>0, <1>2, <4>1, <4>2, JoinStep DEF SuccessJoined
    <3>2. CASE ~main.success
      BY <1>0, <1>2, <3>2, JoinStep DEF SuccessJoined
    <3> QED BY <3>1, <3>2
  <2>2. OnlySuccessCancels' /\ SuccessIsOk'
    BY <1>0, <1>2, JoinStep DEF OnlySuccessCancels, SuccessIsOk
  <2> QED BY <1>0, <2>1, <2>2
<1>3. ASSUME NEW s \in Slot, Cancel(s) PROVE AnswerInv'
  <2>1. main.phase = "cancel" /\ main.success /\ UNCHANGED <<call, slot>>
    BY <1>3 DEF Cancel, OnlySuccessCancels
  <2>2. main'.success = main.success /\ main'.phase # "returned"
    BY <1>0, <1>3, <2>1 DEF Cancel, Loop
  <2> QED BY <1>0, <2>1, <2>2 DEF SuccessJoined, OnlySuccessCancels, SuccessIsOk
<1>4. CASE Soft
  <2>1. UNCHANGED <<call, state, slot>> /\ main'.success = main.success
        /\ (main'.phase = "cancel" => main.success) /\ main'.phase # "returned"
    BY <1>0, <1>4, LoopSteps DEF Soft, Loop
  <2> QED BY <1>0, <2>1 DEF SuccessJoined, OnlySuccessCancels, SuccessIsOk
<1>5. CASE Finish
  <2>1. main' = [main EXCEPT !.phase = "returned", !.verdict = Verdict(Report)]
        /\ UNCHANGED <<call, state, slot>>
    BY <1>5 DEF Finish
  <2>2. main'.success = main.success /\ main'.phase = "returned"
        /\ main'.verdict = Verdict(Report)
    BY <1>0, <2>1 DEF Loop
  <2>3. ASSUME main.success PROVE Verdict(Report) = "ok"
    <3>1. PICK t \in call.legs : slot[t] \in Answered
      BY <2>3 DEF SuccessJoined
    <3>2. Report[t] \in Answered
      BY <1>0, <3>1 DEF Report, Answered
    <3> QED BY <3>1, <3>2 DEF Verdict
  <2> QED BY <1>0, <2>1, <2>2, <2>3 DEF SuccessJoined, OnlySuccessCancels, SuccessIsOk
<1>6. CASE UNCHANGED <<call, state, main, slot>>
  BY <1>0, <1>6 DEF SuccessJoined, OnlySuccessCancels, SuccessIsOk
<1> QED
  BY <1>1, <1>2, <1>3, <1>4, <1>5, <1>6 DEF Next, Main, Elsewhere, Tick, vars

(* The soft deadline cancels legs for the sake of an answer, and that      *)
(* answer is the call's: whatever the cancelled legs report afterwards, a  *)
(* call with a cancelled leg succeeds.                                     *)
THEOREM AnswerIsKept == Spec => []CancelKeepsAnswer
<1>1. ASSUME Init PROVE AnswerInv
  <2>1. SuccessJoined /\ OnlySuccessCancels /\ SuccessIsOk
    BY <1>1 DEF Init, SuccessJoined, OnlySuccessCancels, SuccessIsOk
  <2> QED BY <1>1, <2>1, InitType DEF AnswerInv
<1>2. AnswerInv => CancelKeepsAnswer
  BY DEF AnswerInv, OnlySuccessCancels, SuccessIsOk, CancelKeepsAnswer
<1> QED BY <1>1, <1>2, NextAnswer, PTL DEF Spec

-----------------------------------------------------------------------------
(* A bot wall is an engine's own word, or the governor's memory of it.     *)
Bot(s) == leg[s].pc = "done" /\ leg[s].result \in {"challenge", "walled"}
(* The leg has passed the governor's suspension check. *)
Gated(s) == leg[s].pc \in {"gap", "start", "wire", "backoff"}
(* A leg of the engine ended in a way that may clear or replace its wall.  *)
Cleared(e) ==
  \E t \in call.legs : /\ EngineOf(t) = e /\ leg[t].pc = "done"
                       /\ leg[t].result \in Answered \cup {"upstream"}

(* Unless such a leg ended, an engine one leg found walled stays so: an    *)
(* engine suspended for another reason lets no leg through to be walled.   *)
WallStands(e) ==
  \/ Cleared(e)
  \/ wall[e] = "challenge"
  \/ wall[e] = "other" /\ \A t \in call.legs : EngineOf(t) = e => ~Gated(t) /\ ~Bot(t)
  \/ wall[e] = "none" /\ \A t \in call.legs : EngineOf(t) = e => ~Bot(t)

OnlyLegs == \A s \in Slot \ call.legs : leg[s].pc = "absent"
(* What the loop joined is what the leg returned, panics aside. *)
Reported ==
  \A s \in call.legs : slot[s] \notin {"unset", "cut", "upstream"}
                        => leg[s].pc = "done" /\ leg[s].result = slot[s]
BlockedByAll == main.verdict = "blocked" => \A s \in call.legs : Bot(s)

WallInv ==
  /\ TypeInv /\ OnlyLegs /\ Reported /\ BlockedByAll
  /\ ~Shared => \A e \in Engine : WallStands(e)

LEMMA LegStepWall ==
  ASSUME TypeInv, OnlyLegs, \A e \in Engine : WallStands(e),
         NEW s \in Slot, Scheduled(s) \/ Awaited(s)
  PROVE  \A e \in Engine : WallStands(e)'
<1> DEFINE own == EngineOf(s)
<1>0. /\ TypeOK /\ Shape /\ own \in Engine /\ leg \in [Slot -> Task]
      /\ wall \in [Engine -> Wall] /\ call.legs \subseteq Slot
  BY TypeShape DEF TypeInv, TypeOK, Slot, EngineOf
<1>1. /\ UNCHANGED call /\ leg' \in [Slot -> Task] /\ leg[s].pc \notin Ended
      /\ \A t \in Slot \ {s} : leg'[t] = leg[t]
      /\ wall' \in [Engine -> Wall]
  BY <1>0, LegStep
<1>2. s \in call.legs
  BY <1>1 DEF OnlyLegs, Ended
<1>3. ASSUME NEW e \in Engine \ {own}, wall'[e] = wall[e] PROVE WallStands(e)'
  <2>1. \A t \in call.legs : EngineOf(t) = e => leg'[t] = leg[t]
    BY <1>0, <1>1, <1>3
  <2>2. WallStands(e)
    OBVIOUS
  <2> QED BY <1>1, <1>3, <2>1, <2>2 DEF WallStands, Cleared, Bot, Gated
<1>4. ASSUME Cleared(own) PROVE WallStands(own)'
  <2>1. PICK t \in call.legs : /\ EngineOf(t) = own /\ leg[t].pc = "done"
                               /\ leg[t].result \in Answered \cup {"upstream"}
    BY <1>4 DEF Cleared
  <2>2. leg'[t] = leg[t]
    BY <1>0, <1>1, <2>1 DEF Ended
  <2> QED BY <1>1, <2>1, <2>2 DEF WallStands, Cleared
<1>5. ASSUME leg'[s].pc = "done", leg'[s].result \in Answered \cup {"upstream"}
      PROVE  WallStands(own)'
  BY <1>1, <1>2, <1>5 DEF WallStands, Cleared
<1>6. ASSUME UNCHANGED wall, Bot(s)' => wall[own] = "challenge",
             Gated(s)' => Gated(s) \/ wall[own] = "none"
      PROVE  WallStands(own)'
  <2>1. CASE Cleared(own)
    BY <1>4, <2>1
  <2>2. CASE wall[own] = "challenge"
    BY <1>6, <2>2 DEF WallStands
  <2>3. CASE wall[own] = "other" /\ \A t \in call.legs : EngineOf(t) = own => ~Gated(t) /\ ~Bot(t)
    <3>1. \A t \in call.legs : EngineOf(t) = own => ~Gated(t)' /\ ~Bot(t)'
      BY <1>0, <1>1, <1>2, <1>6, <2>3 DEF Gated, Bot
    <3> QED BY <1>1, <1>6, <2>3, <3>1 DEF WallStands
  <2>4. CASE wall[own] = "none" /\ \A t \in call.legs : EngineOf(t) = own => ~Bot(t)
    <3>1. \A t \in call.legs : EngineOf(t) = own => ~Bot(t)'
      BY <1>0, <1>1, <1>2, <1>6, <2>4 DEF Bot
    <3> QED BY <1>1, <1>6, <2>4, <3>1 DEF WallStands
  <2>5. WallStands(own)
    BY <1>0
  <2> QED BY <2>1, <2>2, <2>3, <2>4, <2>5 DEF WallStands
<1>7. ASSUME NEW outcome \in {"transport", "timeout"}, Settle(s, outcome)
      PROVE  UNCHANGED wall /\ leg'[s].pc = "done" /\ leg'[s].result = outcome
  <2>1. \E reason \in {wall[own]} : wall' = [wall EXCEPT ![own] = reason]
    BY <1>7 DEF Settle, Recorded, Answered
  <2>2. Return(s, outcome) /\ outcome \in Outcome
    BY <1>7 DEF Settle, Outcome, Failed
  <2> QED BY <1>0, <2>1, <2>2, Moves
<1>8. CASE Begin(s) \/ Pace(s)
  <2>1. UNCHANGED wall /\ leg[s].pc \in {"spawned", "pace"}
    BY <1>8 DEF Begin, Pace
  <2>2. CASE leg'[s].pc = "done" /\ leg'[s].result = "rows"
    BY <1>3, <1>5, <2>1, <2>2 DEF Answered
  <2>3. CASE leg'[s].pc = "done" /\ leg'[s].result = "throttled"
    BY <1>3, <1>6, <2>1, <2>3 DEF Bot, Gated
  <2>4. CASE leg'[s].pc = "done" /\ leg'[s].result = Refusal(own)
    BY <1>3, <1>6, <2>1, <2>4 DEF Bot, Gated, Refusal
  <2>5. CASE leg'[s].pc = "acquire" \/ (leg'[s].pc = "gap" /\ wall[own] = "none")
    BY <1>3, <1>6, <2>1, <2>5 DEF Bot, Gated
  <2>6. \/ Return(s, "rows") \/ Return(s, "throttled") \/ Return(s, Refusal(own))
        \/ Goto(s, "acquire") \/ (Goto(s, "gap") /\ wall[own] = "none")
    BY <1>8 DEF Begin, Pace
  <2>7. {"rows", "throttled", Refusal(own)} \subseteq Outcome /\ {"acquire", "gap"} \subseteq PC
    BY DEF Outcome, Answered, Failed, PC, Await, Refusal
  <2> QED BY <1>0, <2>2, <2>3, <2>4, <2>5, <2>6, <2>7, Moves
<1>9. CASE Acquire(s) \/ Panic(s) \/ Drop(s)
  <2>1. UNCHANGED wall /\ \E pc \in {"pace", "panicked", "dropped"} : Goto(s, pc)
    BY <1>9 DEF Acquire, Panic, Drop
  <2>2. leg'[s].pc \in {"pace", "panicked", "dropped"}
    BY <1>0, <2>1, Moves DEF PC, Ended
  <2> QED BY <1>3, <1>6, <2>1, <2>2 DEF Bot, Gated
<1>10. CASE Proceed(s)
  <2>1. UNCHANGED wall /\ Gated(s) /\ \E pc \in {"wire", "start"} : Goto(s, pc)
    BY <1>10 DEF Proceed, Gated
  <2>2. leg'[s].pc \in {"wire", "start"}
    BY <1>0, <2>1, Moves DEF PC, Await
  <2> QED BY <1>3, <1>6, <2>1, <2>2 DEF Bot
<1>11. CASE Start(s)
  <2>1. UNCHANGED wall /\ Gated(s) /\ (Goto(s, "wire") \/ Return(s, "timeout"))
    BY <1>11 DEF Start, Gated
  <2>2. leg'[s].pc = "wire" \/ leg'[s].result = "timeout"
    BY <1>0, <2>1, Moves DEF PC, Await, Outcome, Failed
  <2> QED BY <1>3, <1>6, <2>1, <2>2 DEF Bot
<1>12. CASE Answer(s)
  <2>1. Gated(s)
    BY <1>12 DEF Answer, Gated
  <2>2. PICK outcome \in Answered \cup {"challenge", "upstream", "timeout"} : Settle(s, outcome)
    BY <1>12 DEF Answer
  <2>3. leg'[s].pc = "done" /\ leg'[s].result = outcome
    BY <1>0, <2>2, Moves DEF Settle, Outcome, Answered, Failed
  <2>4. \A e \in Engine \ {own} : wall'[e] = wall[e]
    BY <1>0, <2>2 DEF Settle
  <2>5. CASE outcome \in Answered \cup {"upstream"}
    BY <1>3, <1>5, <2>3, <2>4, <2>5
  <2>6. CASE outcome = "timeout"
    BY <1>3, <1>6, <1>7, <2>1, <2>2, <2>3, <2>6 DEF Bot, Gated
  <2>7. CASE outcome = "challenge"
    <3>1. CASE Cleared(own)
      BY <1>3, <1>4, <2>4, <3>1
    <3>2. CASE ~Cleared(own)
      <4>1. wall[own] # "other"
        BY <1>0, <1>2, <2>1, <3>2 DEF WallStands
      <4>2. wall'[own] = "challenge"
        BY <1>0, <2>2, <2>7, <4>1 DEF Settle, Recorded, Answered
      <4> QED BY <1>3, <2>4, <4>2 DEF WallStands
    <3> QED BY <3>1, <3>2
  <2> QED BY <2>5, <2>6, <2>7
<1>13. CASE TransportFail(s)
  <2>1. Gated(s)
    BY <1>13 DEF TransportFail, Gated
  <2>2. UNCHANGED wall /\ (leg'[s].pc = "backoff" \/ leg'[s].result = "transport")
    BY <1>0, <1>7, <1>13, Moves DEF TransportFail, PC, Await
  <2> QED BY <1>3, <1>6, <2>1, <2>2 DEF Bot
<1>14. CASE Retry(s)
  <2>1. Gated(s)
    BY <1>14 DEF Retry, Gated
  <2>2. CASE Settle(s, "transport")
    BY <1>3, <1>6, <1>7, <2>1, <2>2 DEF Bot
  <2>3. CASE leg' = [leg EXCEPT ![s].pc = "gap", ![s].retried = TRUE] /\ UNCHANGED wall
    <3>1. leg'[s].pc = "gap"
      BY <1>0, <2>3 DEF Task
    <3> QED BY <1>3, <1>6, <2>1, <2>3, <3>1 DEF Bot
  <2> QED BY <1>14, <2>2, <2>3 DEF Retry
<1> QED
  BY <1>8, <1>9, <1>10, <1>11, <1>12, <1>13, <1>14 DEF Scheduled, Awaited

LEMMA NextWall == WallInv /\ [Next]_vars => WallInv'
<1> SUFFICES ASSUME WallInv, [Next]_vars PROVE WallInv'
  OBVIOUS
<1>0. /\ TypeInv /\ TypeInv' /\ TypeOK /\ Shape /\ main \in Loop
      /\ call.legs \subseteq Slot
  BY NextType, TypeShape DEF WallInv, TypeInv, Shape
<1>k. ASSUME UNCHANGED <<call, leg, wall>> PROVE
        OnlyLegs' /\ (~Shared => \A e \in Engine : WallStands(e)')
  BY <1>k DEF WallInv, OnlyLegs, WallStands, Cleared, Gated, Bot
<1>1. ASSUME NEW s \in Slot, Scheduled(s) \/ Awaited(s) PROVE WallInv'
  <2>1. /\ UNCHANGED <<call, main, slot>> /\ leg[s].pc \notin Ended
        /\ \A t \in Slot \ {s} : leg'[t] = leg[t]
    BY <1>0, <1>1, LegStep
  <2>2. \A t \in Slot : leg[t].pc \in Ended => leg'[t] = leg[t]
    BY <2>1
  <2>3. OnlyLegs'
    BY <2>1, <2>2 DEF WallInv, OnlyLegs, Ended
  <2>4. Reported'
    BY <1>0, <2>1, <2>2 DEF WallInv, Reported, Ended
  <2>5. BlockedByAll'
    BY <1>0, <2>1, <2>2 DEF WallInv, BlockedByAll, Bot, Ended
  <2>6. ~Shared => \A e \in Engine : WallStands(e)'
    BY <1>1, LegStepWall DEF WallInv
  <2> QED BY <1>0, <2>3, <2>4, <2>5, <2>6 DEF WallInv
<1>2. ASSUME NEW s \in Slot, Join(s) PROVE WallInv'
  <2>1. Reported'
    BY <1>0, <1>2, JoinStep DEF WallInv, Reported
  <2>2. BlockedByAll' /\ UNCHANGED <<call, leg, wall>>
    BY <1>0, <1>2, JoinStep DEF WallInv, BlockedByAll, Bot
  <2> QED BY <1>0, <1>k, <2>1, <2>2 DEF WallInv
<1>3. ASSUME UNCHANGED <<call, leg, wall, slot>>, main'.verdict = main.verdict
      PROVE  WallInv'
  BY <1>0, <1>k, <1>3 DEF WallInv, Reported, BlockedByAll, Bot
<1>4. ASSUME NEW s \in Slot, Cancel(s) PROVE WallInv'
  BY <1>0, <1>3, <1>4 DEF Cancel, Loop
<1>5. CASE Soft
  BY <1>0, <1>3, <1>5 DEF Soft, Loop
<1>6. CASE Finish
  <2>1. UNCHANGED <<call, leg, wall, slot>> /\ main'.verdict = Verdict(Report)
    BY <1>0, <1>6 DEF Finish, Loop
  <2>2. ASSUME Verdict(Report) = "blocked", NEW s \in call.legs PROVE Bot(s)
    <3>1. Report[s] \in {"challenge", "walled"}
      BY <2>2 DEF Verdict
    <3>2. slot[s] = Report[s]
      BY <1>0, <3>1 DEF Report
    <3> QED BY <3>1, <3>2 DEF WallInv, Reported, Bot
  <2>3. Reported' /\ BlockedByAll'
    BY <2>1, <2>2 DEF WallInv, Reported, BlockedByAll, Bot
  <2> QED BY <1>0, <1>k, <2>1, <2>3 DEF WallInv
<1>7. CASE Elsewhere
  <2>1. Shared /\ UNCHANGED <<call, leg, slot, main>>
    BY <1>7 DEF Elsewhere
  <2> QED BY <1>0, <2>1 DEF WallInv, OnlyLegs, Reported, BlockedByAll, Bot
<1>8. CASE Tick \/ UNCHANGED vars
  BY <1>3, <1>8 DEF Tick, vars
<1> QED
  BY <1>1, <1>2, <1>4, <1>5, <1>6, <1>7, <1>8 DEF Next, Main

(* A call that ends as a bot wall (exit 7) leaves every engine it asked    *)
(* suspended for a challenge, so the next call asks none of them: no       *)
(* sibling's failure has replaced the reason, and no success cleared it.   *)
THEOREM BlockedIsWalled == Spec => []BlockedMeansWalled
<1>1. ASSUME Init PROVE WallInv
  <2>1. OnlyLegs /\ Reported /\ BlockedByAll
    <3>1. call.legs \subseteq Slot
      BY <1>1, InitShape DEF Shape
    <3>2. OnlyLegs /\ Reported
      BY <1>1, <3>1 DEF Init, OnlyLegs, Reported
    <3>3. BlockedByAll
      BY <1>1 DEF Init, BlockedByAll
    <3> QED BY <3>2, <3>3
  <2>2. \A e \in Engine : WallStands(e)
    BY <1>1 DEF Init, WallStands, Wall, Bot, Gated, LegsOf
  <2> QED BY <1>1, <2>1, <2>2, InitType DEF WallInv
<1>2. WallInv => BlockedMeansWalled
  <2> SUFFICES ASSUME WallInv, ~Shared, main.verdict = "blocked", NEW s \in call.legs
               PROVE  wall[EngineOf(s)] = "challenge"
    BY DEF BlockedMeansWalled
  <2>1. EngineOf(s) \in Engine /\ wall \in [Engine -> Wall]
    BY DEF WallInv, TypeInv, TypeOK, Slot, EngineOf
  <2>2. \A t \in call.legs : Bot(t)
    BY DEF WallInv, BlockedByAll
  <2>3. ~Cleared(EngineOf(s))
    BY <2>2 DEF Cleared, Bot, Answered
  <2> QED BY <2>1, <2>2, <2>3 DEF WallInv, WallStands
<1> QED BY <1>1, <1>2, NextWall, PTL DEF Spec
=============================================================================
