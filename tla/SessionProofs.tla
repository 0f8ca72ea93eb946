---------------------------- MODULE SessionProofs ----------------------------
(***************************************************************************)
(* Theorems of Session, for every value of its constants.                  *)
(***************************************************************************)
EXTENDS Session, SequenceTheorems, FiniteSetTheorems, TLAPS

(* Rows are rows, and the names used below are kinds of them. *)
LEMMA NewRowType ==
  ASSUME NEW kind \in Kind, NEW n \in Nat
  PROVE  NewRow(kind, n) \in Row /\ <<NewRow(kind, n)>> \in Seq(Row)
BY DEF NewRow, Row

LEMMA RowExceptType ==
  ASSUME NEW row \in Row
  PROVE  /\ \A n \in Nat : [row EXCEPT !.attempt = n] \in Row
         /\ \A n \in Nat : [row EXCEPT !.seq = n] \in Row
         /\ \A says \in Outcome \cup {"", "synthesis"} : [row EXCEPT !.says = says] \in Row
BY DEF Row

LEMMA QueueTypes ==
  ASSUME NEW S
  PROVE  /\ <<>> \in Seq(S)
         /\ \A a \in S : <<a>> \in Seq(S)
         /\ \A a, b \in S : <<a, b>> \in Seq(S)
         /\ \A a \in S, n \in Nat : [i \in 1..n |-> a] \in Seq(S)
         /\ \A q, rest \in Seq(S) : q \o rest \in Seq(S)
OBVIOUS

LEMMA KindTypes ==
  /\ Stored \subseteq Kind /\ Event \subseteq Kind
  /\ "header" \in Kind /\ "turn" \in Kind /\ "trace" \in Kind
  /\ "session.started" \in Kind /\ "session.finished" \in Kind
BY DEF Kind, Event, Stored

LEMMA TurnRowType ==
  ASSUME TypeOK, NEW s \in Sessions
  PROVE  /\ TurnRow(s, "") \in Row /\ TurnRow(s, "synthesis") \in Row
         /\ Traced(s) \in Seq(Row)
<1>1. turn[s] \in Nat
  BY DEF TypeOK
<1>2. NewRow("turn", turn[s]) \in Row /\ NewRow("trace", turn[s]) \in Row
  BY <1>1, NewRowType, KindTypes
<1>3. <<NewRow("trace", turn[s])>> \in Seq(Row) /\ <<>> \in Seq(Row)
  BY <1>1, NewRowType, KindTypes
<1>4. \A says \in {"", "synthesis"} : TurnRow(s, says) \in Row
  BY <1>2, RowExceptType DEF TurnRow
<1> QED BY <1>3, <1>4 DEF Traced

(* The queue a Session's own steps leave is a sequence of rows. *)
LEMMA SayType ==
  ASSUME TypeOK, NEW s \in Sessions, NEW rows \in Seq(Row), NEW next \in PC, Say(s, rows, next)
  PROVE  todo' \in [Sessions -> Seq(Row)] /\ pc' \in [Sessions -> PC]
BY DEF TypeOK, Say

LEMMA LeaveType ==
  ASSUME TypeOK, NEW s \in Sessions, NEW rows \in Seq(Row), NEW outcome \in Outcome,
         Leave(s, rows, outcome)
  PROVE  /\ todo' \in [Sessions -> Seq(Row)] /\ pc' \in [Sessions -> PC]
         /\ result' \in [Sessions -> Outcome]
<1>1. Say(s, rows, "settle") /\ "settle" \in PC
  BY DEF Leave, PC
<1> QED BY <1>1, SayType DEF TypeOK, Leave

LEMMA RunType ==
  ASSUME TypeOK, NEW s \in Sessions, Run(s)
  PROVE  TypeOK'
<1> <<>> \in Seq(Row)
  OBVIOUS
<1>1. CASE Refuse(s)
  BY <1>1, SayType DEF Refuse, TypeOK, Outcome, PC, loop, outputs, dir
<1>2. CASE Open(s)
  BY <1>2, SayType DEF Open, TypeOK, PC, loop, dir
<1>3. CASE Misconfigured(s)
  BY <1>3, LeaveType DEF Misconfigured, TypeOK, Outcome, loop, outputs, dir
<1>4. CASE Attach(s)
  <2>1. <<NewRow("header", 0)>> \in Seq(Row)
    BY NewRowType, KindTypes
  <2> QED BY <1>4, <2>1, SayType DEF Attach, TypeOK, PC, loop, dir
<1>5. CASE Started(s)
  <2>1. <<NewRow("session.started", 0)>> \in Seq(Row)
    BY NewRowType, RowExceptType, KindTypes
  <2>2. CASE failure[s]
    BY <1>5, <2>2, LeaveType DEF Started, TypeOK, Outcome, loop, outputs, dir
  <2>3. CASE ~failure[s]
    BY <1>5, <2>1, <2>3, SayType DEF Started, TypeOK, PC, loop, outputs, dir
  <2> QED BY <2>2, <2>3
<1>6. CASE Finish(s)
  <2>1. OutcomeOf(s) \in Outcome
    BY DEF OutcomeOf, TypeOK, Outcome
  <2>2. NewRow("session.finished", 0) \in Row
    BY NewRowType, KindTypes
  <2>3. [NewRow("session.finished", 0) EXCEPT !.says = OutcomeOf(s)] \in Row
    BY <2>1, <2>2, RowExceptType
  <2>4. <<[NewRow("session.finished", 0) EXCEPT !.says = OutcomeOf(s)]>> \in Seq(Row)
    BY <2>3
  <2>5. /\ todo' \in [Sessions -> Seq(Row)] /\ pc' \in [Sessions -> PC]
        /\ result' \in [Sessions -> Outcome]
    BY <1>6, <2>1, <2>4, SayType DEF Finish, TypeOK, PC
  <2> QED BY <1>6, <2>5 DEF Finish, TypeOK, loop, outputs, dir
<1> QED BY <1>1, <1>2, <1>3, <1>4, <1>5, <1>6 DEF Run

LEMMA ModelType ==
  ASSUME TypeOK, NEW s \in Sessions,
         \/ StartTurn(s) \/ Fragment(s) \/ Retry(s) \/ ModelFails(s) \/ ModelReplies(s)
  PROVE  TypeOK'
<1>0. turn[s] \in Nat /\ turn[s] + 1 \in Nat /\ attempt[s] \in Nat
  BY DEF TypeOK
<1>a. Traced(s) \in Seq(Row)
  BY TurnRowType DEF TypeOK
<1>b. \A n \in Nat : \A kind \in {"turn.started", "context.truncated", "model.delta",
                                "model.retry", "model.replied"} : NewRow(kind, n) \in Row
  BY NewRowType, KindTypes DEF Event, Stored
<1>1. CASE StartTurn(s)
  <2>1. PICK rest \in {<<>>, <<NewRow("context.truncated", turn[s] + 1)>>} :
          Say(s, <<NewRow("turn.started", turn[s] + 1)>> \o rest, "model")
    BY <1>1 DEF StartTurn
  <2>2. rest \in Seq(Row) /\ <<NewRow("turn.started", turn[s] + 1)>> \in Seq(Row)
    BY <1>0, <1>b, QueueTypes
  <2>3. <<NewRow("turn.started", turn[s] + 1)>> \o rest \in Seq(Row)
    BY <2>2, QueueTypes
  <2>4. todo' \in [Sessions -> Seq(Row)] /\ pc' \in [Sessions -> PC]
    BY <2>1, <2>3, SayType DEF PC
  <2>5. /\ turn' \in [Sessions -> Nat] /\ attempt' \in [Sessions -> Nat]
        /\ fragments' \in [Sessions -> Nat]
    BY <1>0, <1>1 DEF StartTurn, TypeOK
  <2> QED BY <1>1, <2>4, <2>5 DEF StartTurn, TypeOK, outputs, dir
<1>2. CASE Fragment(s)
  <2>1. <<[NewRow("model.delta", turn[s]) EXCEPT !.attempt = attempt[s]]>> \in Seq(Row)
    BY <1>0, <1>b, RowExceptType, QueueTypes
  <2>2. todo' \in [Sessions -> Seq(Row)] /\ pc' \in [Sessions -> PC]
    BY <1>2, <2>1, SayType DEF Fragment, PC
  <2>3. fragments' \in [Sessions -> Nat]
    BY <1>2 DEF Fragment, TypeOK
  <2> QED BY <1>2, <2>2, <2>3 DEF Fragment, TypeOK, outputs, dir
<1>3. CASE Retry(s)
  <2>1. <<[NewRow("model.retry", turn[s]) EXCEPT !.attempt = attempt[s]]>> \in Seq(Row)
    BY <1>0, <1>b, RowExceptType, QueueTypes
  <2>2. todo' \in [Sessions -> Seq(Row)] /\ pc' \in [Sessions -> PC]
    BY <1>3, <2>1, SayType DEF Retry, PC
  <2>3. attempt' \in [Sessions -> Nat] /\ fragments' \in [Sessions -> Nat]
    BY <1>0, <1>3 DEF Retry, TypeOK
  <2> QED BY <1>3, <2>2, <2>3 DEF Retry, TypeOK, outputs, dir
<1>4. CASE ModelFails(s)
  <2>1. /\ todo' \in [Sessions -> Seq(Row)] /\ pc' \in [Sessions -> PC]
        /\ result' \in [Sessions -> Outcome]
    BY <1>a, <1>4, LeaveType DEF ModelFails, Outcome
  <2> QED BY <1>4, <2>1 DEF ModelFails, TypeOK, loop, outputs, dir
<1>5. CASE ModelReplies(s)
  <2>1. <<NewRow("model.replied", turn[s])>> \in Seq(Row)
    BY <1>0, <1>b, QueueTypes
  <2>2. Traced(s) \o <<NewRow("model.replied", turn[s])>> \in Seq(Row)
    BY <1>a, <2>1, QueueTypes
  <2>3. todo' \in [Sessions -> Seq(Row)] /\ pc' \in [Sessions -> PC]
    BY <1>5, <2>2, SayType DEF ModelReplies, PC
  <2> QED BY <1>5, <2>3 DEF ModelReplies, TypeOK, loop, outputs, dir
<1> QED BY <1>1, <1>2, <1>3, <1>4, <1>5

LEMMA TurnType ==
  ASSUME TypeOK, NEW s \in Sessions,
         \/ Answer(s) \/ NoAnswer(s) \/ ToolCalls(s)
         \/ Disallowed(s) \/ StartTool(s) \/ ToolEnds(s) \/ SettleTurn(s)
  PROVE  TypeOK'
<1>0. /\ turn[s] \in Nat /\ failed[s] \in Nat
      /\ TurnRow(s, "") \in Row /\ TurnRow(s, "synthesis") \in Row /\ Traced(s) \in Seq(Row)
  BY TurnRowType DEF TypeOK
<1>a. \A kind \in {"answer.verified", "tool.failed", "call.started", "call.finished"} :
        NewRow(kind, turn[s]) \in Row
  BY <1>0, NewRowType, KindTypes DEF Stored
<1>b. <<>> \in Seq(Row)
  OBVIOUS
<1>1. CASE Answer(s)
  <2>1. <<NewRow("answer.verified", turn[s]), TurnRow(s, "synthesis")>> \in Seq(Row)
    BY <1>0, <1>a, QueueTypes
  <2>2. /\ todo' \in [Sessions -> Seq(Row)] /\ pc' \in [Sessions -> PC]
        /\ result' \in [Sessions -> Outcome]
    BY <1>1, <2>1, LeaveType DEF Answer, Outcome
  <2> QED BY <1>1, <2>2 DEF Answer, TypeOK, loop, outputs, dir
<1>2. CASE NoAnswer(s)
  <2> DEFINE rows == <<NewRow("tool.failed", turn[s]), TurnRow(s, "")>>
  <2>1. rows \in Seq(Row)
    BY <1>0, <1>a, QueueTypes
  <2>2. \/ Say(s, rows, "turn") /\ UNCHANGED result
        \/ Leave(s, rows, "gave_up")
    BY <1>2 DEF NoAnswer
  <2> HIDE DEF rows
  <2>3. /\ todo' \in [Sessions -> Seq(Row)] /\ pc' \in [Sessions -> PC]
        /\ result' \in [Sessions -> Outcome]
    BY <2>1, <2>2, SayType, LeaveType DEF TypeOK, PC, Outcome
  <2> QED BY <1>2, <2>3 DEF NoAnswer, TypeOK, loop, outputs, dir
<1>3. CASE ToolCalls(s)
  <2>1. PICK n \in 1..MaxCalls : calls' = [calls EXCEPT ![s] = n]
    BY <1>3 DEF ToolCalls
  <2>2. calls' \in [Sessions -> 0..MaxCalls]
    BY <2>1, SessionAssumption DEF TypeOK
  <2>3. todo' \in [Sessions -> Seq(Row)] /\ pc' \in [Sessions -> PC]
    BY <1>3, <1>b, SayType DEF ToolCalls, PC
  <2> QED BY <1>3, <2>2, <2>3 DEF ToolCalls, TypeOK, outputs, dir
<1>4. CASE Disallowed(s)
  <2>1. calls' \in [Sessions -> 0..MaxCalls]
    BY <1>4, SessionAssumption DEF Disallowed, TypeOK
  <2>2. failed' \in [Sessions -> Nat]
    <3>1. failed' = [failed EXCEPT ![s] = failed[s] + 1] /\ failed[s] + 1 \in Nat
      BY <1>4 DEF Disallowed, TypeOK
    <3> QED BY <3>1 DEF TypeOK
  <2> QED BY <1>4, <2>1, <2>2 DEF Disallowed, TypeOK, outputs, dir
<1>5. CASE StartTool(s)
  <2>1. calls' \in [Sessions -> 0..MaxCalls]
    BY <1>5, SessionAssumption DEF StartTool, TypeOK
  <2>2. <<NewRow("call.started", turn[s])>> \in Seq(Row)
    BY <1>a, QueueTypes
  <2>3. todo' \in [Sessions -> Seq(Row)] /\ pc' \in [Sessions -> PC]
    BY <1>5, <2>2, SayType DEF StartTool, PC
  <2> QED BY <1>5, <2>1, <2>3 DEF StartTool, TypeOK, outputs, dir
<1>6. CASE ToolEnds(s)
  <2>1. <<NewRow("call.finished", turn[s])>> \in Seq(Row)
    BY <1>a, QueueTypes
  <2>2. todo' \in [Sessions -> Seq(Row)] /\ pc' \in [Sessions -> PC]
    BY <1>6, <2>1, SayType DEF ToolEnds, PC
  <2>3. failed' \in [Sessions -> Nat]
    BY <1>6 DEF ToolEnds, TypeOK
  <2> QED BY <1>6, <2>2, <2>3 DEF ToolEnds, TypeOK, outputs, dir
<1>7. CASE SettleTurn(s)
  <2> DEFINE failures == [i \in 1..failed[s] |-> NewRow("tool.failed", turn[s])]
             rows == failures \o <<TurnRow(s, "")>> \o Traced(s)
  <2>1. \/ Say(s, rows, "turn") /\ UNCHANGED result
        \/ Leave(s, rows, "gave_up")
    BY <1>7 DEF SettleTurn
  <2>2. failures \in Seq(Row)
    BY <1>0, <1>a, QueueTypes
  <2>3. <<TurnRow(s, "")>> \in Seq(Row)
    BY <1>0, QueueTypes
  <2> HIDE DEF failures
  <2>4. rows \in Seq(Row)
    BY <1>0, <2>2, <2>3, QueueTypes
  <2> HIDE DEF rows
  <2>5. /\ todo' \in [Sessions -> Seq(Row)] /\ pc' \in [Sessions -> PC]
        /\ result' \in [Sessions -> Outcome]
    BY <2>1, <2>4, SayType, LeaveType DEF TypeOK, PC, Outcome
  <2> QED BY <1>7, <2>5 DEF SettleTurn, TypeOK, loop, outputs, dir
<1> QED BY <1>1, <1>2, <1>3, <1>4, <1>5, <1>6, <1>7

LEMMA LeaveEarlyType ==
  ASSUME TypeOK, NEW s \in Sessions, OutOfTime(s) \/ Interrupt(s)
  PROVE  TypeOK'
<1>1. /\ todo' \in [Sessions -> Seq(Row)] /\ pc' \in [Sessions -> PC]
      /\ result' \in [Sessions -> Outcome]
  <2>1. <<>> \in Seq(Row)
    OBVIOUS
  <2> QED BY <2>1, LeaveType DEF OutOfTime, Interrupt, Outcome
<1> QED BY <1>1 DEF OutOfTime, Interrupt, TypeOK, loop, outputs, dir

(* Writing: what an output may hold after a row was offered to it. *)
LEMMA WritesType ==
  ASSUME NEW s \in Sessions, NEW output, NEW rows \in Seq(Row), NEW row \in Row,
         NEW on \in BOOLEAN,
         NEW w \in IF on THEN Writes(s, output, rows, row) ELSE {<<rows, FALSE>>}
  PROVE  /\ w[1] \in Seq(Row) /\ w[2] \in BOOLEAN
         /\ w = <<Append(rows, row), TRUE>> \/ w = <<rows, FALSE>>
         /\ ~on => w = <<rows, FALSE>>
<1>1. w = <<Append(rows, row), TRUE>> \/ w = <<rows, FALSE>>
  BY DEF Writes
<1>2. ~on => w = <<rows, FALSE>>
  OBVIOUS
<1>3. Append(rows, row) \in Seq(Row)
  OBVIOUS
<1>4. CASE w = <<Append(rows, row), TRUE>>
  BY <1>2, <1>3, <1>4
<1>5. CASE w = <<rows, FALSE>>
  BY <1>2, <1>5
<1> QED BY <1>1, <1>4, <1>5

LEMMA QueueHead ==
  ASSUME TypeOK, NEW s \in Sessions, ~Idle(s)
  PROVE  /\ Head(todo[s]) \in Row /\ Tail(todo[s]) \in Seq(Row)
         /\ todo[s] # <<>> /\ todo[s] \in Seq(Row)
BY HeadTailProperties DEF TypeOK, Idle

LEMMA EmitType ==
  ASSUME TypeOK, NEW s \in Sessions, Emit(s)
  PROVE  TypeOK'
<1> DEFINE row == [Head(todo[s]) EXCEPT !.seq = Stamp(s)]
<1>1. Head(todo[s]) \in Row /\ Tail(todo[s]) \in Seq(Row)
  BY QueueHead DEF Emit
<1>2. Stamp(s) \in Nat
  BY DEF Stamp, TypeOK
<1>3. row \in Row
  BY <1>1, <1>2, RowExceptType
<1>4. PICK w \in IF streamOn[s] THEN Writes(s, "stream", stream[s], row) ELSE {<<stream[s], FALSE>>} :
        /\ stream' = [stream EXCEPT ![s] = w[1]]
        /\ streamOn' = [streamOn EXCEPT ![s] = w[2]]
  BY DEF Emit
<1>5. \/ todo' = [todo EXCEPT ![s] = Tail(@)] /\ UNCHANGED half
      \/ todo' = [todo EXCEPT ![s] = <<row>> \o Tail(@)] /\ half' = [half EXCEPT ![s] = TRUE]
  BY DEF Emit
<1> HIDE DEF row
<1>6. w[1] \in Seq(Row) /\ w[2] \in BOOLEAN
  <2>1. stream[s] \in Seq(Row) /\ streamOn[s] \in BOOLEAN
    BY DEF TypeOK
  <2> QED BY <1>3, <1>4, <2>1, WritesType
<1>7. stream' \in [Sessions -> Seq(Row)] /\ streamOn' \in [Sessions -> BOOLEAN]
  BY <1>4, <1>6 DEF TypeOK
<1>8. <<row>> \o Tail(todo[s]) \in Seq(Row)
  BY <1>1, <1>3, QueueTypes
<1>9. todo' \in [Sessions -> Seq(Row)] /\ half' \in [Sessions -> BOOLEAN]
  <2>1. todo' = [todo EXCEPT ![s] = Tail(todo[s])] \/ todo' = [todo EXCEPT ![s] = <<row>> \o Tail(todo[s])]
    BY <1>5
  <2>2. half' = half \/ half' = [half EXCEPT ![s] = TRUE]
    BY <1>5
  <2>3. todo' \in [Sessions -> Seq(Row)]
    BY <1>1, <1>8, <2>1 DEF TypeOK
  <2>4. half' \in [Sessions -> BOOLEAN]
    BY <2>2 DEF TypeOK
  <2> QED BY <2>3, <2>4
<1>10. seq' \in [Sessions -> Nat]
  BY <1>2 DEF Emit, TypeOK
<1> QED BY <1>7, <1>9, <1>10 DEF Emit, TypeOK, loop, dir

(* Moving a Session's file to the end of the directory, and out of it. *)
LEMMA WithoutType ==
  ASSUME NEW S, recent \in Seq(S), NEW s
  PROVE  /\ Without(s) \in Seq(S)
         /\ s \in S => Touched(s) \in Seq(S)
<1>1. Without(s) \in Seq(S)
  <2>1. CASE \E i \in DOMAIN recent : recent[i] = s
    <3> DEFINE i == CHOOSE i \in DOMAIN recent : recent[i] = s
    <3>1. i \in 1..Len(recent) /\ Len(recent) \in Nat
      BY <2>1
    <3> HIDE DEF i
    <3>2. SubSeq(recent, 1, i - 1) \in Seq(S) /\ SubSeq(recent, i + 1, Len(recent)) \in Seq(S)
      BY <3>1, SubSeqProperties
    <3>3. RemoveAt(recent, i) \in Seq(S)
      BY <3>2 DEF RemoveAt
    <3> QED BY <2>1, <3>3 DEF Without, i
  <2>2. CASE ~\E i \in DOMAIN recent : recent[i] = s
    BY <2>2 DEF Without
  <2> QED BY <2>1, <2>2
<1> QED BY <1>1 DEF Touched

LEMMA LogType ==
  ASSUME TypeOK, NEW s \in Sessions, Log(s)
  PROVE  TypeOK'
<1>1. Head(todo[s]) \in Row /\ Tail(todo[s]) \in Seq(Row)
  BY QueueHead DEF Log
<1>2. PICK w \in IF logOn[s] THEN Writes(s, "log", file[s], Head(todo[s])) ELSE {<<file[s], FALSE>>} :
        /\ file' = [file EXCEPT ![s] = w[1]]
        /\ logOn' = [logOn EXCEPT ![s] = w[2]]
        /\ failure' = [failure EXCEPT ![s] = @ \/ (logOn[s] /\ ~w[2] /\ mode[s].explicit)]
        /\ recent' = IF mode[s].explicit \/ w[1] = file[s] THEN recent ELSE Touched(s)
  BY DEF Log
<1>3. w[1] \in Seq(Row) /\ w[2] \in BOOLEAN
  <2>1. file[s] \in Seq(Row) /\ logOn[s] \in BOOLEAN
    BY DEF TypeOK
  <2> QED BY <1>1, <1>2, <2>1, WritesType
<1>4. file' \in [Sessions -> Seq(Row)] /\ logOn' \in [Sessions -> BOOLEAN]
  BY <1>2, <1>3 DEF TypeOK
<1>5. failure' \in [Sessions -> BOOLEAN]
  <2>1. failure[s] \/ (logOn[s] /\ ~w[2] /\ mode[s].explicit) \in BOOLEAN
    OBVIOUS
  <2> QED BY <1>2, <2>1 DEF TypeOK
<1>6. recent' \in Seq(Sessions)
  BY <1>2, WithoutType DEF TypeOK
<1>7. todo' \in [Sessions -> Seq(Row)] /\ half' \in [Sessions -> BOOLEAN]
  <2>1. todo' = [todo EXCEPT ![s] = Tail(todo[s])]
    BY DEF Log
  <2>2. half' = [half EXCEPT ![s] = FALSE]
    BY DEF Log
  <2>3. todo' \in [Sessions -> Seq(Row)]
    BY <1>1, <2>1 DEF TypeOK
  <2>4. half' \in [Sessions -> BOOLEAN]
    BY <2>2 DEF TypeOK
  <2> QED BY <2>3, <2>4
<1> QED BY <1>4, <1>5, <1>6, <1>7 DEF Log, TypeOK, loop

Seen == [who : Sessions, len : Nat]

LEMMA RetentionType ==
  ASSUME TypeOK, NEW s \in Sessions, Scan(s) \/ Pruned(s) \/ Evict(s)
  PROVE  TypeOK'
<1> <<>> \in Seq(Row)
  OBVIOUS
<1>1. CASE Scan(s)
  <2> DEFINE view == [i \in DOMAIN recent |-> [who |-> recent[i], len |-> Len(file[recent[i]])]]
  <2>1. view \in Seq(Seen)
    <3>1. Len(recent) \in Nat /\ DOMAIN recent = 1..Len(recent)
      BY DEF TypeOK
    <3>2. \A i \in DOMAIN recent : [who |-> recent[i], len |-> Len(file[recent[i]])] \in Seen
      <4>1. \A i \in DOMAIN recent : recent[i] \in Sessions /\ file[recent[i]] \in Seq(Row)
        BY DEF TypeOK
      <4>2. \A rows \in Seq(Row) : Len(rows) \in Nat
        OBVIOUS
      <4> QED BY <4>1, <4>2 DEF Seen
    <3> QED BY <3>1, <3>2
  <2>2. todo' \in [Sessions -> Seq(Row)] /\ pc' \in [Sessions -> PC]
    BY <1>1, SayType DEF Scan, PC
  <2>3. scan' = scan \/ scan' = [scan EXCEPT ![s] = view]
    BY <1>1 DEF Scan
  <2> HIDE DEF view
  <2>4. scan' \in [Sessions -> Seq(Seen)]
    BY <2>1, <2>3 DEF TypeOK, Seen
  <2> QED BY <1>1, <2>2, <2>4 DEF Scan, TypeOK, Seen, loop, outputs
<1>2. CASE Pruned(s)
  <2>1. todo' \in [Sessions -> Seq(Row)] /\ pc' \in [Sessions -> PC]
    BY <1>2, SayType DEF Pruned, PC
  <2> QED BY <1>2, <2>1 DEF Pruned, TypeOK, loop, outputs, dir
<1>3. CASE Evict(s)
  <2> DEFINE v == Head(scan[s]).who
  <2>1. scan[s] \in Seq(Seen) /\ scan[s] # <<>>
    BY <1>3 DEF Evict, Fits, TypeOK, Seen
  <2>2. v \in Sessions /\ Tail(scan[s]) \in Seq(Seen)
    <3>1. Head(scan[s]) \in Seen /\ Tail(scan[s]) \in Seq(Seen)
      BY <2>1, HeadTailProperties
    <3> QED BY <3>1 DEF Seen
  <2>3. scan' \in [Sessions -> Seq(Seen)]
    BY <1>3, <2>2 DEF Evict, TypeOK, Seen
  <2>4. \/ /\ file' = [file EXCEPT ![v] = <<>>] /\ recent' = Without(v)
           /\ pruned' = [pruned EXCEPT ![v] = TRUE]
        \/ UNCHANGED <<file, recent, pruned>>
    BY <1>3 DEF Evict
  <2> HIDE DEF v
  <2>5. /\ file' \in [Sessions -> Seq(Row)] /\ recent' \in Seq(Sessions)
        /\ pruned' \in [Sessions -> BOOLEAN]
    <3>1. file' = file \/ file' = [file EXCEPT ![v] = <<>>]
      BY <2>4
    <3>2. recent' = recent \/ recent' = Without(v)
      BY <2>4
    <3>3. pruned' = pruned \/ pruned' = [pruned EXCEPT ![v] = TRUE]
      BY <2>4
    <3>4. Without(v) \in Seq(Sessions)
      BY WithoutType DEF TypeOK
    <3>5. file' \in [Sessions -> Seq(Row)]
      BY <3>1, QueueTypes DEF TypeOK
    <3>6. recent' \in Seq(Sessions)
      BY <3>2, <3>4 DEF TypeOK
    <3>7. pruned' \in [Sessions -> BOOLEAN]
      BY <3>3 DEF TypeOK
    <3> QED BY <3>5, <3>6, <3>7
  <2> QED BY <1>3, <2>3, <2>5 DEF Evict, TypeOK, Seen, loop, outputs
<1> QED BY <1>1, <1>2, <1>3

LEMMA InitType == Init => TypeOK
<1> SUFFICES ASSUME Init
             PROVE  TypeOK
  OBVIOUS
<1>1. /\ mode \in [Sessions -> Mode] /\ pc \in [Sessions -> PC]
      /\ turn \in [Sessions -> Nat] /\ attempt \in [Sessions -> Nat]
      /\ failed \in [Sessions -> Nat] /\ fragments \in [Sessions -> Nat]
      /\ result \in [Sessions -> Outcome] /\ seq \in [Sessions -> Nat]
      /\ half \in [Sessions -> BOOLEAN] /\ streamOn \in [Sessions -> BOOLEAN]
      /\ logOn \in [Sessions -> BOOLEAN] /\ failure \in [Sessions -> BOOLEAN]
      /\ pruned \in [Sessions -> BOOLEAN]
  BY DEF Init, PC, Outcome
<1>2. calls \in [Sessions -> 0..MaxCalls]
  BY SessionAssumption DEF Init
<1>3. /\ todo \in [Sessions -> Seq(Row)] /\ stream \in [Sessions -> Seq(Row)]
      /\ scan \in [Sessions -> Seq(Seen)]
  BY QueueTypes DEF Init
<1>4. file \in [Sessions -> Seq(Row)]
  <2>1. <<NewRow("header", 0)>> \in Seq(Row) /\ <<>> \in Seq(Row)
    BY NewRowType, KindTypes, QueueTypes
  <2> QED BY <2>1 DEF Init
<1>5. recent \in Seq(Sessions)
  <2>1. Cardinality(Old) \in Nat
    BY SessionAssumption, FS_CardinalityType
  <2>2. recent \in [1..Cardinality(Old) -> Sessions]
    BY SessionAssumption DEF Init
  <2> QED BY <2>1, <2>2
<1> QED BY <1>1, <1>2, <1>3, <1>4, <1>5 DEF TypeOK, Seen

LEMMA StepType ==
  ASSUME TypeOK, [Next]_vars
  PROVE  TypeOK'
<1>1. CASE UNCHANGED vars
  BY <1>1 DEF TypeOK, vars, loop, outputs, dir
<1>2. ASSUME NEW s \in Sessions,
             \/ Run(s) \/ Loop(s) \/ Interrupt(s)
             \/ Emit(s) \/ Log(s)
             \/ Scan(s) \/ Pruned(s) \/ Evict(s)
      PROVE  TypeOK'
  BY <1>2, RunType, ModelType, TurnType, LeaveEarlyType, EmitType, LogType, RetentionType DEF Loop
<1> QED BY <1>1, <1>2 DEF Next

(* Every reachable state is well typed: rows are rows, the counters of the *)
(* loop stay in range, and the directory names Sessions.                   *)
THEOREM TypeCorrect == Spec => []TypeOK
<1>1. Init => TypeOK
  BY InitType
<1>2. TypeOK /\ [Next]_vars => TypeOK'
  BY StepType
<1> QED BY <1>1, <1>2, PTL DEF Spec

-----------------------------------------------------------------------------
(* Logs: what the directory names, and so what pruning may remove, is      *)
(* never an explicit log.                                                  *)

Defaults == {s \in Sessions : ~mode[s].explicit}

SeenDefaults == [who : Defaults, len : Nat]

DirInv ==
  /\ TypeOK
  /\ recent \in Seq(Defaults)
  /\ scan \in [Sessions -> Seq(SeenDefaults)]

(* Only the two that write logs and the two that prune touch them. *)
LEMMA OthersLeaveLogs ==
  ASSUME NEW s \in Sessions, Run(s) \/ Loop(s) \/ Interrupt(s) \/ Emit(s) \/ Pruned(s)
  PROVE  UNCHANGED <<mode, dir>>
BY DEF Run, Refuse, Open, Misconfigured, Attach, Started, Finish, Loop, OutOfTime, StartTurn,
       Fragment, Retry, ModelFails, ModelReplies, Answer, NoAnswer, ToolCalls, Disallowed,
       StartTool, ToolEnds, SettleTurn, Interrupt, Emit, Pruned, dir

LEMMA DirInvInit == Init => DirInv
<1> SUFFICES ASSUME Init
             PROVE  DirInv
  OBVIOUS
<1>1. TypeOK
  BY InitType
<1>2. recent \in Seq(Defaults)
  <2>1. Cardinality(Old) \in Nat
    BY SessionAssumption, FS_CardinalityType
  <2>2. Old \subseteq Defaults
    BY SessionAssumption DEF Init, Defaults
  <2>3. recent \in [1..Cardinality(Old) -> Defaults]
    BY <2>2 DEF Init
  <2> QED BY <2>1, <2>3
<1>3. scan \in [Sessions -> Seq(SeenDefaults)]
  BY QueueTypes DEF Init
<1> QED BY <1>1, <1>2, <1>3 DEF DirInv

LEMMA DirInvStep ==
  ASSUME DirInv, [Next]_vars
  PROVE  DirInv'
<1>0. /\ TypeOK /\ TypeOK'
      /\ recent \in Seq(Defaults) /\ scan \in [Sessions -> Seq(SeenDefaults)]
  BY StepType DEF DirInv
<1>a. ASSUME mode' = mode, recent' \in Seq(Defaults), scan' \in [Sessions -> Seq(SeenDefaults)]
      PROVE  DirInv'
  BY <1>0, <1>a DEF DirInv, Defaults, SeenDefaults
<1>1. CASE UNCHANGED <<mode, recent, scan>>
  BY <1>0, <1>1, <1>a
<1>2. ASSUME NEW s \in Sessions, Log(s)
      PROVE  DirInv'
  <2>1. recent' = recent \/ (recent' = Touched(s) /\ s \in Defaults)
    BY <1>2 DEF Log, Defaults
  <2>2. recent' \in Seq(Defaults)
    BY <1>0, <2>1, WithoutType
  <2> QED BY <1>0, <1>2, <1>a, <2>2 DEF Log
<1>3. ASSUME NEW s \in Sessions, Scan(s)
      PROVE  DirInv'
  <2> DEFINE view == [i \in DOMAIN recent |-> [who |-> recent[i], len |-> Len(file[recent[i]])]]
  <2>1. UNCHANGED <<mode, recent>> /\ (scan' = scan \/ scan' = [scan EXCEPT ![s] = view])
    BY <1>3 DEF Scan
  <2>2. view \in Seq(SeenDefaults)
    <3>1. Len(recent) \in Nat /\ DOMAIN recent = 1..Len(recent)
      BY <1>0
    <3>2. \A i \in DOMAIN recent : recent[i] \in Defaults /\ Len(file[recent[i]]) \in Nat
      <4>1. \A i \in DOMAIN recent : recent[i] \in Defaults
        BY <1>0
      <4>2. \A x \in Defaults : file[x] \in Seq(Row)
        BY <1>0 DEF TypeOK, Defaults
      <4>3. \A rows \in Seq(Row) : Len(rows) \in Nat
        OBVIOUS
      <4> QED BY <4>1, <4>2, <4>3
    <3> QED BY <3>1, <3>2 DEF SeenDefaults
  <2> HIDE DEF view
  <2>3. scan' \in [Sessions -> Seq(SeenDefaults)]
    BY <1>0, <2>1, <2>2
  <2> QED BY <1>0, <1>a, <2>1, <2>3
<1>4. ASSUME NEW s \in Sessions, Evict(s)
      PROVE  DirInv'
  <2>1. mode' = mode /\ scan' = [scan EXCEPT ![s] = Tail(scan[s])]
    BY <1>4 DEF Evict
  <2>2. recent' = recent \/ recent' = Without(Head(scan[s]).who)
    BY <1>4 DEF Evict
  <2>3. recent' \in Seq(Defaults)
    BY <1>0, <2>2, WithoutType
  <2>4. scan[s] \in Seq(SeenDefaults) /\ scan[s] # <<>>
    BY <1>0, <1>4 DEF Evict, Fits
  <2>5. Tail(scan[s]) \in Seq(SeenDefaults)
    BY <2>4, HeadTailProperties
  <2>6. scan' \in [Sessions -> Seq(SeenDefaults)]
    BY <1>0, <2>1, <2>5
  <2> QED BY <1>a, <2>1, <2>3, <2>6
<1> QED BY <1>1, <1>2, <1>3, <1>4, OthersLeaveLogs DEF Next, vars, dir

(* A row more is a longer log. *)
LEMMA AppendIsPrefix ==
  ASSUME NEW rows \in Seq(Row), NEW row \in Row
  PROVE  IsPrefix(rows, rows) /\ IsPrefix(rows, Append(rows, row))
<1>1. /\ Len(rows) \in Nat /\ Len(Append(rows, row)) = Len(rows) + 1
      /\ Append(rows, row) \in Seq(Row)
  OBVIOUS
<1>2. SubSeq(rows, 1, Len(rows)) = rows
  OBVIOUS
<1>3. SubSeq(Append(rows, row), 1, Len(rows)) = rows
  OBVIOUS
<1> QED BY <1>1, <1>2, <1>3 DEF IsPrefix

(* What the steps of Next may do to the logs. *)
LogsGrowInStep ==
  \A s \in Sessions :
    \/ IsPrefix(file[s], file'[s])
    \/ /\ ~mode[s].explicit /\ file'[s] = <<>>
       /\ \E x \in Sessions \ {s} : pc[x] = "prune" /\ ~(total[x] <= Cap)

LEMMA LogsGrowStep ==
  ASSUME DirInv, [Next]_vars
  PROVE  LogsGrowInStep
<1>0. TypeOK /\ \A x \in Sessions : file[x] \in Seq(Row)
  BY DEF DirInv, TypeOK
<1>1. CASE UNCHANGED file
  <2>1. \A x \in Sessions : IsPrefix(file[x], file[x])
    BY <1>0 DEF IsPrefix
  <2> QED BY <1>1, <2>1 DEF LogsGrowInStep
<1>2. ASSUME NEW s \in Sessions, Log(s)
      PROVE  LogsGrowInStep
  <2>1. Head(todo[s]) \in Row
    BY <1>0, <1>2, QueueHead DEF Log
  <2>2. PICK w \in IF logOn[s] THEN Writes(s, "log", file[s], Head(todo[s])) ELSE {<<file[s], FALSE>>} :
          file' = [file EXCEPT ![s] = w[1]]
    BY <1>2 DEF Log
  <2>3. w[1] = file[s] \/ w[1] = Append(file[s], Head(todo[s]))
    <3>1. w = <<Append(file[s], Head(todo[s])), TRUE>> \/ w = <<file[s], FALSE>>
      BY <2>2 DEF Writes
    <3>2. CASE w = <<Append(file[s], Head(todo[s])), TRUE>>
      BY <3>2
    <3>3. CASE w = <<file[s], FALSE>>
      BY <3>3
    <3> QED BY <3>1, <3>2, <3>3
  <2>4. IsPrefix(file[s], w[1])
    BY <1>0, <2>1, <2>3, AppendIsPrefix
  <2>5. \A x \in Sessions : file'[x] = IF x = s THEN w[1] ELSE file[x]
    BY <1>0, <2>2 DEF TypeOK
  <2>6. \A x \in Sessions : IsPrefix(file[x], file[x])
    BY <1>0 DEF IsPrefix
  <2> QED BY <2>4, <2>5, <2>6 DEF LogsGrowInStep
<1>3. ASSUME NEW s \in Sessions, Evict(s)
      PROVE  LogsGrowInStep
  <2> DEFINE v == Head(scan[s]).who
  <2>1. scan[s] \in Seq(SeenDefaults) /\ scan[s] # <<>>
    BY <1>3 DEF Evict, Fits, DirInv
  <2>2. Head(scan[s]) \in SeenDefaults
    BY <2>1, HeadTailProperties
  <2>3. v \in Sessions /\ ~mode[v].explicit
    BY <2>2 DEF SeenDefaults, Defaults
  <2>4. pc[s] = "prune" /\ ~(total[s] <= Cap)
    BY <1>3 DEF Evict, Fits, At
  <2>5. (v # s /\ file' = [file EXCEPT ![v] = <<>>]) \/ file' = file
    BY <1>3 DEF Evict, Spared
  <2>6. \A x \in Sessions : IsPrefix(file[x], file[x])
    BY <1>0 DEF IsPrefix
  <2> HIDE DEF v
  <2>7. CASE v # s /\ file' = [file EXCEPT ![v] = <<>>]
    <3>1. \A x \in Sessions : file'[x] = IF x = v THEN <<>> ELSE file[x]
      BY <2>7, <1>0 DEF TypeOK
    <3> QED BY <2>3, <2>4, <2>6, <2>7, <3>1 DEF LogsGrowInStep
  <2> QED BY <2>5, <2>7, <1>1
<1> QED BY <1>1, <1>2, <1>3, OthersLeaveLogs DEF Next, vars, dir, Scan

(* Explicit logs only grow, and a default one disappears as a whole, never *)
(* by its own Session: because the directory listing prune_sessions works  *)
(* from holds only default logs, however old it is by then.                *)
THEOREM LogsGrow == Spec => LogsOnlyGrow
<1>1. Init => DirInv
  BY DirInvInit
<1>2. DirInv /\ [Next]_vars => DirInv'
  BY DirInvStep
<1>3. DirInv /\ [Next]_vars => [LogsGrowInStep]_vars
  BY LogsGrowStep
<1> QED BY <1>1, <1>2, <1>3, PTL DEF Spec, LogsOnlyGrow, LogsGrowInStep

-----------------------------------------------------------------------------
(* The contract of an explicit log.                                        *)

Begun(s) == file[s] # <<>> /\ file[s][1].kind = "header"

Kept(s) == \E i \in 1..Len(file[s]) : file[s][i].says = "synthesis"

Queued(s) ==
  \E i \in 1..Len(todo[s]) : todo[s][i].kind = "turn" /\ todo[s][i].says = "synthesis"

InLoop == {"turn", "model", "reply", "dispatch", "tool"}

Before == {"open", "check"}

(* Until the header is queued nothing is written; unless the log fails it  *)
(* is there before the loop; once attached a log is on or has failed; and  *)
(* a Session that means to succeed has its Synthesis in the log or on its  *)
(* way there, until the exit is settled.                                   *)
KeepOf(s) ==
  /\ pc[s] \in Before => file[s] = <<>> /\ todo[s] = <<>> /\ turn[s] = 0
  /\ pc[s] \in Before \cup InLoop \cup {"attach"} => result[s] = "ok"
  /\ pc[s] \notin Before /\ result[s] = "ok" => logOn[s] \/ failure[s]
  /\ pc[s] = "attach" =>
       /\ turn[s] = 0
       /\ \/ failure[s] \/ Begun(s)
          \/ todo[s] = <<NewRow("header", 0)>> /\ file[s] = <<>>
  /\ pc[s] \in InLoop \/ turn[s] > 0 => Begun(s)
  /\ pc[s] = "settle" /\ result[s] = "ok" => failure[s] \/ Kept(s) \/ Queued(s)
  /\ pc[s] \in {"finish", "prune", "done"} /\ result[s] = "ok" => Kept(s)

KeepInv == DirInv /\ \A s \in Sessions : mode[s].explicit => KeepOf(s)

LEMMA KeepInit == Init => KeepInv
<1> SUFFICES ASSUME Init
             PROVE  KeepInv
  OBVIOUS
<1>1. \A s \in Sessions : mode[s].explicit => s \notin Old
  BY SessionAssumption DEF Init
<1>2. \A s \in Sessions \ Old :
        /\ pc[s] = "open" /\ file[s] = <<>> /\ todo[s] = <<>> /\ turn[s] = 0
        /\ result[s] = "ok"
  BY DEF Init
<1>3. \A s \in Sessions : mode[s].explicit => KeepOf(s)
  BY <1>1, <1>2 DEF KeepOf, Before, InLoop
<1> QED BY <1>3, DirInvInit DEF KeepInv

(* What a step of s that queues rows leaves alone. *)
Private(s) ==
  /\ UNCHANGED <<mode, file, logOn, failure>>
  /\ \A x \in Sessions \ {s} :
       pc'[x] = pc[x] /\ todo'[x] = todo[x] /\ turn'[x] = turn[x] /\ result'[x] = result[x]

LEMMA KeepPrivate ==
  ASSUME KeepInv, DirInv', NEW s \in Sessions, Private(s), mode[s].explicit => KeepOf(s)'
  PROVE  KeepInv'
<1>1. ASSUME NEW x \in Sessions \ {s}, mode[x].explicit
      PROVE  KeepOf(x)'
  <2>1. KeepOf(x)
    BY <1>1 DEF KeepInv
  <2>2. /\ pc'[x] = pc[x] /\ todo'[x] = todo[x] /\ turn'[x] = turn[x] /\ result'[x] = result[x]
        /\ file' = file /\ logOn' = logOn /\ failure' = failure
    BY DEF Private
  <2> QED BY <2>1, <2>2 DEF KeepOf, Begun, Kept, Queued
<1>2. mode' = mode
  BY DEF Private
<1> QED BY <1>1, <1>2 DEF KeepInv

(* Saying something is private, and what it leaves. *)
LEMMA SayPrivate ==
  ASSUME TypeOK, NEW s \in Sessions, NEW rows, NEW next, Say(s, rows, next),
         UNCHANGED <<mode, file, logOn, failure>>,
         turn' = turn \/ turn' = [turn EXCEPT ![s] = turn[s] + 1],
         result' = result \/ (\E outcome \in Outcome : result' = [result EXCEPT ![s] = outcome])
  PROVE  /\ Private(s)
         /\ pc'[s] = next /\ todo'[s] = rows
         /\ turn'[s] = turn[s] \/ turn'[s] = turn[s] + 1
<1>1. \A x \in Sessions \ {s} :
        pc'[x] = pc[x] /\ todo'[x] = todo[x] /\ turn'[x] = turn[x] /\ result'[x] = result[x]
  BY DEF Say, TypeOK
<1>2. pc'[s] = next /\ todo'[s] = rows
  BY DEF Say, TypeOK
<1>3. turn'[s] = turn[s] \/ turn'[s] = turn[s] + 1
  BY DEF TypeOK
<1> QED BY <1>1, <1>2, <1>3 DEF Private

(* Inside the loop nothing but the queue and the Turn number matters. *)
LEMMA KeepInLoop ==
  ASSUME KeepInv, DirInv', NEW s \in Sessions, NEW rows, NEW next \in InLoop,
         pc[s] \in InLoop, Say(s, rows, next),
         UNCHANGED <<mode, file, logOn, failure, result>>,
         turn' = turn \/ turn' = [turn EXCEPT ![s] = turn[s] + 1]
  PROVE  KeepInv'
<1>0. TypeOK
  BY DEF KeepInv, DirInv
<1>1. Private(s) /\ pc'[s] = next
  BY <1>0, SayPrivate
<1>2. mode[s].explicit => KeepOf(s)'
  <2> SUFFICES ASSUME mode[s].explicit
               PROVE  KeepOf(s)'
    OBVIOUS
  <2>1. KeepOf(s)
    BY DEF KeepInv
  <2> QED BY <1>1, <2>1 DEF KeepOf, Begun, InLoop, Before
<1> QED BY <1>1, <1>2, KeepPrivate

(* Leaving with anything but success promises nothing. *)
LEMMA KeepLeave ==
  ASSUME KeepInv, DirInv', NEW s \in Sessions, NEW rows, NEW outcome \in Outcome \ {"ok"},
         Leave(s, rows, outcome),
         UNCHANGED <<mode, file, logOn, failure, turn>>
  PROVE  KeepInv'
<1>0. TypeOK
  BY DEF KeepInv, DirInv
<1>1. Private(s) /\ pc'[s] = "settle"
  BY <1>0, SayPrivate DEF Leave
<1>2. result'[s] # "ok" /\ turn'[s] = turn[s]
  BY <1>0 DEF Leave, TypeOK
<1>3. mode[s].explicit => KeepOf(s)'
  <2> SUFFICES ASSUME mode[s].explicit
               PROVE  KeepOf(s)'
    OBVIOUS
  <2>1. KeepOf(s)
    BY DEF KeepInv
  <2> QED BY <1>1, <1>2, <2>1 DEF KeepOf, Begun, InLoop, Before, Private
<1> QED BY <1>1, <1>3, KeepPrivate

LEMMA KeepRun ==
  ASSUME KeepInv, DirInv', NEW s \in Sessions, Run(s)
  PROVE  KeepInv'
<1>0. TypeOK /\ (mode[s].explicit => KeepOf(s))
  BY DEF KeepInv, DirInv
<1>1. CASE Refuse(s)
  <2>1. Private(s) /\ pc'[s] = "done" /\ turn'[s] = turn[s] /\ result'[s] # "ok"
    BY <1>0, <1>1 DEF Refuse, Say, TypeOK, Private, loop, outputs, dir
  <2>2. mode[s].explicit => KeepOf(s)'
    BY <1>0, <1>1, <2>1 DEF Refuse, At, KeepOf, Begun, InLoop, Before, Private
  <2> QED BY <2>1, <2>2, KeepPrivate
<1>2. CASE Open(s)
  <2>1. Private(s) /\ pc'[s] = "check" /\ todo'[s] = <<>> /\ turn'[s] = turn[s] /\ result'[s] = result[s]
    BY <1>0, <1>2 DEF Open, Say, TypeOK, Private, loop, dir
  <2>2. mode[s].explicit => KeepOf(s)'
    BY <1>0, <1>2, <2>1 DEF Open, At, KeepOf, Begun, InLoop, Before, Private
  <2> QED BY <2>1, <2>2, KeepPrivate
<1>3. CASE Misconfigured(s)
  BY <1>3, KeepLeave DEF Misconfigured, Outcome, loop, outputs, dir
<1>4. CASE Attach(s)
  <2>1. /\ mode' = mode /\ file' = file /\ failure' = failure
        /\ turn' = turn /\ result' = result
        /\ \A x \in Sessions \ {s} :
             pc'[x] = pc[x] /\ todo'[x] = todo[x] /\ logOn'[x] = logOn[x]
        /\ pc'[s] = "attach" /\ todo'[s] = <<NewRow("header", 0)>>
        /\ mode[s].explicit => logOn'[s]
    BY <1>0, <1>4 DEF Attach, Say, TypeOK, loop, dir
  <2>2. mode[s].explicit => KeepOf(s)'
    BY <1>0, <1>4, <2>1 DEF Attach, At, KeepOf, InLoop, Before
  <2>3. ASSUME NEW x \in Sessions \ {s}, mode[x].explicit
        PROVE  KeepOf(x)'
    <3>1. KeepOf(x)
      BY <2>3 DEF KeepInv
    <3> QED BY <2>1, <3>1 DEF KeepOf, Begun, Kept, Queued
  <2> QED BY <2>1, <2>2, <2>3 DEF KeepInv
<1>5. CASE Started(s)
  <2>1. CASE failure[s]
    BY <1>5, <2>1, KeepLeave DEF Started, Outcome, loop, outputs, dir
  <2>2. CASE ~failure[s]
    <3>1. Private(s) /\ pc'[s] = "turn" /\ turn'[s] = turn[s] /\ result'[s] = result[s]
      BY <1>0, <1>5, <2>2 DEF Started, Say, TypeOK, Private, loop, outputs, dir
    <3>2. mode[s].explicit => Begun(s)
      BY <1>0, <1>5, <2>2 DEF Started, At, Idle, KeepOf
    <3>3. mode[s].explicit => KeepOf(s)'
      BY <1>0, <1>5, <3>1, <3>2 DEF Started, At, KeepOf, Begun, InLoop, Before, Private
    <3> QED BY <3>1, <3>3, KeepPrivate
  <2> QED BY <2>1, <2>2
<1>6. CASE Finish(s)
  <2>1. /\ Private(s) /\ pc'[s] = "finish" /\ turn'[s] = turn[s]
        /\ result'[s] = OutcomeOf(s)
    BY <1>0, <1>6 DEF Finish, Say, TypeOK, Private, loop, outputs, dir
  <2>2. pc[s] = "settle" /\ todo[s] = <<>>
    BY <1>6 DEF Finish, At, Idle
  <2>3. OutcomeOf(s) = "ok" => result[s] = "ok" /\ ~failure[s]
    BY DEF OutcomeOf
  <2>4. ~Queued(s)
    BY <2>2 DEF Queued
  <2>5. ASSUME mode[s].explicit, OutcomeOf(s) = "ok"
        PROVE  Kept(s) /\ logOn[s]
    BY <1>0, <2>2, <2>3, <2>4, <2>5 DEF KeepOf, Before
  <2>6. mode[s].explicit => KeepOf(s)'
    BY <1>0, <2>1, <2>2, <2>5 DEF KeepOf, Begun, Kept, InLoop, Before, Private
  <2> QED BY <2>1, <2>6, KeepPrivate
<1> QED BY <1>1, <1>2, <1>3, <1>4, <1>5, <1>6 DEF Run

LEMMA KeepLoop ==
  ASSUME KeepInv, DirInv', NEW s \in Sessions, Loop(s) \/ Interrupt(s)
  PROVE  KeepInv'
<1>0. TypeOK /\ (mode[s].explicit => KeepOf(s))
  BY DEF KeepInv, DirInv
<1> USE DEF InLoop
<1>1. CASE OutOfTime(s) \/ Interrupt(s) \/ ModelFails(s)
  BY <1>1, KeepLeave DEF OutOfTime, Interrupt, ModelFails, Outcome, loop, outputs, dir
<1>2. CASE StartTurn(s)
  BY <1>2, KeepInLoop DEF StartTurn, At, outputs, dir
<1>3. CASE Fragment(s) \/ Retry(s)
  BY <1>3, KeepInLoop DEF Fragment, Retry, At, outputs, dir
<1>4. CASE ModelReplies(s)
  BY <1>4, KeepInLoop DEF ModelReplies, At, loop, outputs, dir
<1>5. CASE ToolCalls(s) \/ StartTool(s) \/ ToolEnds(s)
  BY <1>5, KeepInLoop DEF ToolCalls, StartTool, ToolEnds, At, outputs, dir
<1>6. CASE Disallowed(s)
  <2>1. Private(s) /\ UNCHANGED <<pc, todo, turn, result>>
    BY <1>6 DEF Disallowed, Private, outputs, dir
  <2>2. mode[s].explicit => KeepOf(s)'
    BY <1>0, <2>1 DEF KeepOf, Begun, Kept, Queued, Private
  <2> QED BY <2>1, <2>2, KeepPrivate
<1>7. CASE NoAnswer(s)
  <2> DEFINE rows == <<NewRow("tool.failed", turn[s]), TurnRow(s, "")>>
  <2>1. \/ Say(s, rows, "turn") /\ UNCHANGED result
        \/ Leave(s, rows, "gave_up")
    BY <1>7 DEF NoAnswer
  <2>2. pc[s] = "reply" /\ UNCHANGED <<mode, file, logOn, failure, turn>>
    BY <1>7 DEF NoAnswer, At, loop, outputs, dir
  <2> HIDE DEF rows
  <2> QED BY <2>1, <2>2, KeepInLoop, KeepLeave DEF Outcome
<1>8. CASE SettleTurn(s)
  <2> DEFINE rows == [i \in 1..failed[s] |-> NewRow("tool.failed", turn[s])]
                       \o <<TurnRow(s, "")>> \o Traced(s)
  <2>1. \/ Say(s, rows, "turn") /\ UNCHANGED result
        \/ Leave(s, rows, "gave_up")
    BY <1>8 DEF SettleTurn
  <2>2. pc[s] = "dispatch" /\ UNCHANGED <<mode, file, logOn, failure, turn>>
    BY <1>8 DEF SettleTurn, At, loop, outputs, dir
  <2> HIDE DEF rows
  <2> QED BY <2>1, <2>2, KeepInLoop, KeepLeave DEF Outcome
<1>9. CASE Answer(s)
  <2> DEFINE rows == <<NewRow("answer.verified", turn[s]), TurnRow(s, "synthesis")>>
  <2>1. PICK outcome \in {"ok", "search_blocked"} : Leave(s, rows, outcome)
    BY <1>9 DEF Answer
  <2>2. UNCHANGED <<mode, file, logOn, failure, turn>> /\ pc[s] = "reply"
    BY <1>9 DEF Answer, At, loop, outputs, dir
  <2>3. Len(rows) = 2
    OBVIOUS
  <2>4. rows[2].kind = "turn" /\ rows[2].says = "synthesis"
    <3>1. rows[2] = TurnRow(s, "synthesis")
      OBVIOUS
    <3> QED BY <3>1 DEF TurnRow, NewRow
  <2> HIDE DEF rows
  <2>5. Private(s) /\ pc'[s] = "settle" /\ todo'[s] = rows /\ turn'[s] = turn[s]
    BY <1>0, <2>1, <2>2, SayPrivate DEF Leave, Outcome
  <2>6. Queued(s)'
    <3>1. 2 \in 1..Len(todo'[s])
      <4>1. Len(todo'[s]) = 2
        BY <2>3, <2>5, Zenon
      <4> QED BY <4>1
    <3>2. todo'[s][2].kind = "turn" /\ todo'[s][2].says = "synthesis"
      BY <2>4, <2>5
    <3> QED BY <3>1, <3>2 DEF Queued
  <2>7. mode[s].explicit => (logOn[s] \/ failure[s]) /\ Begun(s)
    BY <1>0, <2>2 DEF KeepOf, Before
  <2>8. mode[s].explicit => KeepOf(s)'
    BY <2>2, <2>5, <2>6, <2>7 DEF KeepOf, Begun, Before, Private
  <2> QED BY <2>5, <2>8, KeepPrivate
<1> QED BY <1>1, <1>2, <1>3, <1>4, <1>5, <1>6, <1>7, <1>8, <1>9 DEF Loop

(* An Event keeps its place in the queue when it is numbered, and only a   *)
(* fragment leaves it without a row in the log.                            *)
LEMMA KeepEmit ==
  ASSUME KeepInv, DirInv', NEW s \in Sessions, Emit(s)
  PROVE  KeepInv'
<1> DEFINE row == [Head(todo[s]) EXCEPT !.seq = Stamp(s)]
<1>0. TypeOK /\ (mode[s].explicit => KeepOf(s))
  BY DEF KeepInv, DirInv
<1>1. /\ todo[s] \in Seq(Row) /\ todo[s] # <<>> /\ Head(todo[s]) \in Row
      /\ Tail(todo[s]) \in Seq(Row) /\ Len(Tail(todo[s])) = Len(todo[s]) - 1
      /\ \A i \in 1..Len(Tail(todo[s])) : Tail(todo[s])[i] = todo[s][i + 1]
  BY <1>0, QueueHead, HeadTailProperties DEF Emit
<1>2. Head(todo[s]).kind \in Event /\ Head(todo[s]).kind \notin {"turn", "header"}
  BY DEF Emit, Event, Stored
<1>3. todo'[s] = Tail(todo[s]) \/ todo'[s] = <<row>> \o Tail(todo[s])
  BY <1>0 DEF Emit, TypeOK
<1>4. /\ Private(s) /\ pc'[s] = pc[s] /\ turn'[s] = turn[s] /\ result'[s] = result[s]
  BY <1>0 DEF Emit, Private, TypeOK, loop, dir
<1>5. row \in Row
  <2>1. Stamp(s) \in Nat
    BY <1>0 DEF Stamp, TypeOK
  <2> QED BY <1>1, <2>1, RowExceptType
<1> HIDE DEF row
<1>6. Queued(s) => Queued(s)'
  <2> SUFFICES ASSUME Queued(s)
               PROVE  Queued(s)'
    OBVIOUS
  <2>1. PICK i \in 1..Len(todo[s]) : todo[s][i].kind = "turn" /\ todo[s][i].says = "synthesis"
    BY DEF Queued
  <2>2. todo[s][1] = Head(todo[s]) /\ Len(todo[s]) \in Nat
    BY <1>1
  <2>3. i > 1
    BY <1>2, <2>1, <2>2
  <2>4. Tail(todo[s])[i - 1] = todo[s][i] /\ i - 1 \in 1..Len(Tail(todo[s]))
    BY <1>1, <2>2, <2>3
  <2>5. CASE todo'[s] = Tail(todo[s])
    BY <2>1, <2>4, <2>5 DEF Queued
  <2>6. CASE todo'[s] = <<row>> \o Tail(todo[s])
    <3>1. Len(todo'[s]) = Len(todo[s]) /\ todo'[s][i] = Tail(todo[s])[i - 1]
      BY <1>1, <1>5, <2>2, <2>3, <2>4, <2>6
    <3> QED BY <2>1, <2>4, <3>1 DEF Queued
  <2> QED BY <1>3, <2>5, <2>6
<1>7. todo[s] # <<NewRow("header", 0)>>
  <2>1. NewRow("header", 0).kind = "header"
    BY DEF NewRow
  <2>2. Head(<<NewRow("header", 0)>>) = NewRow("header", 0)
    OBVIOUS
  <2> QED BY <1>2, <2>1, <2>2
<1>8. mode[s].explicit => KeepOf(s)'
  BY <1>0, <1>1, <1>4, <1>6, <1>7 DEF KeepOf, Begun, Kept, Before, Private
<1> QED BY <1>4, <1>8, KeepPrivate

(* A row the log takes is in it; one it does not take is a failure.        *)
LEMMA KeepLog ==
  ASSUME KeepInv, DirInv', NEW s \in Sessions, Log(s)
  PROVE  KeepInv'
<1> DEFINE row == Head(todo[s])
<1>0. TypeOK /\ (mode[s].explicit => KeepOf(s))
  BY DEF KeepInv, DirInv
<1>1. /\ todo[s] \in Seq(Row) /\ todo[s] # <<>> /\ row \in Row
      /\ Tail(todo[s]) \in Seq(Row) /\ Len(Tail(todo[s])) = Len(todo[s]) - 1
      /\ \A i \in 1..Len(Tail(todo[s])) : Tail(todo[s])[i] = todo[s][i + 1]
      /\ row = todo[s][1] /\ Len(todo[s]) \in Nat
  BY <1>0, QueueHead, HeadTailProperties DEF Log
<1>2. /\ UNCHANGED <<mode, pc, turn, result>>
      /\ \A x \in Sessions \ {s} :
           /\ todo'[x] = todo[x] /\ file'[x] = file[x]
           /\ logOn'[x] = logOn[x] /\ failure'[x] = failure[x]
      /\ todo'[s] = Tail(todo[s])
  BY <1>0 DEF Log, TypeOK, loop
<1>3. file[s] \in Seq(Row) /\ logOn[s] \in BOOLEAN /\ failure[s] \in BOOLEAN
  BY <1>0 DEF TypeOK
<1>4. mode[s].explicit =>
        \/ file'[s] = Append(file[s], row) /\ logOn[s] /\ logOn'[s] /\ failure'[s] = failure[s]
        \/ file'[s] = file[s] /\ logOn[s] /\ failure'[s]
        \/ file'[s] = file[s] /\ ~logOn[s] /\ failure'[s] = failure[s]
  <2>1. PICK w \in IF logOn[s] THEN Writes(s, "log", file[s], row) ELSE {<<file[s], FALSE>>} :
          /\ file' = [file EXCEPT ![s] = w[1]]
          /\ logOn' = [logOn EXCEPT ![s] = w[2]]
          /\ failure' = [failure EXCEPT ![s] = @ \/ (logOn[s] /\ ~w[2] /\ mode[s].explicit)]
    BY DEF Log
  <2>2. /\ file'[s] = w[1] /\ logOn'[s] = w[2]
        /\ failure'[s] = (failure[s] \/ (logOn[s] /\ ~w[2] /\ mode[s].explicit))
    BY <1>0, <2>1 DEF TypeOK
  <2>3. w = <<Append(file[s], row), TRUE>> \/ w = <<file[s], FALSE>>
    BY <2>1 DEF Writes
  <2>4. ~logOn[s] => w = <<file[s], FALSE>>
    BY <2>1
  <2> HIDE DEF row
  <2>5. CASE w = <<Append(file[s], row), TRUE>> /\ logOn[s]
    <3>1. w[1] = Append(file[s], row) /\ w[2] = TRUE
      BY <2>5
    <3> QED BY <1>3, <2>2, <2>5, <3>1
  <2>6. CASE w = <<file[s], FALSE>>
    <3>1. w[1] = file[s] /\ w[2] = FALSE
      BY <2>6
    <3> QED BY <1>3, <2>2, <3>1
  <2> QED BY <2>3, <2>4, <2>5, <2>6
<1> HIDE DEF row
<1>5. /\ Len(Append(file[s], row)) = Len(file[s]) + 1 /\ Len(file[s]) \in Nat
      /\ Append(file[s], row)[Len(file[s]) + 1] = row
      /\ \A i \in 1..Len(file[s]) : Append(file[s], row)[i] = file[s][i]
      /\ Append(file[s], row) # <<>>
  BY <1>1, <1>3
<1>6. mode[s].explicit /\ Begun(s) => Begun(s)'
  BY <1>3, <1>4, <1>5 DEF Begun
<1>7. mode[s].explicit /\ Kept(s) => Kept(s)'
  BY <1>4, <1>5 DEF Kept
<1>8. mode[s].explicit /\ Queued(s) /\ (logOn[s] \/ failure[s]) => failure'[s] \/ Kept(s)' \/ Queued(s)'
  <2> SUFFICES ASSUME mode[s].explicit, Queued(s), logOn[s], file'[s] = Append(file[s], row)
               PROVE  Kept(s)' \/ Queued(s)'
    BY <1>3, <1>4
  <2>1. PICK i \in 1..Len(todo[s]) : todo[s][i].kind = "turn" /\ todo[s][i].says = "synthesis"
    BY DEF Queued
  <2>2. CASE i = 1
    BY <1>1, <1>5, <2>1, <2>2 DEF Kept
  <2>3. CASE i # 1
    <3>1. i - 1 \in 1..Len(Tail(todo[s])) /\ Tail(todo[s])[i - 1] = todo[s][i]
      BY <1>1, <2>3
    <3>2. /\ i - 1 \in 1..Len(todo'[s])
          /\ todo'[s][i - 1].kind = "turn" /\ todo'[s][i - 1].says = "synthesis"
      BY <1>2, <2>1, <3>1
    <3> QED BY <3>2 DEF Queued
  <2> QED BY <2>2, <2>3
<1>9. ASSUME mode[s].explicit, todo[s] = <<NewRow("header", 0)>>, file[s] = <<>>,
             logOn[s] \/ failure[s]
      PROVE  failure'[s] \/ Begun(s)'
  <2>1. row.kind = "header"
    <3>1. NewRow("header", 0).kind = "header"
      BY DEF NewRow
    <3>2. <<NewRow("header", 0)>>[1] = NewRow("header", 0)
      OBVIOUS
    <3> QED BY <1>1, <1>9, <3>1, <3>2
  <2>2. CASE file'[s] = Append(file[s], row)
    BY <1>5, <1>9, <2>1, <2>2 DEF Begun
  <2> QED BY <1>3, <1>4, <1>9, <2>2
<1>10. ASSUME mode[s].explicit
       PROVE  KeepOf(s)'
  <2>1. pc[s] \notin Before
    BY <1>0, <1>1, <1>10 DEF KeepOf
  <2>2. result[s] = "ok" => (logOn[s] \/ failure[s]) /\ (logOn'[s] \/ failure'[s])
    BY <1>0, <1>3, <1>4, <1>10, <2>1 DEF KeepOf
  <2>3. failure[s] => failure'[s]
    BY <1>3, <1>4, <1>10
  <2> QED BY <1>0, <1>2, <1>6, <1>7, <1>8, <1>9, <1>10, <2>1, <2>2, <2>3 DEF KeepOf
<1>11. ASSUME NEW x \in Sessions \ {s}, mode[x].explicit
       PROVE  KeepOf(x)'
  <2>1. KeepOf(x)
    BY <1>11 DEF KeepInv
  <2> QED BY <1>2, <2>1 DEF KeepOf, Begun, Kept, Queued
<1> QED BY <1>2, <1>10, <1>11 DEF KeepInv

LEMMA KeepRetention ==
  ASSUME KeepInv, DirInv', NEW s \in Sessions, Scan(s) \/ Pruned(s) \/ Evict(s)
  PROVE  KeepInv'
<1>0. TypeOK /\ (mode[s].explicit => KeepOf(s))
  BY DEF KeepInv, DirInv
<1>1. CASE Scan(s)
  <2>1. /\ Private(s) /\ pc'[s] \in {"prune", "done"}
        /\ turn'[s] = turn[s] /\ result'[s] = result[s]
    BY <1>0, <1>1 DEF Scan, Say, TypeOK, Private, loop, outputs
  <2>2. mode[s].explicit => KeepOf(s)'
    BY <1>0, <1>1, <2>1 DEF Scan, At, KeepOf, Begun, Kept, InLoop, Before, Private
  <2> QED BY <2>1, <2>2, KeepPrivate
<1>2. CASE Pruned(s)
  <2>1. Private(s) /\ pc'[s] = "done" /\ turn'[s] = turn[s] /\ result'[s] = result[s]
    BY <1>0, <1>2 DEF Pruned, Say, TypeOK, Private, loop, outputs, dir
  <2>2. mode[s].explicit => KeepOf(s)'
    BY <1>0, <1>2, <2>1 DEF Pruned, Fits, At, KeepOf, Begun, Kept, InLoop, Before, Private
  <2> QED BY <2>1, <2>2, KeepPrivate
<1>3. CASE Evict(s)
  <2> DEFINE v == Head(scan[s]).who
  <2>1. scan[s] \in Seq(SeenDefaults) /\ scan[s] # <<>>
    BY <1>3 DEF Evict, Fits, KeepInv, DirInv
  <2>2. Head(scan[s]) \in SeenDefaults
    BY <2>1, HeadTailProperties
  <2>3. ~mode[v].explicit
    BY <2>2 DEF SeenDefaults, Defaults
  <2>4. UNCHANGED <<mode, pc, turn, result, todo, logOn, failure>>
    BY <1>3 DEF Evict, loop, outputs
  <2>5. file' = [file EXCEPT ![v] = <<>>] \/ file' = file
    BY <1>3 DEF Evict
  <2> HIDE DEF v
  <2>6. ASSUME NEW x \in Sessions, mode[x].explicit
        PROVE  KeepOf(x)'
    <3>1. KeepOf(x) /\ x # v
      BY <2>3, <2>6 DEF KeepInv
    <3>2. file'[x] = file[x]
      BY <1>0, <2>5, <3>1 DEF TypeOK
    <3> QED BY <2>4, <3>1, <3>2 DEF KeepOf, Begun, Kept, Queued
  <2> QED BY <2>4, <2>6 DEF KeepInv
<1> QED BY <1>1, <1>2, <1>3

LEMMA KeepStep ==
  ASSUME KeepInv, [Next]_vars
  PROVE  KeepInv'
<1>0. DirInv'
  BY DirInvStep DEF KeepInv
<1>1. CASE UNCHANGED vars
  BY <1>0, <1>1 DEF KeepInv, KeepOf, Begun, Kept, Queued, vars, loop, outputs, dir
<1>2. ASSUME NEW s \in Sessions,
             \/ Run(s) \/ Loop(s) \/ Interrupt(s)
             \/ Emit(s) \/ Log(s)
             \/ Scan(s) \/ Pruned(s) \/ Evict(s)
      PROVE  KeepInv'
  BY <1>0, <1>2, KeepRun, KeepLoop, KeepEmit, KeepLog, KeepRetention
<1> QED BY <1>1, <1>2 DEF Next

(* A Session with --session-out starts no Turn before its header is in the *)
(* log, and ends well only with the Synthesis there, whichever row the     *)
(* disk refuses and whatever other Sessions prune meanwhile.               *)
THEOREM ExplicitKept == Spec => []ExplicitLogKept
<1>1. Init => KeepInv
  BY KeepInit
<1>2. KeepInv /\ [Next]_vars => KeepInv'
  BY KeepStep
<1>3. KeepInv => ExplicitLogKept
  <2> SUFFICES ASSUME KeepInv, NEW s \in Sessions, mode[s].explicit
               PROVE  /\ turn[s] > 0 => Begun(s)
                      /\ pc[s] = "done" /\ result[s] = "ok"
                           => \E r \in ToSet(file[s]) : r.says = "synthesis"
    BY DEF ExplicitLogKept, Begun
  <2>1. KeepOf(s) /\ file[s] \in Seq(Row)
    BY DEF KeepInv, DirInv, TypeOK
  <2>2. Kept(s) => \E r \in ToSet(file[s]) : r.says = "synthesis"
    BY <2>1 DEF Kept, ToSet
  <2> QED BY <2>1, <2>2 DEF KeepOf
<1> QED BY <1>1, <1>2, <1>3, PTL DEF Spec

-----------------------------------------------------------------------------
(* What the stream and the log tell: an invariant of each Session, of what *)
(* it queued and what it wrote.                                            *)

Exits == {"ok", "search_blocked", "gave_up"}
Answered == {"ok", "search_blocked"}
OpenTurn == {"model", "reply", "dispatch", "tool"}
Over == {"finish", "prune", "done"}

(* What a row that waits to be written says is still so.                   *)
Timely(s, r) ==
  /\ r.turn <= turn[s]
  /\ r.kind = "model.delta" =>
       r.turn = turn[s] /\ r.attempt = attempt[s] /\ mode[s].events = "tokens"
  /\ r.kind = "model.retry" => r.turn = turn[s] /\ r.attempt + 1 = attempt[s]
  /\ r.kind = "turn.started" => r.turn = turn[s] /\ pc[s] = "model"
  /\ r.kind = "turn" =>
       /\ r.turn = turn[s] /\ pc[s] \in {"turn", "settle"}
       /\ pc[s] = "settle" /\ result[s] \in Answered => r.says = "synthesis"
  /\ r.kind = "session.finished" => pc[s] = "finish" /\ r.says = result[s]
  /\ r.says \in Exits => r.kind = "session.finished"

(* What waits to be written: the row being written is an Event the stream  *)
(* has counted, and the exit's Event is alone.                             *)
QueueOf(s) ==
  /\ \A i \in DOMAIN todo[s] : Timely(s, todo[s][i])
  /\ \A i, j \in DOMAIN todo[s] :
       todo[s][i].kind = "turn" /\ todo[s][j].kind = "turn" => i = j
  /\ \A i, j \in DOMAIN todo[s] : todo[s][i].kind = "model.delta" => i = j
  /\ \A i \in DOMAIN todo[s] : pc[s] = "finish" => i = 1 /\ todo[s][i].kind = "session.finished"
  /\ half[s] => todo[s] # <<>> /\ todo[s][1].kind \in Stored /\ todo[s][1].seq = seq[s] /\ seq[s] > 0
  /\ pc[s] \in Before => /\ todo[s] = <<>> /\ stream[s] = <<>> /\ file[s] = <<>>
                         /\ seq[s] = 0 /\ ~logOn[s]
  /\ pc[s] \in Before \cup {"attach"} => turn[s] = 0
  /\ pc[s] = "open" => ~streamOn[s]
  /\ pc[s] \in {"prune", "done"} => todo[s] = <<>>

(* The fragments and retries in the stream are of this attempt or earlier. *)
Retrying(s) == \E k \in DOMAIN todo[s] : todo[s][k].kind = "model.retry"
FragmentsOf(s) ==
  \A i \in DOMAIN stream[s] :
    /\ stream[s][i].turn <= turn[s]
    /\ stream[s][i].turn = turn[s] /\ stream[s][i].kind = "model.delta" =>
         /\ stream[s][i].attempt <= attempt[s]
         /\ Retrying(s) => stream[s][i].attempt < attempt[s]
    /\ stream[s][i].turn = turn[s] /\ stream[s][i].kind = "model.retry" =>
         stream[s][i].attempt < attempt[s]
AttributedOf(s) ==
  \A i, j \in DOMAIN stream[s] :
    i < j /\ stream[s][i].turn = stream[s][j].turn =>
      /\ stream[s][i].kind = "model.delta" /\ stream[s][j].kind = "model.retry" =>
           stream[s][i].attempt <= stream[s][j].attempt
      /\ stream[s][i].kind = "model.retry" /\ stream[s][j].kind = "model.delta" =>
           stream[s][i].attempt < stream[s][j].attempt

(* The exit's Event is the last row of each output, when it is there.      *)
Final(rows) == {i \in DOMAIN rows : rows[i].kind = "session.finished"}
ClosedOf(s) ==
  /\ \A i \in Final(stream[s]) : i = Len(stream[s]) /\ stream[s][i].says = result[s]
  /\ \A i \in Final(file[s]) : i = Len(file[s]) /\ file[s][i].says = result[s]
  /\ Final(stream[s]) # {} => pc[s] \in Over /\ (half[s] \/ todo[s] = <<>>)
  /\ Final(file[s]) # {} => pc[s] \in Over /\ todo[s] = <<>>
  /\ pc[s] \in Over =>
       /\ streamOn[s] /\ (half[s] \/ todo[s] = <<>>) => Final(stream[s]) # {}
       /\ logOn[s] /\ ~pruned[s] /\ todo[s] = <<>> => Final(file[s]) # {}

(* A log that is on has the row of each Turn that was left, or will.       *)
TurnRows(s, n) == {i \in DOMAIN file[s] : file[s][i].kind = "turn" /\ file[s][i].turn = n}
QueuedTurn(s) == \E k \in DOMAIN todo[s] : todo[s][k].kind = "turn"
LeftTurn(s) ==
  \/ pc[s] = "turn" /\ turn[s] > 0
  \/ pc[s] \in {"settle", "finish"} /\ result[s] \in Exits
TurnsOf(s) ==
  ~pruned[s] =>
    /\ \A i \in DOMAIN file[s] : file[s][i].turn <= turn[s]
    /\ \A n \in Nat : \A i, j \in TurnRows(s, n) : i = j
    /\ pc[s] \in OpenTurn \/ QueuedTurn(s) => TurnRows(s, turn[s]) = {}
    /\ logOn[s] => \A n \in 1..turn[s] - 1 : TurnRows(s, n) # {}
    /\ logOn[s] /\ LeftTurn(s) => QueuedTurn(s) \/ TurnRows(s, turn[s]) # {}
    /\ pc[s] \in {"settle"} \cup Over /\ result[s] \in Answered =>
         \A i \in TurnRows(s, turn[s]) : file[s][i].says = "synthesis"
    /\ \A j \in DOMAIN file[s] :
         /\ file[s][j].kind = "turn.started" =>
              \A n \in 1..file[s][j].turn - 1 : \E i \in TurnRows(s, n) : i < j
         /\ file[s][j].says \in Exits =>
              /\ pc[s] \in Over /\ file[s][j].says = result[s]
              /\ TurnRows(s, turn[s]) # {}

(* The stream has the Events up to seq and the log those of them it keeps, *)
(* or either stopped before.                                               *)
Closing(rows) == \A r \in rows : r.seq = 1 \/ \E q \in rows : q.seq = r.seq - 1
StoryOf(s) ==
  /\ Len(stream[s]) <= seq[s] /\ (streamOn[s] => Len(stream[s]) = seq[s])
  /\ \A i \in DOMAIN stream[s] : stream[s][i].seq = i
  /\ \A i \in DOMAIN file[s] : file[s][i].kind \in Stored =>
       /\ file[s][i].seq \in 1..seq[s]
       /\ half[s] => file[s][i].seq < seq[s]
  /\ \A i, j \in DOMAIN file[s] :
       i < j /\ file[s][i].kind \in Stored /\ file[s][j].kind \in Stored =>
         file[s][i].seq < file[s][j].seq
SetsOf(s) ==
  ~pruned[s] =>
    /\ streamOn[s] /\ logOn[s] => Events(file[s]) \cup Pending(s) = Events(stream[s])
    /\ streamOn[s] /\ ~logOn[s] => Begins(Events(file[s]), Events(stream[s]))
    /\ ~streamOn[s] /\ logOn[s] => Begins(Events(stream[s]), Events(file[s]) \cup Pending(s))
    /\ ~streamOn[s] /\ ~logOn[s] => \/ Begins(Events(file[s]), Events(stream[s]))
                                    \/ Begins(Events(stream[s]), Events(file[s]))
NumbersOf(s) ==
  ~pruned[s] /\ mode[s].events # "tokens" =>
    /\ Closing(Events(file[s]))
    /\ logOn[s] => \A n \in 1..seq[s] : \E r \in Events(file[s]) \cup Pending(s) : r.seq = n

RowsOf(s) ==
  /\ QueueOf(s) /\ FragmentsOf(s) /\ AttributedOf(s) /\ ClosedOf(s) /\ TurnsOf(s)
  /\ StoryOf(s) /\ SetsOf(s) /\ NumbersOf(s)
RowsInv == TypeOK /\ \A s \in Sessions : RowsOf(s)

(* What a step of one Session leaves alone of another.                     *)
Same(x) ==
  /\ mode'[x] = mode[x] /\ pc'[x] = pc[x] /\ turn'[x] = turn[x] /\ attempt'[x] = attempt[x]
  /\ result'[x] = result[x] /\ todo'[x] = todo[x] /\ half'[x] = half[x] /\ seq'[x] = seq[x]
  /\ stream'[x] = stream[x] /\ streamOn'[x] = streamOn[x] /\ logOn'[x] = logOn[x]

SameLog(x) == file'[x] = file[x] /\ pruned'[x] = pruned[x]

Gone(x) == file'[x] = <<>> /\ pruned'[x]

LEMMA SameKeeps ==
  ASSUME NEW x \in Sessions, RowsOf(x), Same(x),
         SameLog(x) \/ Gone(x)
  PROVE  RowsOf(x)'
<1>0. DOMAIN <<>> = {}
  OBVIOUS
<1>a. file'[x] = file[x] \/ file'[x] = <<>>
  BY DEF SameLog, Gone
<1>b. Pending(x)' = Pending(x) /\ QueuedTurn(x)' = QueuedTurn(x) /\ Retrying(x)' = Retrying(x)
      /\ LeftTurn(x)' = LeftTurn(x)
  BY DEF Same, Pending, QueuedTurn, Retrying, LeftTurn
<1>1. QueueOf(x)'
  <2>1. QueueOf(x)
    BY DEF RowsOf
  <2> QED BY <1>a, <2>1 DEF QueueOf, Timely, Same
<1>2. FragmentsOf(x)' /\ AttributedOf(x)'
  <2>1. FragmentsOf(x) /\ AttributedOf(x)
    BY DEF RowsOf
  <2> QED BY <1>b, <2>1 DEF FragmentsOf, AttributedOf, Same
<1>3. ClosedOf(x)'
  <2>1. ClosedOf(x)
    BY DEF RowsOf
  <2>2. CASE SameLog(x)
    BY <2>1, <2>2 DEF ClosedOf, Final, Same, SameLog
  <2>3. CASE Gone(x)
    <3>1. Final(file[x])' = {}
      BY <1>0, <2>3 DEF Final, Gone
    <3>2. Final(stream[x])' = Final(stream[x])
      BY DEF Final, Same
    <3> QED BY <2>1, <2>3, <3>1, <3>2 DEF ClosedOf, Same, Gone
  <2> QED BY <2>2, <2>3
<1>4. TurnsOf(x)'
  <2>1. TurnsOf(x)
    BY DEF RowsOf
  <2>2. CASE SameLog(x)
    <3>1. \A n : TurnRows(x, n)' = TurnRows(x, n)
      BY <2>2 DEF TurnRows, SameLog
    <3> QED BY <1>b, <2>1, <2>2, <3>1 DEF TurnsOf, Same, SameLog
  <2>3. CASE Gone(x)
    BY <2>3 DEF TurnsOf, Gone
  <2> QED BY <2>2, <2>3
<1>5. StoryOf(x)'
  <2>1. StoryOf(x)
    BY DEF RowsOf
  <2>2. CASE SameLog(x)
    BY <2>1, <2>2 DEF StoryOf, Same, SameLog
  <2>3. CASE Gone(x)
    BY <1>0, <2>1, <2>3 DEF StoryOf, Same, Gone
  <2> QED BY <2>2, <2>3
<1>6. SetsOf(x)' /\ NumbersOf(x)'
  <2>1. SetsOf(x) /\ NumbersOf(x)
    BY DEF RowsOf
  <2>2. CASE SameLog(x)
    <3>1. Events(file[x])' = Events(file[x]) /\ Events(stream[x])' = Events(stream[x])
      BY <2>2 DEF Events, SameLog, Same
    <3> QED BY <1>b, <2>1, <2>2, <3>1 DEF SetsOf, NumbersOf, Same, SameLog
  <2>3. CASE Gone(x)
    BY <2>3 DEF SetsOf, NumbersOf, Gone
  <2> QED BY <2>2, <2>3
<1> QED BY <1>1, <1>2, <1>3, <1>4, <1>5, <1>6 DEF RowsOf

(* A step of the Session body queues rows and moves on; what it queues is, *)
(* but for the kinds the invariant speaks of, of no consequence.           *)
Told == {"model.delta", "model.retry", "turn.started", "turn", "session.finished"}
Quiet(rows, n) ==
  \A i \in DOMAIN rows : rows[i].kind \notin Told /\ rows[i].turn <= n /\ rows[i].says \notin Exits

Setup(s) ==
  /\ pc[s] \in Before \cup {"attach"} /\ pc'[s] \in {"check", "attach", "turn", "settle", "done"}
  /\ turn'[s] = turn[s] /\ attempt'[s] = attempt[s]
  /\ pc'[s] \in {"settle", "done"} => result'[s] \notin Exits
  /\ Quiet(todo'[s], turn'[s])
  /\ pc'[s] \in {"check", "done"} => pc[s] = "open" /\ todo'[s] = <<>>
  /\ pc'[s] # "check" => streamOn'[s] = streamOn[s]
  /\ pc'[s] # "attach" => logOn'[s] = logOn[s]
  /\ pc'[s] = "attach" => pc[s] = "check"

SameOutputs(s) == streamOn'[s] = streamOn[s] /\ logOn'[s] = logOn[s]
SameTurn(s) == turn'[s] = turn[s] /\ attempt'[s] = attempt[s]

InTurn(s) ==
  /\ pc[s] \in OpenTurn /\ pc'[s] \in OpenTurn
  /\ SameOutputs(s) /\ SameTurn(s) /\ result'[s] = result[s]
  /\ \/ Quiet(todo'[s], turn'[s])
     \/ \E r \in Row : /\ todo'[s] = <<r>> /\ r.kind = "model.delta" /\ r.turn = turn[s]
                       /\ r.attempt = attempt[s] /\ r.says = "" /\ mode[s].events = "tokens"

Retries(s) ==
  /\ pc[s] = "model" /\ pc'[s] = "model"
  /\ SameOutputs(s) /\ result'[s] = result[s]
  /\ turn'[s] = turn[s] /\ attempt'[s] = attempt[s] + 1
  /\ \E r \in Row : /\ todo'[s] = <<r>> /\ r.kind = "model.retry" /\ r.turn = turn[s]
                    /\ r.attempt = attempt[s] /\ r.says = ""

Starts(s) ==
  /\ pc[s] = "turn" /\ pc'[s] = "model"
  /\ SameOutputs(s) /\ result'[s] = result[s]
  /\ turn'[s] = turn[s] + 1
  /\ \A i \in DOMAIN todo'[s] : /\ todo'[s][i].kind \in {"turn.started", "context.truncated"}
                                /\ todo'[s][i].turn = turn[s] + 1 /\ todo'[s][i].says = ""

Abandons(s) ==
  /\ pc[s] \in OpenTurn \cup {"turn"} /\ pc'[s] = "settle"
  /\ SameOutputs(s) /\ SameTurn(s) /\ result'[s] \notin Exits
  /\ Quiet(todo'[s], turn'[s])

Closes(s) ==
  /\ pc[s] \in OpenTurn
  /\ SameOutputs(s) /\ SameTurn(s)
  /\ \E k \in DOMAIN todo'[s] :
       /\ todo'[s][k].kind = "turn" /\ todo'[s][k].turn = turn[s]
       /\ todo'[s][k].says \notin Exits
       /\ \A i \in DOMAIN todo'[s] \ {k} :
            todo'[s][i].kind \notin Told /\ todo'[s][i].turn <= turn[s] /\ todo'[s][i].says \notin Exits
       /\ \/ pc'[s] = "turn" /\ result'[s] = result[s]
          \/ /\ pc'[s] = "settle" /\ result'[s] \in Exits
             /\ result'[s] \in Answered => todo'[s][k].says = "synthesis"

Finishes(s) ==
  /\ pc[s] = "settle" /\ pc'[s] = "finish"
  /\ SameOutputs(s) /\ SameTurn(s)
  /\ result'[s] = result[s] \/ result'[s] \notin Exits
  /\ \E r \in Row : /\ todo'[s] = <<r>> /\ r.kind = "session.finished" /\ r.turn = 0
                    /\ r.says = result'[s]

Moves(s) ==
  Setup(s) \/ InTurn(s) \/ Retries(s) \/ Starts(s) \/ Abandons(s) \/ Closes(s) \/ Finishes(s)

(* What is written stays as it is meanwhile, for every Session.            *)
Local(s) ==
  /\ todo[s] = <<>> /\ half' = half
  /\ \A x \in Sessions \ {s} : Same(x)
  /\ UNCHANGED <<mode, seq, stream, file, pruned>>

LEMMA LocalStep ==
  ASSUME TypeOK, NEW s \in Sessions, Run(s) \/ Loop(s) \/ Interrupt(s)
  PROVE  Local(s)
<1> USE DEF Local, Same, TypeOK, Idle, Say, Leave, At, outputs, dir, loop
<1>1. CASE Refuse(s)
  BY <1>1 DEF Refuse
<1>2. CASE Open(s)
  BY <1>2 DEF Open
<1>3. CASE Misconfigured(s)
  BY <1>3 DEF Misconfigured
<1>4. CASE Attach(s)
  BY <1>4 DEF Attach
<1>5. CASE Started(s)
  <2>1. CASE failure[s]
    BY <1>5, <2>1 DEF Started
  <2>2. CASE ~failure[s]
    BY <1>5, <2>2 DEF Started
  <2> QED BY <2>1, <2>2
<1>6. CASE Finish(s)
  BY <1>6 DEF Finish
<1>7. CASE OutOfTime(s) \/ Interrupt(s) \/ ModelFails(s)
  BY <1>7 DEF OutOfTime, Interrupt, ModelFails
<1>8. CASE StartTurn(s)
  BY <1>8 DEF StartTurn
<1>9. CASE Fragment(s) \/ Retry(s) \/ ModelReplies(s)
  BY <1>9 DEF Fragment, Retry, ModelReplies
<1>10. CASE Answer(s) \/ NoAnswer(s)
  BY <1>10 DEF Answer, NoAnswer
<1>11. CASE ToolCalls(s) \/ Disallowed(s)
  BY <1>11 DEF ToolCalls, Disallowed
<1>12. CASE StartTool(s) \/ ToolEnds(s)
  BY <1>12 DEF StartTool, ToolEnds
<1>13. CASE SettleTurn(s)
  BY <1>13 DEF SettleTurn
<1> QED BY <1>1, <1>2, <1>3, <1>4, <1>5, <1>6, <1>7, <1>8, <1>9, <1>10, <1>11, <1>12, <1>13
        DEF Run, Loop

LEMMA QuietRows ==
  ASSUME NEW m \in Nat, NEW n \in Nat, n <= m
  PROVE  /\ Quiet(<<>>, m)
         /\ \A kind \in Kind \ Told : Quiet(<<NewRow(kind, n)>>, m)
<1>1. DOMAIN <<>> = {}
  OBVIOUS
<1>2. \A kind : NewRow(kind, n).kind = kind /\ NewRow(kind, n).turn = n /\ NewRow(kind, n).says = ""
  BY DEF NewRow
<1>3. "" \notin Exits
  BY DEF Exits
<1>4. \A r : DOMAIN <<r>> = {1} /\ <<r>>[1] = r
  OBVIOUS
<1>5. Quiet(<<>>, m)
  BY <1>1 DEF Quiet
<1>6. ASSUME NEW kind \in Kind \ Told PROVE Quiet(<<NewRow(kind, n)>>, m)
  <2>1. PICK r : r = NewRow(kind, n)
    OBVIOUS
  <2>2. r.kind \notin Told /\ r.turn <= m /\ r.says \notin Exits
    BY <1>2, <1>3, <2>1
  <2>3. Quiet(<<r>>, m)
    BY <1>4, <2>2 DEF Quiet
  <2> QED BY <2>1, <2>3
<1> QED BY <1>5, <1>6

LEMMA QuietJoin ==
  ASSUME NEW m \in Nat, NEW p \in Seq(Row), NEW q \in Seq(Row), Quiet(p, m), Quiet(q, m)
  PROVE  Quiet(p \o q, m)
<1>1. \A i \in DOMAIN (p \o q) :
        \/ i \in DOMAIN p /\ (p \o q)[i] = p[i]
        \/ i - Len(p) \in DOMAIN q /\ (p \o q)[i] = q[i - Len(p)]
  OBVIOUS
<1> QED BY <1>1 DEF Quiet

LEMMA AroundRow ==
  ASSUME NEW p \in Seq(Row), NEW t \in Row, NEW q \in Seq(Row), NEW rows, rows = p \o <<t>> \o q
  PROVE  /\ Len(p) + 1 \in DOMAIN rows /\ rows[Len(p) + 1] = t
         /\ \A i \in DOMAIN rows : i # Len(p) + 1 =>
              \/ i \in DOMAIN p /\ rows[i] = p[i]
              \/ i - (Len(p) + 1) \in DOMAIN q /\ rows[i] = q[i - (Len(p) + 1)]
<1>1. PICK pre : pre = p \o <<t>>
  OBVIOUS
<1>2. /\ pre \in Seq(Row) /\ Len(pre) = Len(p) + 1 /\ Len(p) \in Nat /\ pre[Len(p) + 1] = t
      /\ \A i \in DOMAIN p : pre[i] = p[i]
  BY <1>1
<1>3. rows = pre \o q
  BY <1>1
<1>4. /\ Len(rows) = Len(pre) + Len(q) /\ rows \in Seq(Row) /\ Len(q) \in Nat
      /\ \A i \in 1..Len(pre) : rows[i] = pre[i]
      /\ \A i \in Len(pre) + 1 .. Len(rows) : rows[i] = q[i - Len(pre)]
  BY <1>2, <1>3
<1>5. DOMAIN rows = 1..Len(rows) /\ DOMAIN p = 1..Len(p) /\ DOMAIN q = 1..Len(q)
  BY <1>4
<1> QED BY <1>2, <1>4, <1>5

LEMMA TracedQuiet ==
  ASSUME TypeOK, NEW s \in Sessions
  PROVE  Quiet(Traced(s), turn[s])
<1>1. turn[s] \in Nat /\ "trace" \in Kind \ Told
  BY KindTypes DEF TypeOK, Told
<1> QED BY <1>1, QuietRows DEF Traced

LEMMA MoveSetup ==
  ASSUME TypeOK, NEW s \in Sessions, Run(s)
  PROVE  Moves(s)
<1>0. /\ turn[s] \in Nat /\ Quiet(<<>>, turn[s])
      /\ \A kind \in Kind \ Told : Quiet(<<NewRow(kind, 0)>>, turn[s])
  BY QuietRows DEF TypeOK
<1>a. {"header", "session.started"} \subseteq Kind \ Told
  BY KindTypes DEF Told
<1>1. CASE Refuse(s)
  <2>1. /\ pc[s] = "open" /\ pc'[s] = "done" /\ todo'[s] = <<>> /\ turn' = turn /\ attempt' = attempt
        /\ result'[s] = "not_configured" /\ streamOn' = streamOn /\ logOn' = logOn
    BY <1>1 DEF Refuse, Say, At, TypeOK, loop, outputs
  <2> QED BY <1>0, <2>1 DEF Moves, Setup, Before, Exits
<1>2. CASE Open(s)
  <2>1. /\ pc[s] = "open" /\ pc'[s] = "check" /\ todo'[s] = <<>> /\ turn' = turn /\ attempt' = attempt
        /\ logOn' = logOn
    BY <1>2 DEF Open, Say, At, TypeOK, loop
  <2> QED BY <1>0, <2>1 DEF Moves, Setup, Before
<1>3. CASE Misconfigured(s)
  <2>1. /\ pc[s] = "check" /\ pc'[s] = "settle" /\ todo'[s] = <<>> /\ turn' = turn /\ attempt' = attempt
        /\ result'[s] = "not_configured" /\ streamOn' = streamOn /\ logOn' = logOn
    BY <1>3 DEF Misconfigured, Leave, Say, At, TypeOK, loop, outputs
  <2> QED BY <1>0, <2>1 DEF Moves, Setup, Before, Exits
<1>4. CASE Attach(s)
  <2>1. /\ pc[s] = "check" /\ pc'[s] = "attach" /\ todo'[s] = <<NewRow("header", 0)>>
        /\ turn' = turn /\ attempt' = attempt /\ streamOn' = streamOn
    BY <1>4 DEF Attach, Say, At, TypeOK, loop
  <2>2. Quiet(todo'[s], turn[s])
    BY <1>0, <1>a, <2>1
  <2> QED BY <2>1, <2>2 DEF Moves, Setup, Before
<1>5. CASE Started(s)
  <2>1. /\ pc[s] = "attach" /\ turn' = turn /\ attempt' = attempt
        /\ streamOn' = streamOn /\ logOn' = logOn
        /\ \/ pc'[s] = "settle" /\ todo'[s] = <<>> /\ result'[s] = "session_io"
           \/ pc'[s] = "turn" /\ todo'[s] = <<NewRow("session.started", 0)>>
    BY <1>5 DEF Started, Leave, Say, At, TypeOK, loop, outputs
  <2>2. Quiet(todo'[s], turn[s])
    BY <1>0, <1>a, <2>1
  <2> QED BY <2>1, <2>2 DEF Moves, Setup, Exits
<1>6. CASE Finish(s)
  <2>1. /\ pc[s] = "settle" /\ pc'[s] = "finish" /\ turn' = turn /\ attempt' = attempt
        /\ streamOn' = streamOn /\ logOn' = logOn /\ result'[s] = OutcomeOf(s)
        /\ todo'[s] = <<[NewRow("session.finished", 0) EXCEPT !.says = OutcomeOf(s)]>>
    BY <1>6 DEF Finish, Say, At, TypeOK, loop, outputs
  <2>2. OutcomeOf(s) \in Outcome
    BY DEF OutcomeOf, TypeOK, Outcome
  <2>3. PICK r, says : says = OutcomeOf(s) /\ r = [NewRow("session.finished", 0) EXCEPT !.says = says]
    OBVIOUS
  <2>4. r.kind = "session.finished" /\ r.turn = 0 /\ r.says = says
    BY <2>3 DEF NewRow
  <2>5. r \in Row
    <3>1. NewRow("session.finished", 0) \in Row
      BY NewRowType, KindTypes
    <3> QED BY <2>2, <2>3, <3>1, RowExceptType
  <2>6. result'[s] = result[s] \/ result'[s] \notin Exits
    BY <2>1 DEF OutcomeOf, Exits
  <2>7. Finishes(s)
    BY <2>1, <2>3, <2>4, <2>5, <2>6 DEF Finishes, SameOutputs, SameTurn
  <2> QED BY <2>7 DEF Moves
<1> QED BY <1>1, <1>2, <1>3, <1>4, <1>5, <1>6 DEF Run

LEMMA MoveTurn ==
  ASSUME TypeOK, NEW s \in Sessions, Loop(s) \/ Interrupt(s)
  PROVE  Moves(s)
<1>0. /\ turn[s] \in Nat /\ attempt[s] \in Nat /\ Quiet(<<>>, turn[s])
      /\ \A kind \in Kind \ Told : Quiet(<<NewRow(kind, turn[s])>>, turn[s])
  BY QuietRows DEF TypeOK
<1>a. /\ {"model.replied", "call.started", "call.finished", "answer.verified",
          "tool.failed"} \subseteq Kind \ Told
      /\ {"turn.started", "context.truncated", "model.retry", "model.delta", "turn"} \subseteq Kind
  BY KindTypes DEF Told, Kind, Event, Stored
<1>b. /\ \A kind, n : NewRow(kind, n).kind = kind /\ NewRow(kind, n).turn = n /\ NewRow(kind, n).says = ""
      /\ "" \notin Exits /\ "synthesis" \notin Exits
  BY DEF NewRow, Exits
<1>1. CASE OutOfTime(s) \/ Interrupt(s) \/ ModelFails(s)
  <2>1. /\ pc[s] \in {"turn", "model", "tool"} /\ pc'[s] = "settle" /\ turn' = turn /\ attempt' = attempt
        /\ streamOn' = streamOn /\ logOn' = logOn /\ result'[s] \in {"cut_short", "interrupted"}
        /\ todo'[s] = <<>> \/ todo'[s] = Traced(s)
    BY <1>1 DEF OutOfTime, Interrupt, ModelFails, Leave, Say, At, TypeOK, loop, outputs
  <2>2. Quiet(todo'[s], turn[s])
    BY <1>0, <2>1, TracedQuiet
  <2>3. Abandons(s)
    BY <2>1, <2>2 DEF Abandons, OpenTurn, SameOutputs, SameTurn, Exits
  <2> QED BY <2>3 DEF Moves
<1>2. CASE StartTurn(s)
  <2>1. PICK rest \in {<<>>, <<NewRow("context.truncated", turn[s] + 1)>>} :
          Say(s, <<NewRow("turn.started", turn[s] + 1)>> \o rest, "model")
    BY <1>2 DEF StartTurn
  <2>2. /\ pc[s] = "turn" /\ pc'[s] = "model" /\ turn'[s] = turn[s] + 1 /\ result' = result
        /\ streamOn' = streamOn /\ logOn' = logOn
        /\ todo'[s] = <<NewRow("turn.started", turn[s] + 1)>> \o rest
    BY <1>2, <2>1 DEF StartTurn, Say, At, TypeOK, outputs
  <2>3. PICK a, b : a = NewRow("turn.started", turn[s] + 1) /\ b = NewRow("context.truncated", turn[s] + 1)
    OBVIOUS
  <2>5. /\ a.kind = "turn.started" /\ a.turn = turn[s] + 1 /\ a.says = ""
        /\ b.kind = "context.truncated" /\ b.turn = turn[s] + 1 /\ b.says = ""
    BY <1>b, <2>3
  <2>6. \A i \in DOMAIN todo'[s] : todo'[s][i] \in {a, b}
    <3>1. <<a>> \in Seq({a, b}) /\ rest \in Seq({a, b})
      BY <2>1, <2>3, QueueTypes
    <3>2. <<a>> \o rest \in Seq({a, b})
      BY <3>1, QueueTypes
    <3> QED BY <2>2, <2>3, <3>2
  <2>7. Starts(s)
    BY <2>2, <2>5, <2>6 DEF Starts, SameOutputs
  <2> QED BY <2>7 DEF Moves
<1>3. CASE Fragment(s) \/ Retry(s)
  <2>a. PICK kind \in {"model.delta", "model.retry"} :
          \/ kind = "model.delta" /\ Fragment(s)
          \/ kind = "model.retry" /\ Retry(s)
    BY <1>3
  <2>b. PICK r : r = [NewRow(kind, turn[s]) EXCEPT !.attempt = attempt[s]]
    OBVIOUS
  <2>1. /\ r = [NewRow(kind, turn[s]) EXCEPT !.attempt = attempt[s]]
        /\ \/ kind = "model.delta" /\ Fragment(s)
           \/ kind = "model.retry" /\ Retry(s)
    BY <2>a, <2>b
  <2>2. r.kind = kind /\ r.turn = turn[s] /\ r.says = "" /\ r.attempt = attempt[s]
    BY <2>1 DEF NewRow
  <2>3. r \in Row
    <3>1. NewRow(kind, turn[s]) \in Row
      BY <1>0, <1>a, NewRowType
    <3> QED BY <1>0, <2>1, <3>1, RowExceptType
  <2>4. /\ pc[s] = "model" /\ pc'[s] = "model" /\ turn' = turn /\ result' = result
        /\ streamOn' = streamOn /\ logOn' = logOn /\ todo'[s] = <<r>>
        /\ \/ /\ kind = "model.delta" /\ attempt' = attempt /\ mode[s].events = "tokens"
           \/ kind = "model.retry" /\ attempt'[s] = attempt[s] + 1
    BY <2>1 DEF Fragment, Retry, Say, At, TypeOK, outputs
  <2>5. CASE kind = "model.delta"
    <3>1. InTurn(s)
      BY <2>2, <2>3, <2>4, <2>5 DEF InTurn, OpenTurn, SameOutputs, SameTurn
    <3> QED BY <3>1 DEF Moves
  <2>6. CASE kind = "model.retry"
    <3>1. Retries(s)
      BY <2>2, <2>3, <2>4, <2>6 DEF Retries, SameOutputs
    <3> QED BY <3>1 DEF Moves
  <2> QED BY <2>5, <2>6
<1>4. CASE ModelReplies(s)
  <2>1. /\ pc[s] = "model" /\ pc'[s] = "reply" /\ turn' = turn /\ attempt' = attempt /\ result' = result
        /\ streamOn' = streamOn /\ logOn' = logOn
        /\ todo'[s] = Traced(s) \o <<NewRow("model.replied", turn[s])>>
    BY <1>4 DEF ModelReplies, Say, At, TypeOK, loop, outputs
  <2>2. <<NewRow("model.replied", turn[s])>> \in Seq(Row) /\ Traced(s) \in Seq(Row)
    BY <1>0, <1>a, NewRowType, TurnRowType
  <2>3. Quiet(todo'[s], turn[s])
    BY <1>0, <1>a, <2>1, <2>2, TracedQuiet, QuietJoin
  <2>4. InTurn(s)
    BY <2>1, <2>3 DEF InTurn, OpenTurn, SameOutputs, SameTurn
  <2> QED BY <2>4 DEF Moves
<1>5. CASE ToolCalls(s) \/ StartTool(s) \/ ToolEnds(s) \/ Disallowed(s)
  <2>1. /\ pc[s] \in {"reply", "dispatch", "tool"} /\ pc'[s] \in {"dispatch", "tool"}
        /\ turn' = turn /\ attempt' = attempt /\ result' = result
        /\ streamOn' = streamOn /\ logOn' = logOn
        /\ \/ todo'[s] = <<>>
           \/ \E kind \in {"call.started", "call.finished"} : todo'[s] = <<NewRow(kind, turn[s])>>
    BY <1>5 DEF ToolCalls, StartTool, ToolEnds, Disallowed, Say, At, Idle, TypeOK, outputs
  <2>2. Quiet(todo'[s], turn[s])
    BY <1>0, <1>a, <2>1
  <2>3. InTurn(s)
    BY <2>1, <2>2 DEF InTurn, OpenTurn, SameOutputs, SameTurn
  <2> QED BY <2>3 DEF Moves
<1>6. CASE Answer(s) \/ NoAnswer(s)
  <2>1. PICK kind, says, a, b :
          /\ kind \in {"answer.verified", "tool.failed"} /\ says \in {"", "synthesis"}
          /\ a = NewRow(kind, turn[s]) /\ b = TurnRow(s, says)
          /\ \/ kind = "answer.verified" /\ says = "synthesis" /\ Answer(s)
             \/ kind = "tool.failed" /\ says = "" /\ NoAnswer(s)
    BY <1>6
  <2>2. /\ pc[s] = "reply" /\ turn' = turn /\ attempt' = attempt
        /\ streamOn' = streamOn /\ logOn' = logOn /\ todo'[s] = <<a, b>>
        /\ \/ pc'[s] = "turn" /\ result' = result
           \/ pc'[s] = "settle" /\ result'[s] = "gave_up"
           \/ pc'[s] = "settle" /\ result'[s] \in Answered /\ says = "synthesis"
    BY <2>1 DEF Answer, NoAnswer, Leave, Say, At, TypeOK, Answered, loop, outputs
  <2>3. /\ a.kind \notin Told /\ a.turn = turn[s] /\ a.says \notin Exits
        /\ b.kind = "turn" /\ b.turn = turn[s] /\ b.says = says /\ says \notin Exits
    <3>1. a.kind = kind /\ a.turn = turn[s] /\ a.says = ""
      BY <2>1 DEF NewRow
    <3>2. b.kind = "turn" /\ b.turn = turn[s] /\ b.says = says
      BY <2>1 DEF NewRow, TurnRow
    <3> QED BY <1>a, <1>b, <2>1, <3>1, <3>2
  <2>4. DOMAIN todo'[s] = {1, 2} /\ todo'[s][1] = a /\ todo'[s][2] = b
    BY <2>2
  <2>5. \A i \in DOMAIN todo'[s] \ {2} : todo'[s][i] = a
    BY <2>4
  <2>6. Closes(s)
    BY <1>0, <2>2, <2>3, <2>4, <2>5 DEF Closes, OpenTurn, SameOutputs, SameTurn, Exits, Answered
  <2> QED BY <2>6 DEF Moves
<1>7. CASE SettleTurn(s)
  <2> DEFINE row == NewRow("tool.failed", turn[s])
             reported == [i \in 1..failed[s] |-> row]
  <2>a. /\ row.kind = "tool.failed" /\ row.turn = turn[s] /\ row.says = ""
        /\ row \in Row /\ failed[s] \in Nat
    BY <1>0, <1>a, NewRowType DEF NewRow, TypeOK
  <2>b. \/ Say(s, reported \o <<TurnRow(s, "")>> \o Traced(s), "turn") /\ UNCHANGED result
        \/ Leave(s, reported \o <<TurnRow(s, "")>> \o Traced(s), "gave_up")
    BY <1>7 DEF SettleTurn
  <2> HIDE DEF row
  <2>c. \A i \in DOMAIN reported : reported[i] = row
    OBVIOUS
  <2>d. reported \in Seq(Row)
    BY <2>a, QueueTypes
  <2> HIDE DEF reported
  <2>1. PICK failures, t, traced, rows :
          /\ failures = reported /\ t = TurnRow(s, "") /\ traced = Traced(s)
          /\ rows = failures \o <<t>> \o traced
    OBVIOUS
  <2>5. failures \in Seq(Row) /\ \A i \in DOMAIN failures : failures[i] = row
    BY <2>1, <2>c, <2>d
  <2>2. /\ pc[s] = "dispatch" /\ turn' = turn /\ attempt' = attempt
        /\ streamOn' = streamOn /\ logOn' = logOn
    BY <1>7 DEF SettleTurn, At, loop, outputs
  <2>3. t.kind = "turn" /\ t.turn = turn[s] /\ t.says = ""
    BY <2>1 DEF NewRow, TurnRow
  <2>4. t \in Row /\ traced \in Seq(Row)
    BY <2>1, TurnRowType
  <2>6. PICK k : /\ k \in DOMAIN rows /\ rows[k] = t
                 /\ \A i \in DOMAIN rows : i # k =>
                      \/ i \in DOMAIN failures /\ rows[i] = failures[i]
                      \/ i - k \in DOMAIN traced /\ rows[i] = traced[i - k]
    <3>1. /\ Len(failures) + 1 \in DOMAIN rows /\ rows[Len(failures) + 1] = t
          /\ \A i \in DOMAIN rows : i # Len(failures) + 1 =>
               \/ i \in DOMAIN failures /\ rows[i] = failures[i]
               \/ /\ i - (Len(failures) + 1) \in DOMAIN traced
                  /\ rows[i] = traced[i - (Len(failures) + 1)]
      <4>1. rows = failures \o <<t>> \o traced
        BY <2>1
      <4>2. failures \in Seq(Row) /\ t \in Row /\ traced \in Seq(Row)
        BY <2>4, <2>5
      <4> HIDE <2>1, <2>4, <2>5
      <4> QED BY <4>1, <4>2, AroundRow, SMTT(60)
    <3> QED BY <3>1
  <2>7. \A i \in DOMAIN rows \ {k} :
          rows[i].kind \notin Told /\ rows[i].turn <= turn[s] /\ rows[i].says \notin Exits
    <3> SUFFICES ASSUME NEW i \in DOMAIN rows \ {k}
                 PROVE  rows[i].kind \notin Told /\ rows[i].turn <= turn[s] /\ rows[i].says \notin Exits
      OBVIOUS
    <3>1. CASE rows[i] = row
      <4>1. "tool.failed" \notin Told /\ "" \notin Exits
        BY DEF Told, Exits
      <4>2. turn[s] <= turn[s]
        BY <1>0
      <4> QED BY <2>a, <3>1, <4>1, <4>2
    <3>2. CASE i - k \in DOMAIN traced /\ rows[i] = traced[i - k]
      <4>1. Quiet(traced, turn[s])
        BY <2>1, TracedQuiet
      <4> QED BY <3>2, <4>1 DEF Quiet
    <3> QED BY <2>5, <2>6, <3>1, <3>2
  <2>8. /\ todo'[s] = rows
        /\ \/ pc'[s] = "turn" /\ result' = result
           \/ pc'[s] = "settle" /\ result'[s] = "gave_up"
    BY <2>b, <2>1 DEF Leave, Say, TypeOK
  <2>9. Closes(s)
    BY <1>b, <2>2, <2>3, <2>6, <2>7, <2>8
       DEF Closes, OpenTurn, SameOutputs, SameTurn, Exits, Answered
  <2> QED BY <2>9 DEF Moves
<1> QED BY <1>1, <1>2, <1>3, <1>4, <1>5, <1>6, <1>7 DEF Loop

(* What a Session queues keeps the invariant of what it wrote.             *)
LEMMA MovesKeepQueue ==
  ASSUME TypeOK, TypeOK', NEW s \in Sessions, RowsOf(s), Local(s), Moves(s)
  PROVE  QueueOf(s)'
<1>0. /\ QueueOf(s) /\ half'[s] = half[s] /\ todo[s] = <<>> /\ stream'[s] = stream[s]
      /\ file'[s] = file[s] /\ seq'[s] = seq[s] /\ mode'[s] = mode[s]
      /\ turn[s] \in Nat /\ attempt[s] \in Nat
  BY DEF RowsOf, Local, TypeOK
<1>1. ~half[s] /\ ~half'[s]
  BY <1>0 DEF QueueOf
<1>2. \A r : DOMAIN <<r>> = {1} /\ <<r>>[1] = r
  OBVIOUS
<1>c. "" \notin Exits /\ turn[s] <= turn[s]
  BY <1>0 DEF Exits
<1>3. ASSUME Quiet(todo'[s], turn'[s])
      PROVE  \A i \in DOMAIN todo'[s] : /\ todo'[s][i].turn <= turn'[s] /\ todo'[s][i].says \notin Exits
                                        /\ todo'[s][i].kind \notin Told
  BY <1>3 DEF Quiet
<1>4. ASSUME Quiet(todo'[s], turn'[s]), pc'[s] \notin Before \cup {"attach", "prune", "done", "finish"}
      PROVE  QueueOf(s)'
  BY <1>1, <1>3, <1>4 DEF QueueOf, Timely, Told, Before
<1>5. CASE Setup(s)
  <2>1. Quiet(todo'[s], turn'[s]) /\ turn'[s] = turn[s] /\ turn[s] = 0
    BY <1>0, <1>5 DEF Setup, QueueOf
  <2>2. CASE pc'[s] \in {"turn", "settle"}
    BY <1>4, <2>1, <2>2 DEF Before
  <2>3. CASE pc'[s] = "attach"
    BY <1>1, <1>3, <2>1, <2>3 DEF QueueOf, Timely, Told, Before
  <2>4. CASE pc'[s] \in {"check", "done"}
    <3>1. todo'[s] = <<>> /\ pc[s] = "open" /\ logOn'[s] = logOn[s] /\ DOMAIN <<>> = {}
      BY <1>5, <2>4 DEF Setup
    <3> QED BY <1>0, <1>1, <2>1, <2>4, <3>1 DEF QueueOf, Before
  <2> QED BY <1>5, <2>2, <2>3, <2>4 DEF Setup
<1>6. CASE InTurn(s)
  <2>1. pc'[s] \in OpenTurn
    BY <1>6 DEF InTurn
  <2>2. CASE Quiet(todo'[s], turn'[s])
    BY <1>4, <2>1, <2>2 DEF OpenTurn, Before
  <2>3. CASE ~Quiet(todo'[s], turn'[s])
    <3>1. PICK r \in Row : /\ todo'[s] = <<r>> /\ r.kind = "model.delta" /\ r.turn = turn[s]
                           /\ r.attempt = attempt[s] /\ r.says = "" /\ mode[s].events = "tokens"
      BY <1>6, <2>3 DEF InTurn
    <3>2. DOMAIN todo'[s] = {1} /\ todo'[s][1] = r
      BY <1>2, <3>1
    <3>3. /\ turn'[s] = turn[s] /\ attempt'[s] = attempt[s]
          /\ pc'[s] \notin Before \cup {"attach", "prune", "done", "finish"}
      BY <1>6 DEF InTurn, SameTurn, OpenTurn, Before
    <3>4. /\ r.turn <= turn'[s] /\ r.says \notin Exits
      BY <1>c, <3>1, <3>3
    <3> QED BY <1>0, <1>1, <3>1, <3>2, <3>3, <3>4 DEF QueueOf, Timely, Before
  <2> QED BY <2>2, <2>3
<1>7. CASE Retries(s)
  <2>1. PICK r \in Row : /\ todo'[s] = <<r>> /\ r.kind = "model.retry" /\ r.turn = turn[s]
                         /\ r.attempt = attempt[s] /\ r.says = ""
    BY <1>7 DEF Retries
  <2>2. DOMAIN todo'[s] = {1} /\ todo'[s][1] = r
    BY <1>2, <2>1
  <2>3. /\ turn'[s] = turn[s] /\ attempt'[s] = attempt[s] + 1
        /\ pc'[s] \notin Before \cup {"attach", "prune", "done", "finish"}
    BY <1>7 DEF Retries, Before
  <2>4. r.turn <= turn'[s] /\ r.says \notin Exits
    BY <1>c, <2>1, <2>3
  <2> QED BY <1>0, <1>1, <2>1, <2>2, <2>3, <2>4 DEF QueueOf, Timely, Before
<1>8. CASE Starts(s)
  <2>1. /\ turn'[s] = turn[s] + 1 /\ pc'[s] = "model"
        /\ pc'[s] \notin Before \cup {"attach", "prune", "done", "finish"}
    BY <1>8 DEF Starts, Before
  <2>2. \A i \in DOMAIN todo'[s] : /\ todo'[s][i].kind \in {"turn.started", "context.truncated"}
                                   /\ todo'[s][i].turn = turn'[s] /\ todo'[s][i].says \notin Exits
    BY <1>8 DEF Starts, Exits
  <2>3. turn'[s] <= turn'[s]
    BY <1>0, <2>1
  <2> QED BY <1>1, <2>1, <2>2, <2>3 DEF QueueOf, Timely, Before
<1>9. CASE Abandons(s)
  BY <1>4, <1>9 DEF Abandons, Before
<1>10. CASE Closes(s)
  <2>1. PICK k \in DOMAIN todo'[s] :
       /\ todo'[s][k].kind = "turn" /\ todo'[s][k].turn = turn[s]
       /\ todo'[s][k].says \notin Exits
       /\ \A i \in DOMAIN todo'[s] \ {k} :
            todo'[s][i].kind \notin Told /\ todo'[s][i].turn <= turn[s] /\ todo'[s][i].says \notin Exits
       /\ \/ pc'[s] = "turn" /\ result'[s] = result[s]
          \/ /\ pc'[s] = "settle" /\ result'[s] \in Exits
             /\ result'[s] \in Answered => todo'[s][k].says = "synthesis"
    BY <1>10 DEF Closes
  <2>2. \A i \in DOMAIN todo'[s] : i = k \/ i \in DOMAIN todo'[s] \ {k}
    OBVIOUS
  <2>3. turn'[s] = turn[s]
    BY <1>10 DEF Closes, SameTurn
  <2> QED BY <1>0, <1>1, <2>1, <2>2, <2>3 DEF QueueOf, Timely, Told, Before
<1>11. CASE Finishes(s)
  <2>1. PICK r \in Row : /\ todo'[s] = <<r>> /\ r.kind = "session.finished" /\ r.turn = 0
                         /\ r.says = result'[s]
    BY <1>11 DEF Finishes
  <2>2. DOMAIN todo'[s] = {1} /\ todo'[s][1] = r
    BY <1>2, <2>1
  <2> QED BY <1>0, <1>1, <1>11, <2>1, <2>2 DEF QueueOf, Timely, Finishes, SameTurn, Exits, Before
<1> QED BY <1>5, <1>6, <1>7, <1>8, <1>9, <1>10, <1>11 DEF Moves

LEMMA MovesKeepFragments ==
  ASSUME TypeOK, TypeOK', NEW s \in Sessions, RowsOf(s), Local(s), Moves(s)
  PROVE  FragmentsOf(s)' /\ AttributedOf(s)'
<1>0. /\ FragmentsOf(s) /\ AttributedOf(s) /\ stream'[s] = stream[s] /\ stream[s] \in Seq(Row)
      /\ turn[s] \in Nat /\ attempt[s] \in Nat
  BY DEF RowsOf, Local, TypeOK
<1>1. AttributedOf(s)'
  BY <1>0 DEF AttributedOf
<1>2. \A i \in DOMAIN stream[s] : stream[s][i].turn \in Nat /\ stream[s][i].attempt \in Nat
  <2>1. \A i \in DOMAIN stream[s] : stream[s][i] \in Row
    BY <1>0
  <2> QED BY <2>1 DEF Row
<1>3. CASE SameTurn(s) /\ ~Retrying(s)'
  BY <1>0, <1>1, <1>3 DEF FragmentsOf, SameTurn
<1>4. CASE turn'[s] = turn[s] /\ attempt'[s] = attempt[s] + 1
  BY <1>0, <1>1, <1>2, <1>4 DEF FragmentsOf
<1>5. CASE turn'[s] = turn[s] + 1
  BY <1>0, <1>1, <1>2, <1>5 DEF FragmentsOf
<1>6. ASSUME Quiet(todo'[s], turn'[s]) PROVE ~Retrying(s)'
  BY <1>6 DEF Quiet, Retrying, Told
<1>7. CASE Setup(s) \/ Abandons(s)
  BY <1>3, <1>6, <1>7 DEF Setup, Abandons, SameTurn
<1>8. CASE InTurn(s)
  <2>1. CASE ~Quiet(todo'[s], turn'[s])
    <3>1. PICK r \in Row : todo'[s] = <<r>> /\ r.kind = "model.delta"
      BY <1>8, <2>1 DEF InTurn
    <3>2. ~Retrying(s)'
      BY <3>1 DEF Retrying
    <3> QED BY <1>3, <1>8, <3>2 DEF InTurn
  <2> QED BY <1>3, <1>6, <1>8, <2>1 DEF InTurn
<1>9. CASE Retries(s)
  BY <1>4, <1>9 DEF Retries
<1>10. CASE Starts(s)
  BY <1>5, <1>10 DEF Starts
<1>11. CASE Closes(s)
  <2>1. ~Retrying(s)'
    BY <1>11 DEF Closes, Retrying, Told
  <2> QED BY <1>3, <1>11, <2>1 DEF Closes
<1>12. CASE Finishes(s)
  <2>1. PICK r \in Row : todo'[s] = <<r>> /\ r.kind = "session.finished"
    BY <1>12 DEF Finishes
  <2>2. ~Retrying(s)'
    BY <2>1 DEF Retrying
  <2> QED BY <1>3, <1>12, <2>2 DEF Finishes
<1> QED BY <1>7, <1>8, <1>9, <1>10, <1>11, <1>12 DEF Moves

LEMMA MovesKeepClosed ==
  ASSUME TypeOK, TypeOK', NEW s \in Sessions, RowsOf(s), Local(s), Moves(s)
  PROVE  ClosedOf(s)'
<1>0. /\ ClosedOf(s) /\ QueueOf(s) /\ stream'[s] = stream[s] /\ file'[s] = file[s]
      /\ half'[s] = half[s] /\ todo[s] = <<>> /\ pruned'[s] = pruned[s]
  BY DEF RowsOf, Local
<1>1. ~half[s] /\ ~half'[s]
  BY <1>0 DEF QueueOf
<1>2. Final(stream[s])' = Final(stream[s]) /\ Final(file[s])' = Final(file[s])
  BY <1>0 DEF Final
<1>3. pc[s] \notin Over
  BY DEF Moves, Setup, InTurn, Retries, Starts, Abandons, Closes, Finishes, OpenTurn, Over, Before
<1>4. Final(stream[s]) = {} /\ Final(file[s]) = {}
  BY <1>0, <1>3 DEF ClosedOf
<1>5. CASE pc'[s] \notin Over
  BY <1>2, <1>4, <1>5 DEF ClosedOf
<1>6. CASE pc'[s] \in Over /\ Finishes(s)
  <2>1. todo'[s] # <<>>
    BY <1>6 DEF Finishes
  <2> QED BY <1>1, <1>2, <1>4, <2>1 DEF ClosedOf
<1>7. CASE pc'[s] \in Over /\ Setup(s)
  <2>1. ~streamOn'[s] /\ ~logOn'[s]
    BY <1>0, <1>7 DEF Setup, QueueOf, Over, Before
  <2> QED BY <1>2, <1>4, <2>1 DEF ClosedOf
<1> QED BY <1>5, <1>6, <1>7 DEF Moves, InTurn, Retries, Starts, Abandons, Closes, OpenTurn, Over

LEMMA MovesKeepTurns ==
  ASSUME TypeOK, TypeOK', NEW s \in Sessions, RowsOf(s), Local(s), Moves(s)
  PROVE  TurnsOf(s)'
<1>0. /\ TurnsOf(s) /\ QueueOf(s) /\ file'[s] = file[s] /\ pruned'[s] = pruned[s]
      /\ todo[s] = <<>> /\ turn[s] \in Nat /\ file[s] \in Seq(Row)
  BY DEF RowsOf, Local, TypeOK
<1> SUFFICES ASSUME ~pruned[s]
             PROVE  TurnsOf(s)'
  BY <1>0 DEF TurnsOf
<1>1. \A n : TurnRows(s, n)' = TurnRows(s, n)
  BY <1>0 DEF TurnRows
<1>2. ~QueuedTurn(s)
  BY <1>0 DEF QueuedTurn
<1>3. \A i \in DOMAIN file[s] : file[s][i].turn \in Nat
  <2>1. \A i \in DOMAIN file[s] : file[s][i] \in Row
    BY <1>0
  <2> QED BY <2>1 DEF Row
<1>4. pc[s] \notin Over
  BY DEF Moves, Setup, InTurn, Retries, Starts, Abandons, Closes, Finishes, OpenTurn, Over, Before
<1>5. \A j \in DOMAIN file[s] :
        /\ file[s][j].kind = "turn.started" =>
             \A n \in 1..file[s][j].turn - 1 : \E i \in TurnRows(s, n) : i < j
        /\ file[s][j].says \notin Exits
        /\ file[s][j].turn <= turn[s]
  BY <1>0, <1>4 DEF TurnsOf
<1>6. /\ \A n \in Nat : \A i, j \in TurnRows(s, n) : i = j
      /\ logOn[s] => \A n \in 1..turn[s] - 1 : TurnRows(s, n) # {}
      /\ logOn[s] /\ LeftTurn(s) => TurnRows(s, turn[s]) # {}
      /\ pc[s] \in OpenTurn => TurnRows(s, turn[s]) = {}
  BY <1>0, <1>2 DEF TurnsOf
<1>7. ASSUME Quiet(todo'[s], turn'[s]) PROVE ~QueuedTurn(s)'
  BY <1>7 DEF Quiet, QueuedTurn, Told
<1>8. CASE Setup(s)
  <2>1. turn[s] = 0 /\ turn'[s] = 0 /\ Quiet(todo'[s], turn'[s])
    BY <1>0, <1>8 DEF Setup, QueueOf
  <2>2. ~QueuedTurn(s)' /\ ~LeftTurn(s)'
    BY <1>7, <1>8, <2>1 DEF Setup, LeftTurn
  <2>3. pc'[s] \notin OpenTurn /\ (pc'[s] \in {"settle"} \cup Over => result'[s] \notin Answered)
    BY <1>8 DEF Setup, OpenTurn, Over, Answered, Exits
  <2> QED BY <1>0, <1>1, <1>5, <1>6, <2>1, <2>2, <2>3 DEF TurnsOf
<1>9. CASE InTurn(s) \/ Retries(s)
  <2>1. pc[s] \in OpenTurn /\ pc'[s] \in OpenTurn /\ turn'[s] = turn[s] /\ logOn'[s] = logOn[s]
    BY <1>9 DEF InTurn, Retries, SameTurn, SameOutputs, OpenTurn
  <2>2. ~LeftTurn(s)' /\ pc'[s] \notin {"settle"} \cup Over
    BY <2>1 DEF LeftTurn, OpenTurn, Over
  <2>3. ~QueuedTurn(s)'
    <3>1. Quiet(todo'[s], turn'[s]) \/ \E r \in Row : todo'[s] = <<r>> /\ r.kind # "turn"
      BY <1>9 DEF InTurn, Retries
    <3>2. CASE \E r \in Row : todo'[s] = <<r>> /\ r.kind # "turn"
      BY <3>2 DEF QueuedTurn
    <3> QED BY <1>7, <3>1, <3>2
  <2> QED BY <1>0, <1>1, <1>5, <1>6, <2>1, <2>2, <2>3 DEF TurnsOf
<1>10. CASE Starts(s)
  <2>1. /\ pc[s] = "turn" /\ pc'[s] \in OpenTurn /\ turn'[s] = turn[s] + 1 /\ logOn'[s] = logOn[s]
        /\ ~LeftTurn(s)' /\ pc'[s] \notin {"settle"} \cup Over
    BY <1>10 DEF Starts, SameOutputs, OpenTurn, LeftTurn, Over
  <2>2. ~QueuedTurn(s)'
    BY <1>10 DEF Starts, QueuedTurn
  <2>3. TurnRows(s, turn[s] + 1) = {}
    BY <1>0, <1>5 DEF TurnRows
  <2>4. logOn[s] => \A n \in 1..turn[s] : TurnRows(s, n) # {}
    <3> SUFFICES ASSUME logOn[s], NEW n \in 1..turn[s] PROVE TurnRows(s, n) # {}
      OBVIOUS
    <3>1. n \in 1..turn[s] - 1 \/ n = turn[s]
      BY <1>0
    <3>2. turn[s] > 0 => LeftTurn(s)
      BY <2>1 DEF LeftTurn
    <3>3. turn[s] > 0
      BY <1>0
    <3> QED BY <1>6, <3>1, <3>2, <3>3
  <2>5. turn'[s] - 1 = turn[s] /\ \A i \in DOMAIN file[s] : file[s][i].turn <= turn'[s]
    <3>1. turn'[s] - 1 = turn[s]
      BY <1>0, <2>1
    <3>2. ASSUME NEW i \in DOMAIN file[s] PROVE file[s][i].turn <= turn'[s]
      <4>1. file[s][i].turn \in Nat /\ file[s][i].turn <= turn[s]
        BY <1>3, <1>5
      <4> QED BY <1>0, <2>1, <4>1
    <3> QED BY <3>1, <3>2
  <2> QED BY <1>0, <1>1, <1>5, <1>6, <2>1, <2>2, <2>3, <2>4, <2>5 DEF TurnsOf
<1>11. CASE Abandons(s)
  <2>1. /\ pc'[s] = "settle" /\ turn'[s] = turn[s] /\ logOn'[s] = logOn[s]
        /\ result'[s] \notin Exits /\ result'[s] \notin Answered /\ ~LeftTurn(s)' /\ ~QueuedTurn(s)'
    BY <1>7, <1>11 DEF Abandons, SameTurn, SameOutputs, LeftTurn, Exits, Answered
  <2> QED BY <1>0, <1>1, <1>5, <1>6, <2>1 DEF TurnsOf, OpenTurn
<1>12. CASE Closes(s)
  <2>1. /\ pc[s] \in OpenTurn /\ pc'[s] \in {"turn", "settle"} /\ turn'[s] = turn[s]
        /\ logOn'[s] = logOn[s] /\ QueuedTurn(s)'
    BY <1>12 DEF Closes, SameTurn, SameOutputs, QueuedTurn
  <2>2. TurnRows(s, turn[s]) = {}
    BY <1>6, <2>1
  <2> QED BY <1>0, <1>1, <1>5, <1>6, <2>1, <2>2 DEF TurnsOf
<1>13. CASE Finishes(s)
  <2>1. /\ pc[s] = "settle" /\ pc'[s] = "finish" /\ turn'[s] = turn[s] /\ logOn'[s] = logOn[s]
        /\ result'[s] = result[s] \/ result'[s] \notin Exits
    BY <1>13 DEF Finishes, SameTurn, SameOutputs
  <2>2. ~QueuedTurn(s)'
    <3>1. PICK r \in Row : todo'[s] = <<r>> /\ r.kind = "session.finished"
      BY <1>13 DEF Finishes
    <3> QED BY <3>1 DEF QueuedTurn
  <2>3. LeftTurn(s)' => LeftTurn(s)
    BY <2>1 DEF LeftTurn
  <2>4. result'[s] \in Answered => \A i \in TurnRows(s, turn[s]) : file[s][i].says = "synthesis"
    BY <1>0, <2>1 DEF TurnsOf, Answered, Exits
  <2> QED BY <1>0, <1>1, <1>5, <1>6, <2>1, <2>2, <2>3, <2>4 DEF TurnsOf, OpenTurn
<1> QED BY <1>8, <1>9, <1>10, <1>11, <1>12, <1>13 DEF Moves

LEMMA MovesKeepStory ==
  ASSUME TypeOK, TypeOK', NEW s \in Sessions, RowsOf(s), Local(s), Moves(s)
  PROVE  StoryOf(s)' /\ SetsOf(s)' /\ NumbersOf(s)'
<1>0. /\ StoryOf(s) /\ SetsOf(s) /\ NumbersOf(s) /\ QueueOf(s)
      /\ stream'[s] = stream[s] /\ file'[s] = file[s] /\ pruned'[s] = pruned[s]
      /\ half'[s] = half[s] /\ todo[s] = <<>> /\ seq'[s] = seq[s] /\ mode'[s] = mode[s]
  BY DEF RowsOf, Local
<1>1. ~half[s] /\ ~half'[s] /\ Pending(s) = {} /\ Pending(s)' = {}
  BY <1>0 DEF QueueOf, Pending
<1>2. Events(file[s])' = Events(file[s]) /\ Events(stream[s])' = Events(stream[s])
  BY <1>0 DEF Events
<1>3. CASE SameOutputs(s)
  BY <1>0, <1>1, <1>2, <1>3 DEF StoryOf, SetsOf, NumbersOf, SameOutputs
<1>4. CASE ~SameOutputs(s)
  <2>1. Setup(s) /\ pc[s] \in Before
    BY <1>4 DEF Moves, Setup, InTurn, Retries, Starts, Abandons, Closes, Finishes, SameOutputs, Before
  <2>2. stream[s] = <<>> /\ file[s] = <<>> /\ seq[s] = 0
    BY <1>0, <2>1 DEF QueueOf
  <2>3. DOMAIN <<>> = {} /\ Len(<<>>) = 0
    OBVIOUS
  <2>4. Events(file[s]) = {} /\ Events(stream[s]) = {}
    BY <2>2, <2>3 DEF Events
  <2>5. StoryOf(s)'
    BY <1>0, <2>2, <2>3 DEF StoryOf
  <2>6. SetsOf(s)'
    BY <1>1, <1>2, <2>4 DEF SetsOf, Begins
  <2>7. NumbersOf(s)'
    BY <1>0, <1>1, <1>2, <2>2, <2>4 DEF NumbersOf, Closing
  <2> QED BY <2>5, <2>6, <2>7
<1> QED BY <1>3, <1>4

LEMMA MovesKeep ==
  ASSUME TypeOK, TypeOK', NEW s \in Sessions, RowsOf(s), Local(s), Moves(s)
  PROVE  RowsOf(s)'
BY MovesKeepQueue, MovesKeepFragments, MovesKeepClosed, MovesKeepTurns, MovesKeepStory DEF RowsOf

(* Writing an Event: numbered, offered to the stream, and then either done *)
(* with or left for the log.                                               *)
Emitted(s, row) ==
  /\ ~half[s] /\ 1 \in DOMAIN todo[s] /\ row \in Row /\ row.kind \in Event
  /\ row.kind = todo[s][1].kind /\ row.turn = todo[s][1].turn
  /\ row.attempt = todo[s][1].attempt /\ row.says = todo[s][1].says
  /\ row.seq = seq[s] + 1 /\ seq'[s] = seq[s] + 1
  /\ \/ /\ row.kind = "model.delta" /\ ~half'[s] /\ todo'[s] = Tail(todo[s])
        /\ \A i \in DOMAIN todo'[s] : i + 1 \in DOMAIN todo[s] /\ todo'[s][i] = todo[s][i + 1]
     \/ /\ row.kind \in Stored /\ half'[s]
        /\ DOMAIN todo'[s] = DOMAIN todo[s] /\ todo'[s] # <<>> /\ todo'[s][1] = row
        /\ \A i \in DOMAIN todo[s] : i # 1 => todo'[s][i] = todo[s][i]
  /\ \/ streamOn[s] /\ streamOn'[s] /\ stream'[s] = Append(stream[s], row)
     \/ ~streamOn'[s] /\ stream'[s] = stream[s]
  /\ mode'[s] = mode[s] /\ pc'[s] = pc[s] /\ turn'[s] = turn[s] /\ attempt'[s] = attempt[s]
  /\ result'[s] = result[s] /\ logOn'[s] = logOn[s] /\ file'[s] = file[s] /\ pruned'[s] = pruned[s]

LEMMA TailRows ==
  ASSUME NEW q \in Seq(Row), q # <<>>
  PROVE  /\ Tail(q) \in Seq(Row) /\ 1 \in DOMAIN q /\ Head(q) = q[1] /\ Len(Tail(q)) = Len(q) - 1
         /\ \A i \in DOMAIN Tail(q) : i + 1 \in DOMAIN q /\ Tail(q)[i] = q[i + 1]
<1>1. /\ Tail(q) \in Seq(Row) /\ Len(Tail(q)) = Len(q) - 1 /\ Len(q) \in Nat \ {0}
      /\ \A i \in 1..Len(Tail(q)) : Tail(q)[i] = q[i + 1]
  BY HeadTailProperties
<1>2. DOMAIN Tail(q) = 1..Len(Tail(q)) /\ DOMAIN q = 1..Len(q)
  BY <1>1
<1>3. Head(q) = q[1]
  OBVIOUS
<1> QED BY <1>1, <1>2, <1>3

LEMMA RowAgain ==
  ASSUME NEW row \in Row, NEW q \in Seq(Row)
  PROVE  /\ DOMAIN (<<row>> \o q) = 1..Len(q) + 1 /\ (<<row>> \o q)[1] = row
         /\ \A i \in 2..Len(q) + 1 : (<<row>> \o q)[i] = q[i - 1]
OBVIOUS

LEMMA EmitStep ==
  ASSUME TypeOK, NEW s \in Sessions, Emit(s)
  PROVE  /\ \E row : Emitted(s, row)
         /\ \A x \in Sessions \ {s} : Same(x)
         /\ \A x \in Sessions : SameLog(x)
<1>1. /\ todo[s] \in Seq(Row) /\ todo[s] # <<>> /\ ~half[s] /\ Head(todo[s]).kind \in Event
      /\ stream[s] \in Seq(Row) /\ seq[s] \in Nat
  BY DEF Emit, Idle, TypeOK
<1>2. PICK head, rest : head = Head(todo[s]) /\ rest = Tail(todo[s])
  OBVIOUS
<1>3. /\ rest \in Seq(Row) /\ 1 \in DOMAIN todo[s] /\ head = todo[s][1] /\ head \in Row
      /\ Len(rest) = Len(todo[s]) - 1 /\ Len(todo[s]) \in Nat /\ Len(rest) \in Nat
      /\ \A i \in DOMAIN rest : i + 1 \in DOMAIN todo[s] /\ rest[i] = todo[s][i + 1]
  <2>1. head \in Row
    BY <1>1, <1>2, QueueHead DEF Idle
  <2> QED BY <1>1, <1>2, <2>1, TailRows
<1>4. PICK n, row : n = seq[s] + 1 /\ row = [head EXCEPT !.seq = n]
  OBVIOUS
<1>5. row \in Row /\ n \in Nat
  <2>1. n \in Nat
    BY <1>1, <1>4
  <2>2. head \in Row
    BY <1>3
  <2>3. [head EXCEPT !.seq = n] \in Row
    BY <2>1, <2>2, RowExceptType
  <2> QED BY <1>4, <2>1, <2>3
<1>6. /\ row.kind = head.kind /\ row.turn = head.turn /\ row.attempt = head.attempt
      /\ row.says = head.says /\ row.seq = n
  BY <1>3, <1>4 DEF Row
<1>7. /\ seq' = [seq EXCEPT ![s] = n]
      /\ \E w \in IF streamOn[s] THEN Writes(s, "stream", stream[s], row) ELSE {<<stream[s], FALSE>>} :
            /\ stream' = [stream EXCEPT ![s] = w[1]]
            /\ streamOn' = [streamOn EXCEPT ![s] = w[2]]
      /\ IF row.kind = "model.delta"
         THEN todo' = [todo EXCEPT ![s] = rest] /\ UNCHANGED half
         ELSE /\ todo' = [todo EXCEPT ![s] = <<row>> \o rest]
              /\ half' = [half EXCEPT ![s] = TRUE]
  BY <1>2, <1>4 DEF Emit, Stamp
<1>8. PICK w \in IF streamOn[s] THEN Writes(s, "stream", stream[s], row) ELSE {<<stream[s], FALSE>>} :
            /\ stream' = [stream EXCEPT ![s] = w[1]]
            /\ streamOn' = [streamOn EXCEPT ![s] = w[2]]
  BY <1>7
<1>9. \/ streamOn[s] /\ streamOn'[s] /\ stream'[s] = Append(stream[s], row)
      \/ ~streamOn'[s] /\ stream'[s] = stream[s]
  <2>1. stream'[s] = w[1] /\ streamOn'[s] = w[2]
    BY <1>8 DEF TypeOK
  <2>2. \/ w = <<Append(stream[s], row), TRUE>> /\ streamOn[s]
        \/ w = <<stream[s], FALSE>>
    BY <1>8 DEF Writes
  <2>3. CASE w = <<Append(stream[s], row), TRUE>> /\ streamOn[s]
    <3>1. w[1] = Append(stream[s], row) /\ w[2] = TRUE
      BY <2>3
    <3> QED BY <2>1, <2>3, <3>1
  <2>4. CASE w = <<stream[s], FALSE>>
    <3>1. w[1] = stream[s] /\ w[2] = FALSE
      BY <2>4
    <3> QED BY <2>1, <3>1
  <2> QED BY <2>2, <2>3, <2>4
<1>10. \/ /\ row.kind = "model.delta" /\ ~half'[s] /\ todo'[s] = rest
       \/ /\ row.kind \in Stored /\ half'[s]
          /\ DOMAIN todo'[s] = DOMAIN todo[s] /\ todo'[s] # <<>> /\ todo'[s][1] = row
          /\ \A i \in DOMAIN todo[s] : i # 1 => todo'[s][i] = todo[s][i]
  <2>1. CASE row.kind = "model.delta"
    BY <1>1, <1>7, <2>1 DEF TypeOK
  <2>2. CASE row.kind # "model.delta"
    <3>1. todo'[s] = <<row>> \o rest /\ half'[s]
      BY <1>7, <2>2 DEF TypeOK
    <3>2. PICK q : q = <<row>> \o rest
      OBVIOUS
    <3>3. /\ DOMAIN q = 1..Len(rest) + 1 /\ q[1] = row
          /\ \A i \in 2..Len(rest) + 1 : q[i] = rest[i - 1]
      BY <1>3, <1>5, <3>2, RowAgain
    <3>4. DOMAIN todo[s] = 1..Len(rest) + 1
      BY <1>1, <1>3
    <3>5. \A i \in DOMAIN todo[s] : i # 1 => q[i] = todo[s][i]
      <4> SUFFICES ASSUME NEW i \in DOMAIN todo[s], i # 1 PROVE q[i] = todo[s][i]
        OBVIOUS
      <4>1. i \in 2..Len(rest) + 1 /\ i - 1 \in 1..Len(rest) /\ (i - 1) + 1 = i
        BY <1>3, <3>4
      <4>2. DOMAIN rest = 1..Len(rest)
        BY <1>3
      <4> QED BY <1>3, <3>3, <4>1, <4>2
    <3>6. row.kind \in Stored
      BY <1>1, <1>2, <1>6, <2>2 DEF Event
    <3>7. q # <<>>
      <4>1. 1 \in DOMAIN q
        BY <1>3, <3>3
      <4> QED BY <4>1
    <3> QED BY <3>1, <3>2, <3>3, <3>4, <3>5, <3>6, <3>7
  <2> QED BY <2>1, <2>2
<1>11. /\ mode' = mode /\ pc' = pc /\ turn' = turn /\ attempt' = attempt
       /\ result' = result /\ logOn' = logOn /\ file' = file /\ pruned' = pruned /\ seq'[s] = n
  BY <1>7 DEF Emit, loop, dir, TypeOK
<1>12. Emitted(s, row)
  BY <1>1, <1>2, <1>3, <1>4, <1>5, <1>6, <1>9, <1>10, <1>11 DEF Emitted
<1>13. \A x \in Sessions \ {s} : Same(x)
  <2> SUFFICES ASSUME NEW x \in Sessions, x # s PROVE Same(x)
    OBVIOUS
  <2>1. seq'[x] = seq[x] /\ stream'[x] = stream[x] /\ streamOn'[x] = streamOn[x]
    BY <1>7, <1>8 DEF TypeOK
  <2>2. todo'[x] = todo[x] /\ half'[x] = half[x]
    <3>1. CASE row.kind = "model.delta"
      <4>1. todo' = [todo EXCEPT ![s] = rest] /\ half' = half
        BY <1>7, <3>1
      <4> QED BY <4>1 DEF TypeOK
    <3>2. CASE row.kind # "model.delta"
      <4>1. PICK q : todo' = [todo EXCEPT ![s] = q]
        BY <1>7, <3>2
      <4>2. half' = [half EXCEPT ![s] = TRUE]
        BY <1>7, <3>2
      <4> QED BY <4>1, <4>2 DEF TypeOK
    <3> QED BY <3>1, <3>2
  <2> QED BY <1>11, <2>1, <2>2 DEF Same
<1> QED BY <1>11, <1>12, <1>13 DEF SameLog

(* Writing a row to the log: it is there, or the log is off.               *)
Logged(s, row) ==
  /\ 1 \in DOMAIN todo[s] /\ row = todo[s][1] /\ row \in Row
  /\ half[s] \/ row.kind \notin Event
  /\ ~half'[s] /\ todo'[s] = Tail(todo[s])
  /\ \A i \in DOMAIN todo'[s] : i + 1 \in DOMAIN todo[s] /\ todo'[s][i] = todo[s][i + 1]
  /\ \/ logOn[s] /\ logOn'[s] /\ file'[s] = Append(file[s], row)
     \/ ~logOn'[s] /\ file'[s] = file[s]
  /\ mode'[s] = mode[s] /\ pc'[s] = pc[s] /\ turn'[s] = turn[s] /\ attempt'[s] = attempt[s]
  /\ result'[s] = result[s] /\ seq'[s] = seq[s]
  /\ stream'[s] = stream[s] /\ streamOn'[s] = streamOn[s] /\ pruned'[s] = pruned[s]

LEMMA LogStep ==
  ASSUME TypeOK, NEW s \in Sessions, Log(s)
  PROVE  /\ \E row : Logged(s, row)
         /\ \A x \in Sessions \ {s} : Same(x) /\ SameLog(x)
<1>1. todo[s] \in Seq(Row) /\ todo[s] # <<>> /\ file[s] \in Seq(Row)
  BY DEF Log, Idle, TypeOK
<1>2. PICK row, rest : row = Head(todo[s]) /\ rest = Tail(todo[s])
  OBVIOUS
<1>3. /\ 1 \in DOMAIN todo[s] /\ row = todo[s][1] /\ row \in Row
      /\ \A i \in DOMAIN rest : i + 1 \in DOMAIN todo[s] /\ rest[i] = todo[s][i + 1]
  <2>1. row \in Row
    BY <1>1, <1>2, QueueHead DEF Idle
  <2> QED BY <1>1, <1>2, <2>1, TailRows
<1>4. PICK w \in IF logOn[s] THEN Writes(s, "log", file[s], row) ELSE {<<file[s], FALSE>>} :
        file' = [file EXCEPT ![s] = w[1]] /\ logOn' = [logOn EXCEPT ![s] = w[2]]
  BY <1>2 DEF Log
<1>5. \/ logOn[s] /\ logOn'[s] /\ file'[s] = Append(file[s], row)
      \/ ~logOn'[s] /\ file'[s] = file[s]
  <2>1. file'[s] = w[1] /\ logOn'[s] = w[2]
    BY <1>4 DEF TypeOK
  <2>2. \/ w = <<Append(file[s], row), TRUE>> /\ logOn[s]
        \/ w = <<file[s], FALSE>>
    BY <1>4 DEF Writes
  <2>3. CASE w = <<Append(file[s], row), TRUE>> /\ logOn[s]
    <3>1. w[1] = Append(file[s], row) /\ w[2] = TRUE
      BY <2>3
    <3> QED BY <2>1, <2>3, <3>1
  <2>4. CASE w = <<file[s], FALSE>>
    <3>1. w[1] = file[s] /\ w[2] = FALSE
      BY <2>4
    <3> QED BY <2>1, <3>1
  <2> QED BY <2>2, <2>3, <2>4
<1>6. /\ mode' = mode /\ pc' = pc /\ turn' = turn /\ attempt' = attempt /\ result' = result
      /\ seq' = seq /\ stream' = stream /\ streamOn' = streamOn /\ pruned' = pruned
      /\ todo' = [todo EXCEPT ![s] = rest] /\ half' = [half EXCEPT ![s] = FALSE]
      /\ half[s] \/ row.kind \notin Event
  BY <1>2 DEF Log, loop
<1>7. Logged(s, row)
  <2>1. todo'[s] = rest /\ ~half'[s]
    BY <1>6 DEF TypeOK
  <2> QED BY <1>2, <1>3, <1>5, <1>6, <2>1 DEF Logged
<1>8. \A x \in Sessions \ {s} : Same(x) /\ SameLog(x)
  BY <1>4, <1>6 DEF Same, SameLog, TypeOK
<1> QED BY <1>7, <1>8

(* What the invariant says of a sequence of rows when one is added.        *)
Grown(new, old, row) ==
  /\ new \in Seq(Row) /\ old \in Seq(Row) /\ Len(old) \in Nat /\ DOMAIN old = 1..Len(old)
  /\ Len(new) = Len(old) + 1 /\ DOMAIN new = 1..Len(old) + 1 /\ new[Len(old) + 1] = row
  /\ \A i \in DOMAIN old : i \in DOMAIN new /\ new[i] = old[i] /\ i # Len(old) + 1
  /\ \A i \in DOMAIN new : i \in DOMAIN old \/ i = Len(old) + 1
  /\ \A i \in DOMAIN new : i <= Len(old) + 1
  /\ \A i \in DOMAIN old : i < Len(old) + 1

LEMMA AppendGrows ==
  ASSUME NEW old \in Seq(Row), NEW row \in Row
  PROVE  Grown(Append(old, row), old, row)
<1>1. PICK new : new = Append(old, row)
  OBVIOUS
<1>2. /\ new \in Seq(Row) /\ Len(new) = Len(old) + 1 /\ new[Len(old) + 1] = row
      /\ \A i \in 1..Len(old) : new[i] = old[i]
  BY <1>1, AppendProperties
<1>3. Len(old) \in Nat /\ DOMAIN old = 1..Len(old) /\ DOMAIN new = 1..Len(old) + 1
  BY <1>2
<1>4. \A i \in 1..Len(old) : i \in 1..Len(old) + 1 /\ i # Len(old) + 1 /\ i < Len(old) + 1
  BY <1>3
<1>5. \A i \in 1..Len(old) + 1 : (i \in 1..Len(old) \/ i = Len(old) + 1) /\ i <= Len(old) + 1
  BY <1>3
<1> QED BY <1>1, <1>2, <1>3, <1>4, <1>5 DEF Grown

LEMMA GrownSets ==
  ASSUME NEW new, NEW old, NEW row, Grown(new, old, row)
  PROVE  /\ row.kind \in Stored => Events(new) = Events(old) \cup {row}
         /\ row.kind \notin Stored => Events(new) = Events(old)
         /\ row.kind = "session.finished" => Final(new) = Final(old) \cup {Len(old) + 1}
         /\ row.kind # "session.finished" => Final(new) = Final(old)
<1> DEFINE N == Len(old) + 1
<1>1. /\ \A i \in DOMAIN old : i \in DOMAIN new /\ new[i] = old[i] /\ i # N
      /\ \A i \in DOMAIN new : i \in DOMAIN old \/ i = N
      /\ N \in DOMAIN new /\ new[N] = row
  BY DEF Grown
<1> HIDE DEF N
<1>2. ASSUME row.kind \in Stored PROVE Events(new) = Events(old) \cup {row}
  BY <1>1, <1>2 DEF Events
<1>3. ASSUME row.kind \notin Stored PROVE Events(new) = Events(old)
  BY <1>1, <1>3 DEF Events
<1>4. ASSUME row.kind = "session.finished" PROVE Final(new) = Final(old) \cup {N}
  BY <1>1, <1>4 DEF Final
<1>5. ASSUME row.kind # "session.finished" PROVE Final(new) = Final(old)
  BY <1>1, <1>5 DEF Final
<1> QED BY <1>2, <1>3, <1>4, <1>5 DEF N

(* Numbering and showing an Event.                                         *)
LEMMA EmittedKeepsQueue ==
  ASSUME TypeOK, NEW s \in Sessions, RowsOf(s), NEW row, Emitted(s, row)
  PROVE  QueueOf(s)'
<1>0. /\ QueueOf(s) /\ seq[s] \in Nat /\ seq'[s] = seq[s] + 1
      /\ mode'[s] = mode[s] /\ pc'[s] = pc[s] /\ turn'[s] = turn[s] /\ attempt'[s] = attempt[s]
      /\ result'[s] = result[s] /\ 1 \in DOMAIN todo[s]
  BY DEF RowsOf, Emitted, TypeOK
<1>1. pc[s] \notin Before \cup {"prune", "done"}
  <2>1. DOMAIN <<>> = {}
    OBVIOUS
  <2>2. todo[s] # <<>>
    BY <1>0, <2>1
  <2> QED BY <1>0, <2>2 DEF QueueOf
<1>2. CASE row.kind = "model.delta" /\ ~half'[s] /\ todo'[s] = Tail(todo[s])
           /\ \A i \in DOMAIN todo'[s] : i + 1 \in DOMAIN todo[s] /\ todo'[s][i] = todo[s][i + 1]
  <2>1. \A i \in DOMAIN todo'[s] : FALSE
    <3> SUFFICES ASSUME NEW i \in DOMAIN todo'[s] PROVE FALSE
      OBVIOUS
    <3>1. todo[s][1].kind = "model.delta"
      BY <1>2 DEF Emitted
    <3>2. i + 1 = 1
      BY <1>0, <1>2, <3>1 DEF QueueOf
    <3>3. todo'[s] \in Seq(Row)
      <4>1. todo[s] \in Seq(Row) /\ todo[s] # <<>>
        BY <1>0 DEF TypeOK
      <4> QED BY <1>2, <4>1, TailRows
    <3> QED BY <3>2, <3>3
  <2> QED BY <1>0, <1>1, <1>2, <2>1 DEF QueueOf, Timely, Before
<1>3. CASE /\ row.kind \in Stored /\ half'[s]
           /\ DOMAIN todo'[s] = DOMAIN todo[s] /\ todo'[s] # <<>> /\ todo'[s][1] = row
           /\ \A i \in DOMAIN todo[s] : i # 1 => todo'[s][i] = todo[s][i]
  <2>1. \A i \in DOMAIN todo[s] : /\ todo'[s][i].kind = todo[s][i].kind
                                  /\ todo'[s][i].turn = todo[s][i].turn
                                  /\ todo'[s][i].attempt = todo[s][i].attempt
                                  /\ todo'[s][i].says = todo[s][i].says
    BY <1>3 DEF Emitted
  <2>2. \A i \in DOMAIN todo'[s] : Timely(s, todo[s][i])'
    BY <1>0, <1>3, <2>1 DEF QueueOf, Timely
  <2>3. \A i, j \in DOMAIN todo'[s] :
          /\ todo'[s][i].kind = "turn" /\ todo'[s][j].kind = "turn" => i = j
          /\ todo'[s][i].kind = "model.delta" => i = j
    BY <1>0, <1>3, <2>1 DEF QueueOf
  <2>4. \A i \in DOMAIN todo'[s] :
          pc'[s] = "finish" => i = 1 /\ todo'[s][i].kind = "session.finished"
    BY <1>0, <1>3, <2>1 DEF QueueOf
  <2>5. todo'[s][1].seq = seq'[s] /\ seq'[s] > 0
    BY <1>0, <1>3 DEF Emitted
  <2>6. pc'[s] \in Before \cup {"attach"} => turn'[s] = 0
    BY <1>0 DEF QueueOf
  <2> QED BY <1>0, <1>1, <1>3, <2>2, <2>3, <2>4, <2>5, <2>6 DEF QueueOf, Before
<1> QED BY <1>2, <1>3 DEF Emitted

LEMMA EmittedKeepsFragments ==
  ASSUME TypeOK, TypeOK', NEW s \in Sessions, RowsOf(s), NEW row, Emitted(s, row)
  PROVE  FragmentsOf(s)' /\ AttributedOf(s)'
<1>0. /\ QueueOf(s) /\ FragmentsOf(s) /\ AttributedOf(s)
      /\ pc'[s] = pc[s] /\ turn'[s] = turn[s] /\ attempt'[s] = attempt[s]
      /\ 1 \in DOMAIN todo[s] /\ turn[s] \in Nat /\ attempt[s] \in Nat
      /\ stream[s] \in Seq(Row) /\ row \in Row /\ row.attempt \in Nat /\ row.turn \in Nat
  BY DEF RowsOf, Emitted, TypeOK, Row
<1>1. /\ row.turn <= turn[s]
      /\ row.kind = "model.delta" => row.turn = turn[s] /\ row.attempt = attempt[s]
      /\ row.kind = "model.retry" => row.turn = turn[s] /\ row.attempt + 1 = attempt[s]
  <2>1. Timely(s, todo[s][1])
    BY <1>0 DEF QueueOf
  <2> QED BY <2>1 DEF Timely, Emitted
<1>2. Retrying(s)' => Retrying(s)
  BY DEF Retrying, Emitted
<1>3. row.kind = "model.delta" => ~Retrying(s)
  <2>1. SUFFICES ASSUME todo[s][1].kind = "model.delta", NEW k \in DOMAIN todo[s],
                        todo[s][k].kind = "model.retry"
                 PROVE  FALSE
    BY DEF Retrying, Emitted
  <2>2. 1 = k
    BY <1>0, <2>1 DEF QueueOf
  <2> QED BY <2>1, <2>2
<1>4. row.kind = "model.retry" => Retrying(s)
  BY <1>0 DEF Retrying, Emitted
<1>5. CASE ~streamOn'[s] /\ stream'[s] = stream[s]
  BY <1>0, <1>2, <1>5 DEF FragmentsOf, AttributedOf
<1>6. CASE stream'[s] = Append(stream[s], row)
  <2>1. Grown(stream'[s], stream[s], row)
    BY <1>0, <1>6, AppendGrows
  <2> DEFINE N == Len(stream[s]) + 1
  <2>2. /\ \A i \in DOMAIN stream[s] : i \in DOMAIN stream'[s] /\ stream'[s][i] = stream[s][i]
        /\ \A i \in DOMAIN stream'[s] : i \in DOMAIN stream[s] \/ i = N
        /\ \A i \in DOMAIN stream'[s] : i <= N
        /\ \A i \in DOMAIN stream[s] : i < N
        /\ N \in Nat /\ stream'[s][N] = row /\ DOMAIN stream'[s] \subseteq Nat
    BY <2>1 DEF Grown
  <2>3. \A i \in DOMAIN stream[s] : stream[s][i].attempt \in Nat /\ stream[s][i].turn \in Nat
    <3>1. \A i \in DOMAIN stream[s] : stream[s][i] \in Row
      BY <1>0
    <3> QED BY <3>1 DEF Row
  <2> HIDE DEF N
  <2>4. FragmentsOf(s)'
    <3>1. SUFFICES ASSUME NEW i \in DOMAIN stream'[s]
                   PROVE  /\ stream'[s][i].turn <= turn[s]
                          /\ stream'[s][i].turn = turn[s] /\ stream'[s][i].kind = "model.delta" =>
                               /\ stream'[s][i].attempt <= attempt[s]
                               /\ Retrying(s)' => stream'[s][i].attempt < attempt[s]
                          /\ stream'[s][i].turn = turn[s] /\ stream'[s][i].kind = "model.retry" =>
                               stream'[s][i].attempt < attempt[s]
      BY <1>0 DEF FragmentsOf
    <3>2. CASE i \in DOMAIN stream[s]
      BY <1>0, <1>2, <2>2, <3>2 DEF FragmentsOf
    <3>3. CASE i = N
      BY <1>0, <1>1, <1>2, <1>3, <2>2, <3>3
    <3> QED BY <2>2, <3>1, <3>2, <3>3
  <2>5. AttributedOf(s)'
    <3>1. SUFFICES ASSUME NEW i \in DOMAIN stream'[s], NEW j \in DOMAIN stream'[s],
                          i < j, stream'[s][i].turn = stream'[s][j].turn
                   PROVE  /\ stream'[s][i].kind = "model.delta" /\ stream'[s][j].kind = "model.retry" =>
                               stream'[s][i].attempt <= stream'[s][j].attempt
                          /\ stream'[s][i].kind = "model.retry" /\ stream'[s][j].kind = "model.delta" =>
                               stream'[s][i].attempt < stream'[s][j].attempt
      BY DEF AttributedOf
    <3>2. i \in DOMAIN stream[s] /\ stream'[s][i] = stream[s][i]
      BY <2>2, <3>1
    <3>3. CASE j \in DOMAIN stream[s]
      BY <1>0, <2>2, <3>1, <3>2, <3>3 DEF AttributedOf
    <3>4. CASE j = N
      BY <1>0, <1>1, <1>4, <2>2, <2>3, <3>1, <3>2, <3>4 DEF FragmentsOf
    <3> QED BY <2>2, <3>3, <3>4
  <2> QED BY <2>4, <2>5
<1> QED BY <1>5, <1>6 DEF Emitted

LEMMA EmittedKeepsClosed ==
  ASSUME TypeOK, TypeOK', NEW s \in Sessions, RowsOf(s), NEW row, Emitted(s, row)
  PROVE  ClosedOf(s)'
<1>0. /\ QueueOf(s) /\ ClosedOf(s) /\ ~half[s]
      /\ pc'[s] = pc[s] /\ result'[s] = result[s] /\ logOn'[s] = logOn[s]
      /\ file'[s] = file[s] /\ pruned'[s] = pruned[s]
      /\ 1 \in DOMAIN todo[s] /\ stream[s] \in Seq(Row) /\ row \in Row
  BY DEF RowsOf, Emitted, TypeOK
<1>1. todo[s] # <<>>
  <2>1. DOMAIN <<>> = {}
    OBVIOUS
  <2> QED BY <1>0, <2>1
<1>2. Final(stream[s]) = {} /\ Final(file[s]) = {} /\ Final(file[s])' = {}
  BY <1>0, <1>1 DEF ClosedOf, Final
<1>3. pc[s] \in Over => pc[s] = "finish" /\ row.kind = "session.finished"
  BY <1>0, <1>1 DEF QueueOf, Over, Emitted
<1>4. row.kind = "session.finished" =>
        /\ pc[s] = "finish" /\ row.says = result[s]
        /\ half'[s] /\ todo'[s] # <<>>
  <2>1. Timely(s, todo[s][1])
    BY <1>0 DEF QueueOf
  <2> QED BY <2>1 DEF Timely, Emitted
<1>5. CASE ~streamOn'[s] /\ stream'[s] = stream[s]
  <2>1. Final(stream[s])' = {}
    BY <1>2, <1>5 DEF Final
  <2>2. pc[s] \in Over => todo'[s] # <<>>
    BY <1>3, <1>4
  <2> QED BY <1>0, <1>2, <1>5, <2>1, <2>2 DEF ClosedOf
<1>6. CASE stream'[s] = Append(stream[s], row)
  <2>1. Grown(stream'[s], stream[s], row)
    BY <1>0, <1>6, AppendGrows
  <2>2. Len(stream'[s]) = Len(stream[s]) + 1 /\ stream'[s][Len(stream[s]) + 1] = row
    BY <2>1 DEF Grown
  <2>3. /\ row.kind = "session.finished" => Final(stream'[s]) = {Len(stream[s]) + 1}
        /\ row.kind # "session.finished" => Final(stream'[s]) = {}
    BY <1>2, <2>1, GrownSets
  <2>4. Final(stream[s])' = Final(stream'[s])
    BY DEF Final
  <2>5. CASE row.kind = "session.finished"
    <3>1. Final(stream[s])' = {Len(stream[s]) + 1} /\ half'[s] /\ todo'[s] # <<>> /\ pc[s] \in Over
      BY <1>4, <2>3, <2>4, <2>5 DEF Over
    <3> QED BY <1>0, <1>2, <1>4, <2>2, <2>5, <3>1 DEF ClosedOf
  <2>6. CASE row.kind # "session.finished"
    <3>1. Final(stream[s])' = {} /\ pc[s] \notin Over
      BY <1>3, <2>3, <2>4, <2>6
    <3> QED BY <1>0, <1>2, <3>1 DEF ClosedOf
  <2> QED BY <2>5, <2>6
<1> QED BY <1>5, <1>6 DEF Emitted

LEMMA EmittedKeepsTurns ==
  ASSUME TypeOK, NEW s \in Sessions, RowsOf(s), NEW row, Emitted(s, row)
  PROVE  TurnsOf(s)'
<1>1. /\ TurnsOf(s) /\ pc'[s] = pc[s] /\ turn'[s] = turn[s] /\ result'[s] = result[s]
      /\ logOn'[s] = logOn[s] /\ file'[s] = file[s] /\ pruned'[s] = pruned[s]
      /\ 1 \in DOMAIN todo[s]
  BY DEF RowsOf, Emitted
<1>2. QueuedTurn(s)' <=> QueuedTurn(s)
  <2>1. CASE /\ row.kind = "model.delta"
             /\ \A i \in DOMAIN todo'[s] : i + 1 \in DOMAIN todo[s] /\ todo'[s][i] = todo[s][i + 1]
    <3>1. todo[s][1].kind = "model.delta" /\ QueueOf(s)
      BY <2>1 DEF Emitted, RowsOf
    <3>2. \A k \in DOMAIN todo[s] : k = 1
      BY <1>1, <3>1 DEF QueueOf
    <3>3. ~QueuedTurn(s)
      BY <3>1, <3>2 DEF QueuedTurn
    <3>4. QueuedTurn(s)' => QueuedTurn(s)
      BY <2>1 DEF QueuedTurn
    <3> QED BY <3>3, <3>4
  <2>2. CASE /\ DOMAIN todo'[s] = DOMAIN todo[s] /\ todo'[s][1] = row
             /\ \A i \in DOMAIN todo[s] : i # 1 => todo'[s][i] = todo[s][i]
    <3>1. \A i \in DOMAIN todo[s] : todo'[s][i].kind = todo[s][i].kind
      BY <2>2 DEF Emitted
    <3> QED BY <2>2, <3>1 DEF QueuedTurn
  <2> QED BY <2>1, <2>2 DEF Emitted
<1>3. LeftTurn(s)' <=> LeftTurn(s)
  BY <1>1 DEF LeftTurn
<1>4. \A n : TurnRows(s, n)' = TurnRows(s, n)
  BY <1>1 DEF TurnRows
<1> QED BY <1>1, <1>2, <1>3, <1>4 DEF TurnsOf

LEMMA EmittedKeepsStory ==
  ASSUME TypeOK, TypeOK', NEW s \in Sessions, RowsOf(s), NEW row, Emitted(s, row)
  PROVE  StoryOf(s)'
<1>0. /\ StoryOf(s) /\ file'[s] = file[s] /\ seq[s] \in Nat /\ seq'[s] = seq[s] + 1
      /\ row.seq = seq[s] + 1 /\ stream[s] \in Seq(Row) /\ row \in Row /\ Len(stream[s]) \in Nat
  BY DEF RowsOf, Emitted, TypeOK
<1>1. /\ \A i \in DOMAIN file'[s] : file'[s][i].kind \in Stored =>
           /\ file'[s][i].seq \in 1..seq'[s]
           /\ file'[s][i].seq < seq'[s]
      /\ \A i, j \in DOMAIN file'[s] :
           i < j /\ file'[s][i].kind \in Stored /\ file'[s][j].kind \in Stored =>
             file'[s][i].seq < file'[s][j].seq
  BY <1>0 DEF StoryOf
<1>2. CASE ~streamOn'[s] /\ stream'[s] = stream[s]
  BY <1>0, <1>1, <1>2 DEF StoryOf
<1>3. CASE streamOn[s] /\ stream'[s] = Append(stream[s], row)
  <2>1. Grown(stream'[s], stream[s], row)
    BY <1>0, <1>3, AppendGrows
  <2>2. Len(stream'[s]) = seq'[s] /\ Len(stream[s]) = seq[s]
    BY <1>0, <1>3, <2>1 DEF StoryOf, Grown
  <2>3. \A i \in DOMAIN stream'[s] : stream'[s][i].seq = i
    BY <1>0, <2>1, <2>2 DEF StoryOf, Grown
  <2>4. Len(stream'[s]) <= seq'[s]
    BY <1>0, <2>2
  <2> QED BY <1>1, <2>2, <2>3, <2>4 DEF StoryOf
<1> QED BY <1>2, <1>3 DEF Emitted

(* The numbers of the two outputs, as sets.                                *)
LEMMA EventNumbers ==
  ASSUME TypeOK, NEW s \in Sessions, StoryOf(s)
  PROVE  /\ \A r \in Events(stream[s]) : r \in Row /\ r.seq \in Nat /\ r.seq <= seq[s]
         /\ \A r \in Events(file[s]) :
              r \in Row /\ r.seq \in Nat /\ r.seq <= seq[s] /\ (half[s] => r.seq < seq[s])
<1>1. stream[s] \in Seq(Row) /\ file[s] \in Seq(Row) /\ seq[s] \in Nat /\ Len(stream[s]) \in Nat
  BY DEF TypeOK
<1>2. /\ \A i \in DOMAIN stream[s] : stream[s][i] \in Row /\ i \in Nat /\ i <= Len(stream[s])
      /\ \A i \in DOMAIN file[s] : file[s][i] \in Row
  BY <1>1
<1>3. ASSUME NEW r \in Events(stream[s]) PROVE r \in Row /\ r.seq \in Nat /\ r.seq <= seq[s]
  <2>1. PICK i \in DOMAIN stream[s] : r = stream[s][i]
    BY <1>3 DEF Events
  <2>2. r.seq = i /\ i \in Nat /\ i <= Len(stream[s]) /\ Len(stream[s]) <= seq[s] /\ r \in Row
    BY <1>2, <2>1 DEF StoryOf
  <2> QED BY <1>1, <2>2
<1>4. ASSUME NEW r \in Events(file[s])
      PROVE  r \in Row /\ r.seq \in Nat /\ r.seq <= seq[s] /\ (half[s] => r.seq < seq[s])
  <2>1. PICK i \in DOMAIN file[s] : r = file[s][i] /\ file[s][i].kind \in Stored
    BY <1>4 DEF Events
  <2>2. r.seq \in 1..seq[s] /\ (half[s] => r.seq < seq[s]) /\ r \in Row
    BY <1>2, <2>1 DEF StoryOf
  <2> QED BY <1>1, <2>2
<1> QED BY <1>3, <1>4

(* An Event numbered after all others may be added to either side.         *)
LEMMA BeginsMore ==
  ASSUME NEW some, NEW all, NEW row, Begins(some, all),
         \A a \in some : a.seq < row.seq
  PROVE  Begins(some, all \cup {row})
BY DEF Begins

LEMMA BeginsItself ==
  ASSUME NEW all
  PROVE  Begins(all, all)
BY DEF Begins

(* An Event that is last of all may be taken from the longer side.         *)
LEMMA BeginsLess ==
  ASSUME NEW logged, NEW shown, NEW row, row.seq \in Nat,
         \A a \in logged : a.seq \in Nat /\ a.seq < row.seq
  PROVE  /\ Begins(shown, logged \cup {row}) => Begins(logged, shown) \/ Begins(shown, logged)
         /\ shown = logged \cup {row} => Begins(logged, shown)
<1>1. ASSUME Begins(shown, logged \cup {row})
      PROVE  Begins(logged, shown) \/ Begins(shown, logged)
  <2>1. shown \subseteq logged \cup {row}
    BY <1>1 DEF Begins
  <2>2. CASE logged \subseteq shown
    BY <2>1, <2>2 DEF Begins
  <2>3. CASE ~(logged \subseteq shown)
    <3>1. PICK b \in logged : b \notin shown
      BY <2>3
    <3>2. row \notin shown
      <4> SUFFICES ASSUME row \in shown PROVE FALSE
        OBVIOUS
      <4>1. row.seq < b.seq
        BY <1>1, <3>1 DEF Begins
      <4>2. b.seq < row.seq /\ b.seq \in Nat
        BY <3>1
      <4> QED BY <4>1, <4>2
    <3>3. shown \subseteq logged
      BY <2>1, <3>2
    <3>4. Begins(shown, logged)
      BY <1>1, <3>3 DEF Begins
    <3> QED BY <3>4
  <2> QED BY <2>2, <2>3
<1>2. ASSUME shown = logged \cup {row} PROVE Begins(logged, shown)
  BY <1>2 DEF Begins
<1> QED BY <1>1, <1>2

LEMMA EmittedKeepsSets ==
  ASSUME TypeOK, TypeOK', NEW s \in Sessions, RowsOf(s), NEW row, Emitted(s, row)
  PROVE  SetsOf(s)'
<1>0. /\ SetsOf(s) /\ StoryOf(s) /\ seq[s] \in Nat /\ row.seq = seq[s] + 1
      /\ stream[s] \in Seq(Row) /\ row \in Row
      /\ file'[s] = file[s] /\ pruned'[s] = pruned[s] /\ logOn'[s] = logOn[s] /\ ~half[s]
  BY DEF RowsOf, Emitted, TypeOK
<1>1. /\ \A r \in Events(stream[s]) : r.seq < row.seq
      /\ \A r \in Events(file[s]) : r.seq < row.seq
  <2>1. /\ \A r \in Events(stream[s]) : r.seq \in Nat /\ r.seq <= seq[s]
        /\ \A r \in Events(file[s]) : r.seq \in Nat /\ r.seq <= seq[s]
    BY <1>0, EventNumbers
  <2> QED BY <1>0, <2>1
<1>2. Pending(s) = {}
  BY <1>0 DEF Pending
<1>3. /\ row.kind \in Stored => Pending(s)' = {row}
      /\ row.kind \notin Stored => Pending(s)' = {}
  BY DEF Pending, Emitted, Stored
<1>4. Events(file[s])' = Events(file[s])
  BY <1>0 DEF Events
<1>5. \/ streamOn[s] /\ streamOn'[s] /\ Events(stream[s])' = Events(stream[s]) \cup Pending(s)'
      \/ ~streamOn'[s] /\ Events(stream[s])' = Events(stream[s])
  <2>1. CASE ~streamOn'[s] /\ stream'[s] = stream[s]
    BY <2>1 DEF Events
  <2>2. CASE streamOn[s] /\ streamOn'[s] /\ stream'[s] = Append(stream[s], row)
    <3>1. Grown(stream'[s], stream[s], row)
      BY <1>0, <2>2, AppendGrows
    <3>2. /\ row.kind \in Stored => Events(stream'[s]) = Events(stream[s]) \cup {row}
          /\ row.kind \notin Stored => Events(stream'[s]) = Events(stream[s])
      BY <3>1, GrownSets
    <3>3. Events(stream[s])' = Events(stream'[s])
      BY DEF Events
    <3> QED BY <1>3, <2>2, <3>2, <3>3
  <2> QED BY <2>1, <2>2 DEF Emitted
<1>6. PICK shown, logged, now, next, shownNext :
        /\ shown = Events(stream[s]) /\ logged = Events(file[s]) /\ shownNext = Events(stream[s])'
        /\ now = Pending(s) /\ next = Pending(s)'
  OBVIOUS
<1>7. /\ now = {} /\ next \in {{}, {row}}
      /\ \/ streamOn[s] /\ streamOn'[s] /\ shownNext = shown \cup next
         \/ ~streamOn'[s] /\ shownNext = shown
  BY <1>2, <1>3, <1>5, <1>6
<1>8. ASSUME ~pruned[s]
      PROVE  /\ streamOn[s] /\ logOn[s] => logged = shown
             /\ streamOn[s] /\ ~logOn[s] => Begins(logged, shown)
             /\ ~streamOn[s] /\ logOn[s] => Begins(shown, logged)
             /\ ~streamOn[s] /\ ~logOn[s] => Begins(logged, shown) \/ Begins(shown, logged)
  BY <1>0, <1>6, <1>7, <1>8 DEF SetsOf
<1>9. /\ Begins(logged, shown) => Begins(logged, shown \cup next)
      /\ Begins(shown, logged) => Begins(shown, logged \cup next)
  <2>1. CASE next = {}
    <3>1. shown \cup next = shown /\ logged \cup next = logged
      BY <2>1
    <3> QED BY <3>1
  <2>2. CASE next = {row}
    BY <1>1, <1>6, <2>2, BeginsMore
  <2> QED BY <1>7, <2>1, <2>2
<1>10. ASSUME ~pruned[s]
       PROVE  /\ streamOn'[s] /\ logOn[s] => logged \cup next = shownNext
              /\ streamOn'[s] /\ ~logOn[s] => Begins(logged, shownNext)
              /\ ~streamOn'[s] /\ logOn[s] => Begins(shownNext, logged \cup next)
              /\ ~streamOn'[s] /\ ~logOn[s] => Begins(logged, shownNext) \/ Begins(shownNext, logged)
  <2>1. Begins(shown, shown)
    BY BeginsItself
  <2>2. CASE streamOn[s] /\ streamOn'[s] /\ shownNext = shown \cup next
    BY <1>8, <1>9, <1>10, <2>2
  <2>3. CASE ~streamOn'[s] /\ shownNext = shown
    BY <1>8, <1>9, <1>10, <2>1, <2>3
  <2> QED BY <1>7, <2>2, <2>3
<1> QED BY <1>0, <1>4, <1>6, <1>10 DEF SetsOf

LEMMA EmittedKeepsNumbers ==
  ASSUME TypeOK, TypeOK', NEW s \in Sessions, RowsOf(s), NEW row, Emitted(s, row)
  PROVE  NumbersOf(s)'
<1>0. /\ NumbersOf(s) /\ QueueOf(s) /\ seq[s] \in Nat /\ row.seq = seq[s] + 1
      /\ seq'[s] = seq[s] + 1 /\ mode'[s] = mode[s] /\ 1 \in DOMAIN todo[s]
      /\ file'[s] = file[s] /\ pruned'[s] = pruned[s] /\ logOn'[s] = logOn[s] /\ ~half[s]
  BY DEF RowsOf, Emitted, TypeOK
<1>1. SUFFICES ASSUME ~pruned[s], mode[s].events # "tokens"
               PROVE  /\ Closing(Events(file[s]))'
                      /\ logOn[s] => \A n \in 1..seq'[s] :
                           \E r \in Events(file[s]) \cup Pending(s)' : r.seq = n
  <2>1. Events(file[s])' = Events(file[s])
    BY <1>0 DEF Events
  <2> QED BY <1>0, <2>1 DEF NumbersOf
<1>2. Closing(Events(file[s]))'
  BY <1>0, <1>1 DEF NumbersOf, Closing, Events
<1>3. row.kind \in Stored
  <2>1. Timely(s, todo[s][1])
    BY <1>0 DEF QueueOf
  <2> QED BY <1>1, <2>1 DEF Timely, Emitted
<1>4. Pending(s)' = {row} /\ Pending(s) = {}
  BY <1>0, <1>3 DEF Pending, Emitted, Stored
<1>5. ASSUME logOn[s], NEW n \in 1..seq'[s]
      PROVE  \E r \in Events(file[s]) \cup Pending(s)' : r.seq = n
  <2>1. CASE n = seq'[s]
    BY <1>0, <1>4, <2>1
  <2>2. CASE n # seq'[s]
    <3>1. n \in 1..seq[s]
      BY <1>0, <1>5, <2>2
    <3> QED BY <1>0, <1>1, <1>4, <1>5, <3>1 DEF NumbersOf
  <2> QED BY <2>1, <2>2
<1> QED BY <1>2, <1>5

LEMMA EmittedKeeps ==
  ASSUME TypeOK, TypeOK', NEW s \in Sessions, RowsOf(s), NEW row, Emitted(s, row)
  PROVE  RowsOf(s)'
BY EmittedKeepsQueue, EmittedKeepsFragments, EmittedKeepsClosed, EmittedKeepsTurns,
   EmittedKeepsStory, EmittedKeepsSets, EmittedKeepsNumbers DEF RowsOf

(* Writing the first row of the queue to the log.                          *)
LEMMA LoggedFacts ==
  ASSUME TypeOK, TypeOK', NEW s \in Sessions, RowsOf(s), NEW row, Logged(s, row)
  PROVE  /\ todo[s] # <<>> /\ pc[s] \notin Before \cup {"prune", "done"}
         /\ Timely(s, row)
         /\ half[s] <=> row.kind \in Stored
         /\ half[s] => row.seq = seq[s] /\ seq[s] > 0
         /\ pc[s] = "finish" => row.kind = "session.finished" /\ half[s] /\ todo'[s] = <<>>
         /\ QueuedTurn(s)' => QueuedTurn(s) /\ row.kind # "turn"
         /\ QueuedTurn(s) => QueuedTurn(s)' \/ row.kind = "turn"
         /\ Retrying(s)' => Retrying(s)
<1>0. /\ QueueOf(s) /\ 1 \in DOMAIN todo[s] /\ row = todo[s][1] /\ todo'[s] = Tail(todo[s])
      /\ todo[s] \in Seq(Row)
      /\ half[s] \/ row.kind \notin Event
  BY DEF RowsOf, Logged, TypeOK
<1>1. todo[s] # <<>>
  <2>1. DOMAIN <<>> = {}
    OBVIOUS
  <2> QED BY <1>0, <2>1
<1>2. /\ todo'[s] \in Seq(Row) /\ Len(todo'[s]) = Len(todo[s]) - 1
      /\ \A i \in DOMAIN todo'[s] : i + 1 \in DOMAIN todo[s] /\ todo'[s][i] = todo[s][i + 1]
  <2>1. PICK q, rest : q = todo[s] /\ rest = Tail(q)
    OBVIOUS
  <2>2. /\ rest \in Seq(Row) /\ Len(rest) = Len(q) - 1
        /\ \A i \in DOMAIN rest : i + 1 \in DOMAIN q /\ rest[i] = q[i + 1]
    <3>1. q \in Seq(Row) /\ q # <<>>
      BY <1>0, <1>1, <2>1
    <3> QED BY <2>1, <3>1, TailRows
  <2> QED BY <1>0, <2>1, <2>2
<1>3. /\ Len(todo[s]) \in Nat /\ DOMAIN todo[s] = 1..Len(todo[s])
      /\ DOMAIN todo'[s] = 1..Len(todo'[s]) /\ Len(todo'[s]) \in Nat
  BY <1>0, <1>2
<1>4. \A i \in DOMAIN todo[s] : i # 1 => i - 1 \in DOMAIN todo'[s] /\ todo'[s][i - 1] = todo[s][i]
  <2> SUFFICES ASSUME NEW i \in DOMAIN todo[s], i # 1
               PROVE  i - 1 \in DOMAIN todo'[s] /\ todo'[s][i - 1] = todo[s][i]
    OBVIOUS
  <2>1. i - 1 \in 1..Len(todo'[s]) /\ (i - 1) + 1 = i
    BY <1>2, <1>3
  <2> QED BY <1>2, <1>3, <2>1
<1>5. \A i \in DOMAIN todo'[s] : i + 1 # 1
  BY <1>3
<1>6. /\ pc[s] \notin Before \cup {"prune", "done"} /\ Timely(s, row)
      /\ half[s] => row.seq = seq[s] /\ seq[s] > 0 /\ row.kind \in Stored
  BY <1>0, <1>1 DEF QueueOf
<1>7. half[s] <=> row.kind \in Stored
  BY <1>0, <1>6 DEF Event
<1>8. ASSUME pc[s] = "finish"
      PROVE  row.kind = "session.finished" /\ half[s] /\ todo'[s] = <<>>
  <2>1. row.kind = "session.finished" /\ \A i \in DOMAIN todo[s] : i = 1
    BY <1>0, <1>8 DEF QueueOf
  <2>2. \A i \in DOMAIN todo'[s] : FALSE
    BY <1>2, <1>5, <2>1
  <2>3. Len(todo'[s]) = 0
    BY <1>3, <2>2
  <2>4. todo'[s] = <<>>
    BY <1>2, <2>3, EmptySeq
  <2> QED BY <1>7, <2>1, <2>4 DEF Stored
<1>9. ASSUME QueuedTurn(s)' PROVE QueuedTurn(s) /\ row.kind # "turn"
  <2>1. PICK k \in DOMAIN todo'[s] : todo'[s][k].kind = "turn"
    BY <1>9 DEF QueuedTurn
  <2>2. k + 1 \in DOMAIN todo[s] /\ todo[s][k + 1].kind = "turn" /\ k + 1 # 1
    BY <1>2, <1>5, <2>1
  <2>3. row.kind # "turn"
    BY <1>0, <2>2 DEF QueueOf
  <2> QED BY <2>2, <2>3 DEF QueuedTurn
<1>10. ASSUME QueuedTurn(s), row.kind # "turn" PROVE QueuedTurn(s)'
  <2>1. PICK k \in DOMAIN todo[s] : todo[s][k].kind = "turn"
    BY <1>10 DEF QueuedTurn
  <2>2. k - 1 \in DOMAIN todo'[s] /\ todo'[s][k - 1].kind = "turn"
    BY <1>0, <1>4, <1>10, <2>1
  <2> QED BY <2>2 DEF QueuedTurn
<1>11. Retrying(s)' => Retrying(s)
  BY <1>2 DEF Retrying
<1> QED BY <1>1, <1>6, <1>7, <1>8, <1>9, <1>10, <1>11

LEMMA LoggedKeepsQueue ==
  ASSUME TypeOK, TypeOK', NEW s \in Sessions, RowsOf(s), NEW row, Logged(s, row)
  PROVE  QueueOf(s)' /\ FragmentsOf(s)' /\ AttributedOf(s)'
<1>0. /\ QueueOf(s) /\ FragmentsOf(s) /\ AttributedOf(s) /\ 1 \in DOMAIN todo[s]
      /\ mode'[s] = mode[s] /\ pc'[s] = pc[s] /\ turn'[s] = turn[s] /\ attempt'[s] = attempt[s]
      /\ result'[s] = result[s] /\ stream'[s] = stream[s] /\ ~half'[s]
      /\ todo[s] \in Seq(Row) /\ todo'[s] \in Seq(Row)
      /\ \A i \in DOMAIN todo'[s] : i + 1 \in DOMAIN todo[s] /\ todo'[s][i] = todo[s][i + 1]
  BY DEF RowsOf, Logged, TypeOK
<1>1. \A i \in DOMAIN todo'[s] : i \in Nat /\ i + 1 # 1
  BY <1>0
<1>2. \A i, j \in DOMAIN todo'[s] : i + 1 = j + 1 => i = j
  BY <1>1
<1>3. pc[s] \notin Before \cup {"prune", "done"} /\ (Retrying(s)' => Retrying(s))
  BY LoggedFacts
<1>4. QueueOf(s)'
  <2>1. \A i \in DOMAIN todo'[s] : Timely(s, todo[s][i])'
    BY <1>0 DEF QueueOf, Timely
  <2>2. \A i, j \in DOMAIN todo'[s] :
          /\ todo'[s][i].kind = "turn" /\ todo'[s][j].kind = "turn" => i = j
          /\ todo'[s][i].kind = "model.delta" => i = j
    BY <1>0, <1>2 DEF QueueOf
  <2>3. \A i \in DOMAIN todo'[s] :
          pc'[s] = "finish" => i = 1 /\ todo'[s][i].kind = "session.finished"
    BY <1>0, <1>1 DEF QueueOf
  <2>4. pc'[s] \in Before \cup {"attach"} => turn'[s] = 0
    BY <1>0 DEF QueueOf
  <2> QED BY <1>0, <1>3, <2>1, <2>2, <2>3, <2>4 DEF QueueOf, Before
<1> QED BY <1>0, <1>3, <1>4 DEF FragmentsOf, AttributedOf

LEMMA LoggedKeepsClosed ==
  ASSUME TypeOK, TypeOK', NEW s \in Sessions, RowsOf(s), NEW row, Logged(s, row)
  PROVE  ClosedOf(s)'
<1>0. /\ ClosedOf(s) /\ file[s] \in Seq(Row) /\ row \in Row
      /\ pc'[s] = pc[s] /\ result'[s] = result[s] /\ pruned'[s] = pruned[s] /\ ~half'[s]
      /\ stream'[s] = stream[s] /\ streamOn'[s] = streamOn[s]
  BY DEF RowsOf, Logged, TypeOK
<1>1. /\ todo[s] # <<>> /\ pc[s] \notin {"prune", "done"} /\ Timely(s, row)
      /\ pc[s] = "finish" => row.kind = "session.finished" /\ half[s] /\ todo'[s] = <<>>
  BY LoggedFacts
<1>2. pc[s] \in Over => pc[s] = "finish"
  BY <1>1 DEF Over
<1>3. Final(file[s]) = {} /\ Final(stream[s])' = Final(stream[s])
  BY <1>0, <1>1 DEF ClosedOf, Final
<1>4. row.kind = "session.finished" => pc[s] = "finish" /\ row.says = result[s]
  BY <1>1 DEF Timely
<1>5. CASE ~logOn'[s] /\ file'[s] = file[s]
  <2>1. Final(file[s])' = {}
    BY <1>3, <1>5 DEF Final
  <2> QED BY <1>0, <1>1, <1>2, <1>3, <1>5, <2>1 DEF ClosedOf
<1>6. CASE file'[s] = Append(file[s], row)
  <2>1. Grown(file'[s], file[s], row)
    BY <1>0, <1>6, AppendGrows
  <2>2. Len(file'[s]) = Len(file[s]) + 1 /\ file'[s][Len(file[s]) + 1] = row
    BY <2>1 DEF Grown
  <2>3. /\ row.kind = "session.finished" => Final(file'[s]) = {Len(file[s]) + 1}
        /\ row.kind # "session.finished" => Final(file'[s]) = {}
    BY <1>3, <2>1, GrownSets
  <2>4. Final(file[s])' = Final(file'[s])
    BY DEF Final
  <2>5. CASE row.kind = "session.finished"
    <3>1. /\ Final(file[s])' = {Len(file[s]) + 1} /\ pc[s] = "finish" /\ pc[s] \in Over
          /\ todo'[s] = <<>> /\ half[s]
      BY <1>1, <1>4, <2>3, <2>4, <2>5 DEF Over
    <3> QED BY <1>0, <1>3, <1>4, <2>2, <2>5, <3>1 DEF ClosedOf
  <2>6. CASE row.kind # "session.finished"
    <3>1. Final(file[s])' = {} /\ pc[s] \notin Over
      BY <1>1, <1>2, <2>3, <2>4, <2>6
    <3> QED BY <1>0, <1>3, <3>1 DEF ClosedOf
  <2> QED BY <2>5, <2>6
<1> QED BY <1>5, <1>6 DEF Logged

LEMMA LoggedKeepsTurns ==
  ASSUME TypeOK, TypeOK', NEW s \in Sessions, RowsOf(s), NEW row, Logged(s, row)
  PROVE  TurnsOf(s)'
<1>0. /\ TurnsOf(s) /\ file[s] \in Seq(Row) /\ row \in Row /\ turn[s] \in Nat
      /\ pc'[s] = pc[s] /\ result'[s] = result[s] /\ pruned'[s] = pruned[s]
      /\ turn'[s] = turn[s] /\ row.turn \in Nat
  BY DEF RowsOf, Logged, TypeOK, Row
<1>1. /\ Timely(s, row) /\ pc[s] \notin {"prune", "done"}
      /\ pc[s] = "finish" => row.kind = "session.finished"
      /\ QueuedTurn(s)' => QueuedTurn(s) /\ row.kind # "turn"
      /\ QueuedTurn(s) => QueuedTurn(s)' \/ row.kind = "turn"
  BY LoggedFacts
<1>2. LeftTurn(s)' <=> LeftTurn(s)
  BY <1>0 DEF LeftTurn
<1>3. CASE ~logOn'[s] /\ file'[s] = file[s]
  <2>1. \A n : TurnRows(s, n)' = TurnRows(s, n)
    BY <1>3 DEF TurnRows
  <2> QED BY <1>0, <1>1, <1>2, <1>3, <2>1 DEF TurnsOf
<1>4. CASE logOn[s] /\ file'[s] = Append(file[s], row)
  <2>1. Grown(file'[s], file[s], row)
    BY <1>0, <1>4, AppendGrows
  <2> DEFINE N == Len(file[s]) + 1
  <2>2. /\ \A i \in DOMAIN file[s] : i \in DOMAIN file'[s] /\ file'[s][i] = file[s][i] /\ i # N
        /\ \A i \in DOMAIN file'[s] : i \in DOMAIN file[s] \/ i = N
        /\ \A i \in DOMAIN file[s] : i < N
        /\ N \in DOMAIN file'[s] /\ file'[s][N] = row
    BY <2>1 DEF Grown
  <2> HIDE DEF N
  <2>3. /\ \A n : TurnRows(s, n) \subseteq TurnRows(s, n)'
        /\ \A n : row.kind # "turn" \/ row.turn # n => TurnRows(s, n)' = TurnRows(s, n)
        /\ row.kind = "turn" => TurnRows(s, row.turn)' = TurnRows(s, row.turn) \cup {N}
    BY <2>2 DEF TurnRows
  <2>4. row.kind = "turn" => /\ row.turn = turn[s] /\ QueuedTurn(s) /\ pc[s] \in {"turn", "settle"}
                             /\ pc[s] = "settle" /\ result[s] \in Answered => row.says = "synthesis"
    BY <1>1 DEF Timely, QueuedTurn, Logged
  <2> SUFFICES ASSUME ~pruned[s] PROVE TurnsOf(s)'
    BY <1>0 DEF TurnsOf
  <2>5. \A i \in DOMAIN file'[s] : file'[s][i].turn <= turn[s]
    BY <1>0, <1>1, <2>2 DEF TurnsOf, Timely
  <2>6. row.kind = "turn" => TurnRows(s, turn[s]) = {}
    BY <1>0, <2>4 DEF TurnsOf
  <2>7. \A n \in Nat : \A i, j \in TurnRows(s, n)' : i = j
    <3> SUFFICES ASSUME NEW n \in Nat PROVE \A i, j \in TurnRows(s, n)' : i = j
      OBVIOUS
    <3>1. CASE row.kind = "turn" /\ row.turn = n
      <4>1. TurnRows(s, n)' = {N}
        BY <2>3, <2>4, <2>6, <3>1
      <4> QED BY <4>1
    <3>2. CASE row.kind # "turn" \/ row.turn # n
      BY <1>0, <2>3, <3>2 DEF TurnsOf
    <3> QED BY <3>1, <3>2
  <2>8. pc[s] \in OpenTurn \/ QueuedTurn(s)' => TurnRows(s, turn[s])' = {}
    <3>1. SUFFICES ASSUME pc[s] \in OpenTurn \/ QueuedTurn(s)'
                   PROVE  TurnRows(s, turn[s])' = {}
      OBVIOUS
    <3>2. row.kind # "turn"
      BY <1>1, <2>4, <3>1 DEF OpenTurn
    <3>3. TurnRows(s, turn[s])' = TurnRows(s, turn[s])
      BY <1>0, <2>3, <3>2
    <3> QED BY <1>0, <1>1, <3>1, <3>3 DEF TurnsOf
  <2>9. \A n \in 1..turn[s] - 1 : TurnRows(s, n)' # {}
    BY <1>0, <1>4, <2>3 DEF TurnsOf
  <2>10. LeftTurn(s) => QueuedTurn(s)' \/ TurnRows(s, turn[s])' # {}
    <3>1. CASE row.kind = "turn"
      BY <1>0, <2>3, <2>4, <3>1
    <3>2. CASE row.kind # "turn"
      BY <1>0, <1>1, <1>4, <2>3, <3>2 DEF TurnsOf
    <3> QED BY <3>1, <3>2
  <2>11. pc[s] \in {"settle"} \cup Over /\ result[s] \in Answered =>
           \A i \in TurnRows(s, turn[s])' : file'[s][i].says = "synthesis"
    <3>1. SUFFICES ASSUME pc[s] \in {"settle"} \cup Over, result[s] \in Answered,
                          NEW i \in TurnRows(s, turn[s])'
                   PROVE  file'[s][i].says = "synthesis"
      OBVIOUS
    <3>2. CASE i \in TurnRows(s, turn[s])
      <4>1. i \in DOMAIN file[s]
        BY <3>2 DEF TurnRows
      <4> QED BY <1>0, <2>2, <3>1, <3>2, <4>1 DEF TurnsOf
    <3>3. CASE i \notin TurnRows(s, turn[s])
      <4>1. i = N /\ row.kind = "turn"
        BY <1>0, <2>3, <2>4, <3>1, <3>3
      <4> QED BY <2>2, <2>4, <3>1, <4>1 DEF Over
    <3> QED BY <3>2, <3>3
  <2>12. ASSUME NEW j \in DOMAIN file'[s]
         PROVE  /\ file'[s][j].kind = "turn.started" =>
                     \A n \in 1..file'[s][j].turn - 1 : \E i \in TurnRows(s, n)' : i < j
                /\ file'[s][j].says \in Exits =>
                     /\ pc[s] \in Over /\ file'[s][j].says = result[s]
                     /\ TurnRows(s, turn[s])' # {}
    <3>1. CASE j \in DOMAIN file[s]
      <4>1. file'[s][j] = file[s][j]
        BY <2>2, <3>1
      <4> QED BY <1>0, <2>3, <3>1, <4>1 DEF TurnsOf
    <3>2. CASE j = N
      <4>1. file'[s][j] = row
        BY <2>2, <3>2
      <4>2. ASSUME row.kind = "turn.started", NEW n \in 1..row.turn - 1
            PROVE  \E i \in TurnRows(s, n)' : i < j
        <5>1. row.turn = turn[s]
          BY <1>1, <4>2 DEF Timely
        <5>2. PICK i : i \in TurnRows(s, n)
          BY <1>0, <1>4, <4>2, <5>1 DEF TurnsOf
        <5>3. i \in DOMAIN file[s]
          BY <5>2 DEF TurnRows
        <5> QED BY <2>2, <2>3, <3>2, <5>2, <5>3
      <4>3. ASSUME row.says \in Exits
            PROVE  pc[s] \in Over /\ row.says = result[s] /\ TurnRows(s, turn[s])' # {}
        <5>1. row.kind = "session.finished" /\ pc[s] = "finish" /\ row.says = result[s]
          BY <1>1, <4>3 DEF Timely
        <5>2. LeftTurn(s) /\ ~QueuedTurn(s)
          <6>1. QueueOf(s)
            BY DEF RowsOf
          <6> QED BY <4>3, <5>1, <6>1 DEF LeftTurn, QueuedTurn, QueueOf
        <5> QED BY <1>0, <1>4, <2>3, <5>1, <5>2 DEF TurnsOf, Over
      <4> QED BY <4>1, <4>2, <4>3
    <3> QED BY <2>2, <2>12, <3>1, <3>2
  <2> QED BY <1>0, <1>2, <2>5, <2>7, <2>8, <2>9, <2>10, <2>11, <2>12 DEF TurnsOf
<1> QED BY <1>3, <1>4 DEF Logged

LEMMA LoggedKeepsStory ==
  ASSUME TypeOK, TypeOK', NEW s \in Sessions, RowsOf(s), NEW row, Logged(s, row)
  PROVE  StoryOf(s)'
<1>0. /\ StoryOf(s) /\ file[s] \in Seq(Row) /\ row \in Row /\ seq[s] \in Nat /\ row.seq \in Nat
      /\ seq'[s] = seq[s] /\ stream'[s] = stream[s] /\ streamOn'[s] = streamOn[s] /\ ~half'[s]
  BY DEF RowsOf, Logged, TypeOK, Row
<1>1. row.kind \in Stored => half[s] /\ row.seq = seq[s] /\ seq[s] > 0
  BY LoggedFacts
<1>2. CASE file'[s] = file[s]
  BY <1>0, <1>2 DEF StoryOf
<1>3. CASE file'[s] = Append(file[s], row)
  <2>1. Grown(file'[s], file[s], row)
    BY <1>0, <1>3, AppendGrows
  <2> DEFINE N == Len(file[s]) + 1
  <2>2. /\ \A i \in DOMAIN file[s] : i \in DOMAIN file'[s] /\ file'[s][i] = file[s][i]
        /\ \A i \in DOMAIN file'[s] : i \in DOMAIN file[s] \/ i = N
        /\ \A i \in DOMAIN file'[s] : i <= N
        /\ DOMAIN file'[s] \subseteq Nat /\ N \in Nat
        /\ file'[s][N] = row
    BY <2>1 DEF Grown
  <2> HIDE DEF N
  <2>3. ASSUME NEW i \in DOMAIN file'[s], file'[s][i].kind \in Stored
        PROVE  file'[s][i].seq \in 1..seq[s]
    <3>1. CASE i = N
      <4>1. row.seq \in 1..seq[s]
        BY <1>0, <1>1, <2>2, <2>3, <3>1
      <4> QED BY <2>2, <3>1, <4>1
    <3>2. CASE i \in DOMAIN file[s]
      BY <1>0, <2>2, <2>3, <3>2 DEF StoryOf
    <3> QED BY <2>2, <2>3, <3>1, <3>2
  <2>4. ASSUME NEW i \in DOMAIN file'[s], NEW j \in DOMAIN file'[s], i < j,
               file'[s][i].kind \in Stored, file'[s][j].kind \in Stored
        PROVE  file'[s][i].seq < file'[s][j].seq
    <3>1. i # N /\ i \in DOMAIN file[s] /\ file'[s][i] = file[s][i]
      BY <2>2, <2>4
    <3>2. CASE j = N
      <4>1. row.seq = seq[s] /\ half[s]
        BY <1>1, <2>2, <2>4, <3>2
      <4>2. file[s][i].seq < seq[s]
        BY <1>0, <2>4, <3>1, <4>1 DEF StoryOf
      <4> QED BY <2>2, <3>1, <3>2, <4>1, <4>2
    <3>3. CASE j \in DOMAIN file[s]
      BY <1>0, <2>2, <2>4, <3>1, <3>3 DEF StoryOf
    <3> QED BY <2>2, <2>4, <3>2, <3>3
  <2> QED BY <1>0, <2>3, <2>4 DEF StoryOf
<1> QED BY <1>2, <1>3 DEF Logged

LEMMA LoggedSets ==
  ASSUME TypeOK, TypeOK', NEW s \in Sessions, RowsOf(s), NEW row, Logged(s, row)
  PROVE  /\ Events(stream[s])' = Events(stream[s]) /\ Pending(s)' = {}
         /\ half[s] => Pending(s) = {row}
         /\ ~half[s] => Pending(s) = {}
         /\ \/ logOn[s] /\ Events(file[s])' = Events(file[s]) \cup Pending(s)
            \/ ~logOn'[s] /\ Events(file[s])' = Events(file[s])
<1>0. /\ file[s] \in Seq(Row) /\ row \in Row /\ ~half'[s] /\ stream'[s] = stream[s]
      /\ row = todo[s][1]
  BY DEF Logged, TypeOK
<1>1. half[s] <=> row.kind \in Stored
  BY LoggedFacts
<1>2. Events(stream[s])' = Events(stream[s])
  BY <1>0 DEF Events
<1>3. Pending(s)' = {} /\ Pending(s) = IF half[s] THEN {row} ELSE {}
  BY <1>0 DEF Pending
<1>4. CASE ~logOn'[s] /\ file'[s] = file[s]
  <2>1. Events(file[s])' = Events(file[s])
    BY <1>4 DEF Events
  <2> QED BY <1>2, <1>3, <1>4, <2>1
<1>5. CASE logOn[s] /\ file'[s] = Append(file[s], row)
  <2>1. Grown(file'[s], file[s], row)
    BY <1>0, <1>5, AppendGrows
  <2>2. /\ row.kind \in Stored => Events(file'[s]) = Events(file[s]) \cup {row}
        /\ row.kind \notin Stored => Events(file'[s]) = Events(file[s])
    BY <2>1, GrownSets
  <2>3. Events(file[s])' = Events(file'[s])
    BY DEF Events
  <2>4. Events(file[s])' = Events(file[s]) \cup Pending(s)
    BY <1>1, <1>3, <2>2, <2>3
  <2> QED BY <1>2, <1>3, <1>5, <2>4
<1> QED BY <1>4, <1>5 DEF Logged

LEMMA LoggedKeepsSets ==
  ASSUME TypeOK, TypeOK', NEW s \in Sessions, RowsOf(s), NEW row, Logged(s, row)
  PROVE  SetsOf(s)'
<1>0. /\ SetsOf(s) /\ StoryOf(s) /\ pruned'[s] = pruned[s] /\ streamOn'[s] = streamOn[s]
  BY DEF RowsOf, Logged
<1>1. PICK shown, logged, now, loggedNext :
        /\ shown = Events(stream[s]) /\ logged = Events(file[s]) /\ now = Pending(s)
        /\ loggedNext = Events(file[s])'
  OBVIOUS
<1>2. /\ Events(stream[s])' = shown /\ Pending(s)' = {}
      /\ \/ logOn[s] /\ loggedNext = logged \cup now
         \/ ~logOn'[s] /\ loggedNext = logged
  BY <1>1, LoggedSets
<1>3. SUFFICES ASSUME ~pruned[s]
      PROVE  /\ streamOn[s] /\ logOn'[s] => loggedNext = shown
             /\ streamOn[s] /\ ~logOn'[s] => Begins(loggedNext, shown)
             /\ ~streamOn[s] /\ logOn'[s] => Begins(shown, loggedNext)
             /\ ~streamOn[s] /\ ~logOn'[s] => Begins(loggedNext, shown) \/ Begins(shown, loggedNext)
  <2>1. \A set : set \cup {} = set
    OBVIOUS
  <2> QED BY <1>0, <1>1, <1>2, <2>1 DEF SetsOf
<1>4. /\ streamOn[s] /\ logOn[s] => logged \cup now = shown
      /\ streamOn[s] /\ ~logOn[s] => Begins(logged, shown)
      /\ ~streamOn[s] /\ logOn[s] => Begins(shown, logged \cup now)
      /\ ~streamOn[s] /\ ~logOn[s] => Begins(logged, shown) \/ Begins(shown, logged)
  BY <1>0, <1>1, <1>3 DEF SetsOf
<1>5. CASE logOn[s] /\ loggedNext = logged \cup now
  <2>1. Begins(shown, shown)
    BY BeginsItself
  <2> QED BY <1>4, <1>5, <2>1
<1>6. CASE ~logOn'[s] /\ loggedNext = logged
  <2>1. logOn[s] => Begins(logged, shown) \/ Begins(shown, logged)
    <3> SUFFICES ASSUME logOn[s] PROVE Begins(logged, shown) \/ Begins(shown, logged)
      OBVIOUS
    <3>1. CASE ~half[s]
      <4>1. now = {}
        BY <1>1, <3>1, LoggedSets
      <4>2. logged \cup now = logged /\ Begins(shown, shown)
        BY <4>1, BeginsItself
      <4> QED BY <1>4, <4>2
    <3>2. CASE half[s]
      <4>1. now = {row} /\ row.seq = seq[s]
        BY <1>1, <3>2, LoggedSets, LoggedFacts
      <4>2. \A a \in logged : a.seq \in Nat /\ a.seq < row.seq
        BY <1>0, <1>1, <3>2, <4>1, EventNumbers
      <4>3. row.seq \in Nat
        BY <4>1 DEF TypeOK
      <4>4. Begins(shown, logged \cup {row}) \/ shown = logged \cup {row}
            \/ Begins(logged, shown)
        BY <1>4, <4>1
      <4> QED BY <4>2, <4>3, <4>4, BeginsLess
    <3> QED BY <3>1, <3>2
  <2>2. streamOn[s] => Begins(logged, shown)
    <3> SUFFICES ASSUME streamOn[s] PROVE Begins(logged, shown)
      OBVIOUS
    <3>1. CASE ~logOn[s]
      BY <1>4, <3>1
    <3>2. CASE logOn[s] /\ ~half[s]
      <4>1. now = {}
        BY <1>1, <3>2, LoggedSets
      <4>2. logged = shown /\ Begins(shown, shown)
        BY <1>4, <3>2, <4>1, BeginsItself
      <4> QED BY <4>2
    <3>3. CASE logOn[s] /\ half[s]
      <4>1. now = {row} /\ row.seq = seq[s]
        BY <1>1, <3>3, LoggedSets, LoggedFacts
      <4>2. row.seq \in Nat /\ \A a \in logged : a.seq \in Nat /\ a.seq < row.seq
        BY <1>0, <1>1, <3>3, <4>1, EventNumbers DEF TypeOK
      <4>3. shown = logged \cup {row}
        BY <1>4, <3>3, <4>1
      <4> QED BY <4>2, <4>3, BeginsLess
    <3> QED BY <3>1, <3>2, <3>3
  <2> QED BY <1>4, <1>6, <2>1, <2>2
<1> QED BY <1>2, <1>5, <1>6

LEMMA LoggedKeepsNumbers ==
  ASSUME TypeOK, TypeOK', NEW s \in Sessions, RowsOf(s), NEW row, Logged(s, row)
  PROVE  NumbersOf(s)'
<1>0. /\ NumbersOf(s) /\ pruned'[s] = pruned[s] /\ mode'[s] = mode[s] /\ seq'[s] = seq[s]
      /\ seq[s] \in Nat
  BY DEF RowsOf, Logged, TypeOK
<1>1. PICK logged, now, loggedNext :
        /\ logged = Events(file[s]) /\ now = Pending(s) /\ loggedNext = Events(file[s])'
  OBVIOUS
<1>2. /\ Pending(s)' = {}
      /\ \/ logOn[s] /\ loggedNext = logged \cup now
         \/ ~logOn'[s] /\ loggedNext = logged
  BY <1>1, LoggedSets
<1>3. SUFFICES ASSUME ~pruned[s], mode[s].events # "tokens"
      PROVE  /\ Closing(loggedNext)
             /\ logOn'[s] => \A n \in 1..seq[s] : \E r \in loggedNext : r.seq = n
  <2>1. \A set : set \cup {} = set
    OBVIOUS
  <2>2. Closing(Events(file[s]))' <=> Closing(loggedNext)
    BY <1>1 DEF Closing
  <2> QED BY <1>0, <1>1, <1>2, <2>1, <2>2 DEF NumbersOf
<1>4. /\ Closing(logged)
      /\ logOn[s] => \A n \in 1..seq[s] : \E r \in logged \cup now : r.seq = n
  BY <1>0, <1>1, <1>3 DEF NumbersOf
<1>5. CASE ~logOn'[s] /\ loggedNext = logged
  BY <1>4, <1>5
<1>6. CASE logOn[s] /\ loggedNext = logged \cup now
  <2>1. \A r \in now : r.seq = seq[s] /\ seq[s] > 0
    BY <1>1, LoggedSets, LoggedFacts
  <2>2. ASSUME NEW r \in logged \cup now
        PROVE  r.seq = 1 \/ \E q \in logged \cup now : q.seq = r.seq - 1
    <3>1. CASE r \in logged
      BY <1>4, <3>1 DEF Closing
    <3>2. CASE r \in now
      <4>1. r.seq = 1 \/ r.seq - 1 \in 1..seq[s]
        BY <1>0, <2>1, <3>2
      <4> QED BY <1>4, <1>6, <4>1
    <3> QED BY <2>2, <3>1, <3>2
  <2>3. Closing(loggedNext)
    BY <1>6, <2>2 DEF Closing
  <2> QED BY <1>4, <1>6, <2>3
<1> QED BY <1>2, <1>5, <1>6

LEMMA LoggedKeeps ==
  ASSUME TypeOK, TypeOK', NEW s \in Sessions, RowsOf(s), NEW row, Logged(s, row)
  PROVE  RowsOf(s)'
BY LoggedKeepsQueue, LoggedKeepsClosed, LoggedKeepsTurns, LoggedKeepsStory, LoggedKeepsSets,
   LoggedKeepsNumbers DEF RowsOf

(* Retention: the files of other Sessions may go, its own stays.           *)
Retires(s) ==
  /\ pc[s] \in {"finish", "prune"} /\ pc'[s] \in {"prune", "done"} /\ todo[s] = <<>> /\ todo'[s] = <<>>
  /\ mode'[s] = mode[s] /\ turn'[s] = turn[s] /\ attempt'[s] = attempt[s]
  /\ result'[s] = result[s] /\ half'[s] = half[s] /\ seq'[s] = seq[s]
  /\ stream'[s] = stream[s] /\ streamOn'[s] = streamOn[s] /\ logOn'[s] = logOn[s]
  /\ SameLog(s)

LEMMA RetiresKeeps ==
  ASSUME NEW s \in Sessions, RowsOf(s), Retires(s)
  PROVE  RowsOf(s)'
<1>0. DOMAIN <<>> = {}
  OBVIOUS
<1>1. QueueOf(s)'
  <2>1. QueueOf(s)
    BY DEF RowsOf
  <2> QED BY <1>0, <2>1 DEF QueueOf, Retires, Before
<1>2. /\ Pending(s)' = Pending(s) /\ ~QueuedTurn(s)' /\ ~Retrying(s)' /\ ~LeftTurn(s)'
  <2>1. /\ Pending(s)' = Pending(s)
    BY DEF Retires, Pending
  <2>2. ~QueuedTurn(s)' /\ ~Retrying(s)'
    BY <1>0 DEF Retires, QueuedTurn, Retrying
  <2>3. ~LeftTurn(s)'
    BY DEF Retires, LeftTurn
  <2> QED BY <2>1, <2>2, <2>3
<1>3. FragmentsOf(s)' /\ AttributedOf(s)'
  BY <1>2 DEF RowsOf, FragmentsOf, AttributedOf, Retires
<1>4. ClosedOf(s)'
  <2>1. ClosedOf(s)
    BY DEF RowsOf
  <2>2. pc[s] \in Over /\ pc'[s] \in Over
    BY DEF Retires, Over
  <2>3. Final(stream[s])' = Final(stream[s]) /\ Final(file[s])' = Final(file[s])
    BY DEF Final, Retires, SameLog
  <2> QED BY <2>1, <2>2, <2>3 DEF ClosedOf, Retires, SameLog
<1>5. TurnsOf(s)'
  <2>1. TurnsOf(s)
    BY DEF RowsOf
  <2>2. pc[s] \in Over /\ pc'[s] \in Over /\ pc'[s] \notin OpenTurn
    BY DEF Retires, Over, OpenTurn
  <2>3. \A n : TurnRows(s, n)' = TurnRows(s, n)
    BY DEF TurnRows, Retires, SameLog
  <2> QED BY <1>2, <2>1, <2>2, <2>3 DEF TurnsOf, Retires, SameLog
<1>6. StoryOf(s)'
  BY DEF RowsOf, StoryOf, Retires, SameLog
<1>7. SetsOf(s)' /\ NumbersOf(s)'
  <2>1. Events(file[s])' = Events(file[s]) /\ Events(stream[s])' = Events(stream[s])
    BY DEF Events, Retires, SameLog
  <2> QED BY <1>2, <2>1 DEF RowsOf, SetsOf, NumbersOf, Retires, SameLog
<1> QED BY <1>1, <1>3, <1>4, <1>5, <1>6, <1>7 DEF RowsOf

LEMMA RetentionStep ==
  ASSUME TypeOK, NEW s \in Sessions, Scan(s) \/ Pruned(s) \/ Evict(s)
  PROVE  /\ \A x \in Sessions \ {s} : Same(x) /\ (SameLog(x) \/ Gone(x))
         /\ (Same(s) /\ SameLog(s)) \/ Retires(s)
<1>1. CASE Scan(s) \/ Pruned(s)
  <2>1. /\ pc[s] \in {"finish", "prune"} /\ todo[s] = <<>>
        /\ \E next \in {"prune", "done"} : Say(s, <<>>, next)
        /\ UNCHANGED <<mode, turn, attempt, result, half, seq, stream, streamOn, logOn, file, pruned>>
    BY <1>1 DEF Scan, Pruned, Fits, At, Idle, loop, outputs, dir
  <2>2. PICK next \in {"prune", "done"} : Say(s, <<>>, next)
    BY <2>1
  <2>3. /\ pc'[s] = next /\ todo'[s] = <<>>
        /\ \A x \in Sessions \ {s} : pc'[x] = pc[x] /\ todo'[x] = todo[x]
    BY <2>2 DEF Say, TypeOK
  <2>4. \A x \in Sessions : SameLog(x)
    BY <2>1 DEF SameLog
  <2>5. Retires(s)
    BY <2>1, <2>2, <2>3, <2>4 DEF Retires
  <2>6. \A x \in Sessions \ {s} : Same(x)
    BY <2>1, <2>3 DEF Same
  <2> QED BY <2>4, <2>5, <2>6
<1>2. CASE Evict(s)
  <2>1. /\ UNCHANGED <<mode, pc, turn, attempt, result, todo, half, seq, stream, streamOn, logOn>>
        /\ \/ UNCHANGED <<file, pruned>>
           \/ \E v : /\ v # s /\ file' = [file EXCEPT ![v] = <<>>]
                     /\ pruned' = [pruned EXCEPT ![v] = TRUE]
    BY <1>2 DEF Evict, loop, outputs, Spared
  <2>2. \A x \in Sessions : Same(x)
    BY <2>1 DEF Same
  <2>3. CASE UNCHANGED <<file, pruned>>
    <3>1. \A x \in Sessions : SameLog(x)
      BY <2>3 DEF SameLog
    <3> QED BY <2>2, <3>1
  <2>4. ASSUME NEW v, v # s, file' = [file EXCEPT ![v] = <<>>], pruned' = [pruned EXCEPT ![v] = TRUE]
        PROVE  /\ SameLog(s)
               /\ \A x \in Sessions \ {s} : SameLog(x) \/ Gone(x)
    <3>1. file'[s] = file[s] /\ pruned'[s] = pruned[s]
      BY <2>4 DEF TypeOK
    <3>2. ASSUME NEW x \in Sessions, x # v PROVE SameLog(x)
      BY <2>4, <3>2 DEF SameLog, TypeOK
    <3>3. v \in Sessions => Gone(v)
      BY <2>4 DEF Gone, TypeOK
    <3> QED BY <3>1, <3>2, <3>3 DEF SameLog
  <2> QED BY <2>1, <2>2, <2>3, <2>4
<1> QED BY <1>1, <1>2

LEMMA RowsStep ==
  ASSUME RowsInv, [Next]_vars
  PROVE  RowsInv'
<1>0. TypeOK /\ TypeOK' /\ \A x \in Sessions : RowsOf(x)
  <2>1. TypeOK
    BY DEF RowsInv
  <2> QED BY <2>1, StepType DEF RowsInv
<1> SUFFICES ASSUME NEW x \in Sessions PROVE RowsOf(x)'
  BY <1>0 DEF RowsInv
<1>1. CASE UNCHANGED vars
  <2>1. Same(x) /\ SameLog(x)
    BY <1>1 DEF vars, loop, outputs, dir, Same, SameLog
  <2> QED BY <1>0, <2>1, SameKeeps
<1>2. ASSUME NEW s \in Sessions, Run(s) \/ Loop(s) \/ Interrupt(s) PROVE RowsOf(x)'
  <2>1. Local(s)
    BY <1>0, <1>2, LocalStep
  <2>2. Moves(s)
    BY <1>0, <1>2, MoveSetup, MoveTurn
  <2>3. CASE x = s
    BY <1>0, <2>1, <2>2, <2>3, MovesKeep
  <2>4. CASE x # s
    <3>1. Same(x) /\ SameLog(x)
      BY <2>1, <2>4 DEF Local, SameLog
    <3> QED BY <1>0, <3>1, SameKeeps
  <2> QED BY <2>3, <2>4
<1>3. ASSUME NEW s \in Sessions, Emit(s) PROVE RowsOf(x)'
  <2>1. PICK row : Emitted(s, row)
    BY <1>0, <1>3, EmitStep
  <2>2. CASE x = s
    BY <1>0, <2>1, <2>2, EmittedKeeps
  <2>3. CASE x # s
    <3>1. Same(x) /\ SameLog(x)
      BY <1>0, <1>3, <2>3, EmitStep
    <3> QED BY <1>0, <3>1, SameKeeps
  <2> QED BY <2>2, <2>3
<1>4. ASSUME NEW s \in Sessions, Log(s) PROVE RowsOf(x)'
  <2>1. PICK row : Logged(s, row)
    BY <1>0, <1>4, LogStep
  <2>2. CASE x = s
    BY <1>0, <2>1, <2>2, LoggedKeeps
  <2>3. CASE x # s
    <3>1. Same(x) /\ SameLog(x)
      BY <1>0, <1>4, <2>3, LogStep
    <3> QED BY <1>0, <3>1, SameKeeps
  <2> QED BY <2>2, <2>3
<1>5. ASSUME NEW s \in Sessions, Scan(s) \/ Pruned(s) \/ Evict(s) PROVE RowsOf(x)'
  <2>1. Retires(x) \/ (Same(x) /\ (SameLog(x) \/ Gone(x)))
    BY <1>0, <1>5, RetentionStep
  <2>2. CASE Retires(x)
    BY <1>0, <2>2, RetiresKeeps
  <2>3. CASE Same(x) /\ (SameLog(x) \/ Gone(x))
    BY <1>0, <2>3, SameKeeps
  <2> QED BY <2>1, <2>2, <2>3
<1> QED BY <1>1, <1>2, <1>3, <1>4, <1>5 DEF Next

LEMMA RowsInit == Init => RowsInv
<1> SUFFICES ASSUME Init, NEW s \in Sessions PROVE RowsOf(s)
  BY InitType DEF RowsInv
<1>0. /\ pc[s] \in {"open", "done"} /\ turn[s] = 0 /\ todo[s] = <<>> /\ ~half[s] /\ seq[s] = 0
      /\ stream[s] = <<>> /\ ~streamOn[s] /\ ~logOn[s] /\ ~pruned[s] /\ result[s] = "ok"
      /\ file[s] = <<>> \/ (file[s] = <<NewRow("header", 0)>> /\ pc[s] = "done")
  BY DEF Init
<1>1. DOMAIN <<>> = {} /\ Len(<<>>) = 0
  OBVIOUS
<1>2. \A i \in DOMAIN file[s] : /\ file[s][i].kind = "header" /\ file[s][i].turn = 0
                                /\ file[s][i].says = ""
  <2>1. CASE file[s] = <<>>
    BY <1>1, <2>1
  <2>2. CASE file[s] = <<NewRow("header", 0)>>
    <3>1. PICK h : h = NewRow("header", 0)
      OBVIOUS
    <3>2. h.kind = "header" /\ h.turn = 0 /\ h.says = ""
      BY <3>1 DEF NewRow
    <3>3. DOMAIN <<h>> = {1} /\ <<h>>[1] = h
      OBVIOUS
    <3> QED BY <2>2, <3>1, <3>2, <3>3
  <2> QED BY <1>0, <2>1, <2>2
<1>3. \A i \in DOMAIN file[s] : /\ file[s][i].kind \notin Stored \cup {"turn", "turn.started"}
                                /\ file[s][i].says \notin Exits /\ file[s][i].turn <= turn[s]
  <2>1. "header" \notin Stored \cup {"turn", "turn.started"} /\ "" \notin Exits
    BY DEF Stored, Exits
  <2>2. 0 <= turn[s]
    BY <1>0
  <2> QED BY <1>2, <2>1, <2>2
<1>4. QueueOf(s)
  <2>1. pc[s] \in Before => file[s] = <<>>
    BY <1>0 DEF Before
  <2> QED BY <1>0, <1>1, <2>1 DEF QueueOf
<1>5. FragmentsOf(s) /\ AttributedOf(s)
  BY <1>0, <1>1 DEF FragmentsOf, AttributedOf
<1>6. ClosedOf(s)
  <2>1. Final(stream[s]) = {} /\ Final(file[s]) = {}
    BY <1>0, <1>1, <1>2 DEF Final
  <2> QED BY <1>0, <2>1 DEF ClosedOf
<1>7. TurnsOf(s)
  <2>1. \A n : TurnRows(s, n) = {}
    BY <1>3 DEF TurnRows
  <2> QED BY <1>0, <1>3, <2>1 DEF TurnsOf
<1>8. StoryOf(s)
  BY <1>0, <1>1, <1>3 DEF StoryOf
<1>9. Events(file[s]) = {} /\ Events(stream[s]) = {}
  BY <1>0, <1>1, <1>3 DEF Events
<1>10. SetsOf(s) /\ NumbersOf(s)
  BY <1>0, <1>9 DEF SetsOf, NumbersOf, Begins, Closing
<1> QED BY <1>4, <1>5, <1>6, <1>7, <1>8, <1>10 DEF RowsOf

LEMMA RowsAlways == Spec => []RowsInv
BY RowsInit, RowsStep, PTL DEF Spec

(* A reader of the stream that drops, at each retry, the fragments of the  *)
(* attempts up to its number keeps those of the last attempt and no other: *)
(* a retry and the fragments around it are written in the order in which   *)
(* the attempts were made, however many there are of either.               *)
THEOREM FragmentsAreAttributed == Spec => []FragmentsAttributed
<1>1. RowsInv => FragmentsAttributed
  BY DEF RowsInv, RowsOf, AttributedOf, FragmentsAttributed
<1> QED BY <1>1, RowsAlways, PTL

(* Each output ends with the exit's Event, which names the exit the        *)
(* Session returned, and has it if the output still works at the end.      *)
THEOREM OutputsAreClosed == Spec => []ClosedByTheExit
<1>1. RowsInv => ClosedByTheExit
  <2> SUFFICES ASSUME RowsInv, NEW s \in Sessions
               PROVE  /\ \A rows \in {stream[s], file[s]} : \A i \in DOMAIN rows :
                           rows[i].kind = "session.finished" => i = Len(rows) /\ rows[i].says = result[s]
                      /\ pc[s] \in {"prune", "done"} =>
                           /\ streamOn[s] => stream[s] # <<>> /\ Last(stream[s]).kind = "session.finished"
                           /\ logOn[s] /\ ~pruned[s] =>
                                file[s] # <<>> /\ Last(file[s]).kind = "session.finished"
    BY DEF ClosedByTheExit
  <2>1. ClosedOf(s) /\ QueueOf(s)
    BY DEF RowsInv, RowsOf
  <2>2. \A rows \in {stream[s], file[s]} : \A i \in Final(rows) :
          i = Len(rows) /\ rows[i].says = result[s]
    BY <2>1 DEF ClosedOf
  <2>3. \A rows \in {stream[s], file[s]} :
          Final(rows) # {} => rows # <<>> /\ Last(rows).kind = "session.finished"
    <3> SUFFICES ASSUME NEW rows \in {stream[s], file[s]}, NEW i \in Final(rows)
                 PROVE  rows # <<>> /\ Last(rows).kind = "session.finished"
      OBVIOUS
    <3>1. i \in DOMAIN rows /\ i = Len(rows) /\ rows[i].kind = "session.finished"
      BY <2>2 DEF Final
    <3>2. DOMAIN <<>> = {}
      OBVIOUS
    <3> QED BY <3>1, <3>2 DEF Last
  <2>4. pc[s] \in {"prune", "done"} => pc[s] \in Over /\ todo[s] = <<>>
    BY <2>1 DEF QueueOf, Over
  <2>5. pc[s] \in {"prune", "done"} =>
          /\ streamOn[s] => Final(stream[s]) # {}
          /\ logOn[s] /\ ~pruned[s] => Final(file[s]) # {}
    BY <2>1, <2>4 DEF ClosedOf
  <2>6. \A rows \in {stream[s], file[s]} : \A i \in DOMAIN rows :
          rows[i].kind = "session.finished" => i = Len(rows) /\ rows[i].says = result[s]
    BY <2>2 DEF Final
  <2> QED BY <2>3, <2>5, <2>6
<1> QED BY <1>1, RowsAlways, PTL

(* A log that names a Turn has exactly one row for each Turn before it,    *)
(* above the name, and one that names an exit which follows a whole Turn   *)
(* has the row of that Turn, with the Synthesis if there is one: whichever *)
(* row the disk refuses, nothing after it is written.                      *)
THEOREM TurnsAreRecorded == Spec => []TurnsRecorded
<1>1. RowsInv => TurnsRecorded
  <2> SUFFICES ASSUME RowsInv, NEW s \in Sessions, ~pruned[s], NEW j \in DOMAIN file[s]
               PROVE  /\ file[s][j].kind = "turn.started" =>
                           /\ \A n \in 1..file[s][j].turn - 1 : Cardinality(TurnRows(s, n)) = 1
                           /\ \A n \in 1..file[s][j].turn - 1 : \A i \in TurnRows(s, n) : i < j
                      /\ file[s][j].says \in Exits =>
                           /\ Cardinality(TurnRows(s, turn[s])) = 1
                           /\ file[s][j].says \in Answered =>
                                \A i \in TurnRows(s, turn[s]) : file[s][i].says = "synthesis"
    BY DEF TurnsRecorded, TurnRows, Exits, Answered
  <2>1. TurnsOf(s) /\ turn[s] \in Nat /\ file[s] \in Seq(Row)
    BY DEF RowsInv, RowsOf, TypeOK
  <2>2. file[s][j].turn \in Nat
    <3>1. file[s][j] \in Row
      BY <2>1
    <3> QED BY <3>1 DEF Row
  <2>3. ASSUME NEW n \in Nat, TurnRows(s, n) # {}
        PROVE  Cardinality(TurnRows(s, n)) = 1
    <3>1. PICK i : i \in TurnRows(s, n)
      BY <2>3
    <3>2. TurnRows(s, n) = {i}
      BY <2>1, <2>3, <3>1 DEF TurnsOf
    <3> QED BY <3>2, FS_Singleton
  <2>4. ASSUME file[s][j].kind = "turn.started", NEW n \in 1..file[s][j].turn - 1
        PROVE  Cardinality(TurnRows(s, n)) = 1 /\ \A i \in TurnRows(s, n) : i < j
    <3>1. n \in Nat
      BY <2>2, <2>4
    <3>2. PICK i \in TurnRows(s, n) : i < j
      BY <2>1, <2>4 DEF TurnsOf
    <3>3. \A k \in TurnRows(s, n) : k = i
      BY <2>1, <3>1 DEF TurnsOf
    <3> QED BY <2>3, <3>1, <3>2, <3>3
  <2>5. ASSUME file[s][j].says \in Exits
        PROVE  /\ Cardinality(TurnRows(s, turn[s])) = 1
               /\ file[s][j].says \in Answered =>
                    \A i \in TurnRows(s, turn[s]) : file[s][i].says = "synthesis"
    <3>1. TurnRows(s, turn[s]) # {} /\ pc[s] \in Over /\ file[s][j].says = result[s]
      BY <2>1, <2>5 DEF TurnsOf
    <3> QED BY <2>1, <2>3, <3>1 DEF TurnsOf
  <2> QED BY <2>4, <2>5
<1> QED BY <1>1, RowsAlways, PTL

(* The stream and the log tell one story: the Events of one are those of   *)
(* the other up to its last, they differ by the Event being written while  *)
(* both work, the stream's are numbered by their place, the log's grow     *)
(* and leave out nothing but fragments, whichever output fails first and   *)
(* at whichever row.                                                       *)
THEOREM OneStoryIsTold == Spec => []OneStory
<1>1. RowsInv => SameEvents
  <2> SUFFICES ASSUME RowsInv, NEW s \in Sessions, ~pruned[s]
               PROVE  LET logged == Events(file[s])
                          shown == Events(stream[s])
                      IN /\ Begins(logged, shown) \/ Begins(shown, logged)
                         /\ streamOn[s] /\ logOn[s] => logged \cup Pending(s) = shown
    BY DEF SameEvents
  <2>0. TypeOK /\ SetsOf(s) /\ StoryOf(s) /\ QueueOf(s) /\ seq[s] \in Nat
    BY DEF RowsInv, RowsOf, TypeOK
  <2>1. PICK logged, shown, now :
          logged = Events(file[s]) /\ shown = Events(stream[s]) /\ now = Pending(s)
    OBVIOUS
  <2>2. /\ streamOn[s] /\ logOn[s] => logged \cup now = shown
        /\ streamOn[s] /\ ~logOn[s] => Begins(logged, shown)
        /\ ~streamOn[s] /\ logOn[s] => Begins(shown, logged \cup now)
        /\ ~streamOn[s] /\ ~logOn[s] => Begins(logged, shown) \/ Begins(shown, logged)
    BY <2>0, <2>1 DEF SetsOf
  <2>3. logOn[s] => Begins(logged, shown) \/ Begins(shown, logged)
    <3>1. CASE ~half[s]
      <4>1. logged \cup now = logged /\ Begins(logged, logged)
        BY <2>1, <3>1, BeginsItself DEF Pending
      <4> QED BY <2>2, <4>1
    <3>2. CASE half[s]
      <4>1. PICK row : row = todo[s][1]
        OBVIOUS
      <4>2. now = {row} /\ row.seq = seq[s]
        BY <2>0, <2>1, <3>2, <4>1 DEF Pending, QueueOf
      <4>3. row.seq \in Nat /\ \A a \in logged : a.seq \in Nat /\ a.seq < row.seq
        BY <2>0, <2>1, <3>2, <4>2, EventNumbers
      <4> QED BY <2>2, <4>2, <4>3, BeginsLess
    <3> QED BY <3>1, <3>2
  <2> QED BY <2>1, <2>2, <2>3
<1>2. RowsInv => NoGap
  <2> SUFFICES ASSUME RowsInv, NEW s \in Sessions
               PROVE  /\ \A i \in DOMAIN stream[s] : stream[s][i].seq = i
                      /\ \A i, j \in DOMAIN file[s] :
                           i < j /\ file[s][i].kind \in Stored /\ file[s][j].kind \in Stored =>
                             file[s][i].seq < file[s][j].seq
                      /\ mode[s].events # "tokens" /\ ~pruned[s] => Closing(Events(file[s]))
    BY DEF NoGap, Closing
  <2>1. StoryOf(s) /\ NumbersOf(s)
    BY DEF RowsInv, RowsOf
  <2> QED BY <2>1 DEF StoryOf, NumbersOf
<1>3. RowsInv => OneStory
  BY <1>1, <1>2 DEF OneStory
<1> QED BY <1>3, RowsAlways, PTL
=============================================================================
