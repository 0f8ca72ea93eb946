------------------------------- MODULE Session -------------------------------
(***************************************************************************)
(* What Sessions leave behind: the Event stream of --events and the        *)
(* Session log (src/src/research/events.rs, session.rs), written around    *)
(* the agent loop (run.rs, runner.rs), and the data directory the          *)
(* Sessions of one machine share and prune (data_dir.rs).                  *)
(*                                                                         *)
(* Code that runs without waiting queues the rows it emits in todo; each   *)
(* row then reaches the stream and the log in two steps, for another       *)
(* process or a failing disk to come between.  A Session may stop at any   *)
(* step, which is what a kill does.                                        *)
(***************************************************************************)
EXTENDS Integers, SequencesExt

CONSTANTS
  Sessions,     \* processes, one Session each
  Old,          \* those killed before, of which a header is left
  Modes,        \* the command lines and disks of each: see Mode
  Cap,          \* SESSION_MAX_BYTES, in rows
  Turns,        \* bound on the Turns of each
  MaxAttempts,  \* bound on the attempts of a model call
  MaxFragments, \* bound on the fragments of an attempt
  MaxCalls      \* max_tools_per_turn, at least 1

Mode == [explicit : BOOLEAN,                     \* --session-out
         events : {"off", "normal", "tokens"},   \* --events, --events-detail
         trace : BOOLEAN,                        \* --trace
         faulty : SUBSET {"stream", "log"}]      \* outputs whose writes may fail

ASSUME SessionAssumption ==
  /\ Old \subseteq Sessions /\ IsFiniteSet(Old)
  /\ Modes \in [Sessions -> SUBSET Mode]
  /\ \A s \in Old : \A m \in Modes[s] : ~m.explicit
  /\ Cap \in Nat /\ Turns \in [Sessions -> Nat]
  /\ MaxAttempts \in Nat /\ MaxFragments \in Nat /\ MaxCalls \in Nat \ {0}

VARIABLES
  mode,
  pc, turn, attempt, calls, failed, \* where the loop is; failed calls of the Turn
  result,             \* what the Session will return
  fragments,          \* those of this attempt, bounded
  todo,               \* rows emitted and not yet written
  half,               \* the first of them is in the stream, not in the log
  seq,
  stream, streamOn,   \* ndjson: what was written, and whether it still is
  logOn, failure,     \* SessionSink: path is Some, failure is Some
  file, recent,       \* the log of each; default ones, the oldest write first
  scan, total,        \* prune_sessions: files still to visit, bytes in sight
  pruned              \* history: the log was removed while or after it was written

loop == <<turn, attempt, calls, failed, fragments>>
outputs == <<half, seq, stream, streamOn, logOn, failure>>
dir == <<file, recent, scan, total, pruned>>
vars == <<mode, pc, loop, result, todo, outputs, dir>>

-----------------------------------------------------------------------------
Stored == {"session.started", "turn.started", "context.truncated", "model.retry",
           "model.replied", "call.started", "call.finished", "tool.failed",
           "answer.verified", "session.finished"}
Event == Stored \cup {"model.delta"}
Kind == Event \cup {"header", "turn", "trace"}

(* Classes of exits: gave_up follows a whole Turn (exits 4, 5 and 9),      *)
(* cut_short a failed model call or the deadline (3, 8 and 9).             *)
Outcome == {"ok", "search_blocked", "gave_up", "cut_short", "not_configured",
            "session_io", "interrupted"}

Row == [kind : Kind, turn : Nat, seq : Nat, attempt : Nat,
        says : Outcome \cup {"", "synthesis"}]

NewRow(kind, n) == [kind |-> kind, turn |-> n, seq |-> 0, attempt |-> 0, says |-> ""]

PC == {"open", "check", "attach", "turn", "model", "reply", "dispatch", "tool",
       "settle", "finish", "prune", "done"}

Idle(s) == todo[s] = <<>>

At(s, here) == pc[s] = here /\ Idle(s)

(* Emit rows and go on at next. *)
Say(s, rows, next) ==
  /\ todo' = [todo EXCEPT ![s] = rows]
  /\ pc' = [pc EXCEPT ![s] = next]

(* Emit rows and leave the Session body with a result. *)
Leave(s, rows, outcome) ==
  /\ Say(s, rows, "settle")
  /\ result' = [result EXCEPT ![s] = outcome]

Traced(s) == IF mode[s].trace THEN <<NewRow("trace", turn[s])>> ELSE <<>>

TurnRow(s, says) == [NewRow("turn", turn[s]) EXCEPT !.says = says]

Init ==
  /\ mode \in [Sessions -> Mode] /\ \A s \in Sessions : mode[s] \in Modes[s]
  /\ pc = [s \in Sessions |-> IF s \in Old THEN "done" ELSE "open"]
  /\ turn = [s \in Sessions |-> 0] /\ attempt = [s \in Sessions |-> 0]
  /\ calls = [s \in Sessions |-> 0] /\ failed = [s \in Sessions |-> 0]
  /\ fragments = [s \in Sessions |-> 0]
  /\ result = [s \in Sessions |-> "ok"]
  /\ todo = [s \in Sessions |-> <<>>] /\ half = [s \in Sessions |-> FALSE]
  /\ seq = [s \in Sessions |-> 0]
  /\ stream = [s \in Sessions |-> <<>>]
  /\ streamOn = [s \in Sessions |-> FALSE]
  /\ logOn = [s \in Sessions |-> FALSE] /\ failure = [s \in Sessions |-> FALSE]
  /\ file = [s \in Sessions |-> IF s \in Old THEN <<NewRow("header", 0)>> ELSE <<>>]
  /\ recent \in [1..Cardinality(Old) -> Old]
  /\ \A i, j \in DOMAIN recent : recent[i] = recent[j] => i = j
  /\ scan = [s \in Sessions |-> <<>>] /\ total = [s \in Sessions |-> 0]
  /\ pruned = [s \in Sessions |-> FALSE]

-----------------------------------------------------------------------------
(* The Session around the loop (run.rs). *)

(* An invalid --session-id, or an --events path that cannot be opened. *)
Refuse(s) ==
  /\ At(s, "open")
  /\ Say(s, <<>>, "done")
  /\ result' = [result EXCEPT ![s] = "not_configured"]
  /\ UNCHANGED <<mode, loop, outputs, dir>>

Open(s) ==
  /\ At(s, "open")
  /\ Say(s, <<>>, "check")
  /\ streamOn' = [streamOn EXCEPT ![s] = mode[s].events # "off"]
  /\ UNCHANGED <<mode, loop, result, half, seq, stream, logOn, failure, dir>>

Misconfigured(s) ==
  /\ At(s, "check")
  /\ Leave(s, <<>>, "not_configured")
  /\ UNCHANGED <<mode, loop, outputs, dir>>

(* The sink is there before its header; without a data root it is off. *)
Attach(s) ==
  /\ At(s, "check")
  /\ Say(s, <<NewRow("header", 0)>>, "attach")
  /\ \E on \in BOOLEAN :
       /\ mode[s].explicit => on
       /\ logOn' = [logOn EXCEPT ![s] = on]
  /\ UNCHANGED <<mode, loop, result, half, seq, stream, streamOn, failure, dir>>

Started(s) ==
  /\ At(s, "attach")
  /\ IF failure[s] THEN Leave(s, <<>>, "session_io")
     ELSE Say(s, <<NewRow("session.started", 0)>>, "turn") /\ UNCHANGED result
  /\ UNCHANGED <<mode, loop, outputs, dir>>

(* Mutant: the log is looked at after the last Event only. *)
MutOutcome(s) == result[s]

(* A Session that succeeded fails for a log that did not. *)
OutcomeOf(s) == IF result[s] = "ok" /\ failure[s] THEN "session_io" ELSE result[s]

(* Mutant: the Event is emitted before the log is looked at. *)
MutFinish(s) ==
  /\ At(s, "settle")
  /\ result' = [result EXCEPT ![s] = OutcomeOf(s)]
  /\ Say(s, <<[NewRow("session.finished", 0) EXCEPT !.says = result[s]]>>, "finish")
  /\ UNCHANGED <<mode, loop, outputs, dir>>

(* session_finished, from the one place every exit passes. *)
Finish(s) ==
  /\ At(s, "settle")
  /\ result' = [result EXCEPT ![s] = OutcomeOf(s)]
  /\ Say(s, <<[NewRow("session.finished", 0) EXCEPT !.says = OutcomeOf(s)]>>, "finish")
  /\ UNCHANGED <<mode, loop, outputs, dir>>

(* ctrl_c, seen while the Session waits. *)
Interrupt(s) ==
  /\ At(s, "model") \/ At(s, "tool")
  /\ Leave(s, <<>>, "interrupted")
  /\ UNCHANGED <<mode, loop, outputs, dir>>

-----------------------------------------------------------------------------
(* The loop (runner.rs, dispatch.rs): what it emits.  When it ends, and    *)
(* how, is AgentLoop's subject; here any exit may follow at its place.     *)

OutOfTime(s) ==
  /\ At(s, "turn")
  /\ Leave(s, <<>>, "cut_short")
  /\ UNCHANGED <<mode, loop, outputs, dir>>

StartTurn(s) ==
  /\ At(s, "turn") /\ turn[s] < Turns[s]
  /\ turn' = [turn EXCEPT ![s] = @ + 1]
  /\ attempt' = [attempt EXCEPT ![s] = 1]
  /\ fragments' = [fragments EXCEPT ![s] = 0]
  /\ \E rest \in {<<>>, <<NewRow("context.truncated", turn[s] + 1)>>} :
       /\ turn[s] = 0 => rest = <<>>
       /\ Say(s, <<NewRow("turn.started", turn[s] + 1)>> \o rest, "model")
  /\ UNCHANGED <<mode, calls, failed, result, outputs, dir>>

(* A fragment is an Event only with --events-detail tokens. *)
Fragment(s) ==
  /\ At(s, "model") /\ mode[s].events = "tokens" /\ fragments[s] < MaxFragments
  /\ fragments' = [fragments EXCEPT ![s] = @ + 1]
  /\ Say(s, <<[NewRow("model.delta", turn[s]) EXCEPT !.attempt = attempt[s]]>>, "model")
  /\ UNCHANGED <<mode, turn, attempt, calls, failed, result, outputs, dir>>

(* Mutant: later fragments keep the number of the failed attempt. *)
MutRetry(s) ==
  /\ At(s, "model") /\ attempt[s] < MaxAttempts
  /\ fragments' = [fragments EXCEPT ![s] = 0]
  /\ Say(s, <<[NewRow("model.retry", turn[s]) EXCEPT !.attempt = attempt[s]]>>, "model")
  /\ UNCHANGED <<mode, turn, attempt, calls, failed, result, outputs, dir>>

Retry(s) ==
  /\ At(s, "model") /\ attempt[s] < MaxAttempts
  /\ attempt' = [attempt EXCEPT ![s] = @ + 1]
  /\ fragments' = [fragments EXCEPT ![s] = 0]
  /\ Say(s, <<[NewRow("model.retry", turn[s]) EXCEPT !.attempt = attempt[s]]>>, "model")
  /\ UNCHANGED <<mode, turn, calls, failed, result, outputs, dir>>

ModelFails(s) ==
  /\ At(s, "model")
  /\ Leave(s, Traced(s), "cut_short")
  /\ UNCHANGED <<mode, loop, outputs, dir>>

ModelReplies(s) ==
  /\ At(s, "model")
  /\ Say(s, Traced(s) \o <<NewRow("model.replied", turn[s])>>, "reply")
  /\ UNCHANGED <<mode, loop, result, outputs, dir>>

(* The final Turn's row is run_session's; the wall is found after it. *)
Answer(s) ==
  /\ At(s, "reply")
  /\ \E outcome \in {"ok", "search_blocked"} :
       Leave(s, <<NewRow("answer.verified", turn[s]), TurnRow(s, "synthesis")>>, outcome)
  /\ UNCHANGED <<mode, loop, outputs, dir>>

NoAnswer(s) ==
  /\ At(s, "reply")
  /\ LET rows == <<NewRow("tool.failed", turn[s]), TurnRow(s, "")>> IN
       \/ Say(s, rows, "turn") /\ UNCHANGED result
       \/ Leave(s, rows, "gave_up")
  /\ UNCHANGED <<mode, loop, outputs, dir>>

ToolCalls(s) ==
  /\ At(s, "reply")
  /\ \E n \in 1..MaxCalls : calls' = [calls EXCEPT ![s] = n]
  /\ failed' = [failed EXCEPT ![s] = 0]
  /\ Say(s, <<>>, "dispatch")
  /\ UNCHANGED <<mode, turn, attempt, fragments, result, outputs, dir>>

(* A tool the run does not offer has no Event of its own. *)
Disallowed(s) ==
  /\ At(s, "dispatch") /\ calls[s] > 0
  /\ calls' = [calls EXCEPT ![s] = @ - 1]
  /\ failed' = [failed EXCEPT ![s] = @ + 1]
  /\ UNCHANGED <<mode, pc, turn, attempt, fragments, result, todo, outputs, dir>>

StartTool(s) ==
  /\ At(s, "dispatch") /\ calls[s] > 0
  /\ calls' = [calls EXCEPT ![s] = @ - 1]
  /\ Say(s, <<NewRow("call.started", turn[s])>>, "tool")
  /\ UNCHANGED <<mode, turn, attempt, failed, fragments, result, outputs, dir>>

ToolEnds(s) ==
  /\ At(s, "tool")
  /\ \E more \in {0, 1} : failed' = [failed EXCEPT ![s] = @ + more]
  /\ Say(s, <<NewRow("call.finished", turn[s])>>, "dispatch")
  /\ UNCHANGED <<mode, turn, attempt, calls, fragments, result, outputs, dir>>

(* Mutant: a Turn that ends the run is not recorded. *)
MutSettleTurn(s) ==
  /\ At(s, "dispatch") /\ calls[s] = 0
  /\ LET failures == [i \in 1..failed[s] |-> NewRow("tool.failed", turn[s])] IN
       \/ /\ Say(s, failures \o Traced(s), "turn") /\ UNCHANGED result
       \/ /\ failed[s] > 0
          /\ Leave(s, failures \o <<TurnRow(s, "")>> \o Traced(s), "gave_up")
  /\ UNCHANGED <<mode, loop, outputs, dir>>

SettleTurn(s) ==
  /\ At(s, "dispatch") /\ calls[s] = 0
  /\ LET failures == [i \in 1..failed[s] |-> NewRow("tool.failed", turn[s])]
         rows == failures \o <<TurnRow(s, "")>> \o Traced(s)
     IN \/ Say(s, rows, "turn") /\ UNCHANGED result
        \/ failed[s] > 0 /\ Leave(s, rows, "gave_up")
  /\ UNCHANGED <<mode, loop, outputs, dir>>

-----------------------------------------------------------------------------
(* The outputs (events.rs emit and turn_ended, session.rs append). *)

(* Mutant: an output that failed is tried again with the next row. *)
MutWrites(s, output, rows, row) ==
  {<<Append(rows, row), TRUE>>} \cup
  (IF output \in mode[s].faulty THEN {<<rows, TRUE>>} ELSE {})

(* What a write may leave of the rows, and whether the output stays on. *)
Writes(s, output, rows, row) ==
  {<<Append(rows, row), TRUE>>} \cup
  (IF output \in mode[s].faulty THEN {<<rows, FALSE>>} ELSE {})

(* Mutant: an Event the stream can no longer take gets no number. *)
MutStamp(s) == IF streamOn[s] THEN seq[s] + 1 ELSE seq[s]

Stamp(s) == seq[s] + 1

(* Number the Event and write it to the stream, while that is on.  Only    *)
(* the stream ever sees a fragment.                                        *)
Emit(s) ==
  /\ ~Idle(s) /\ Head(todo[s]).kind \in Event /\ ~half[s]
  /\ seq' = [seq EXCEPT ![s] = Stamp(s)]
  /\ LET row == [Head(todo[s]) EXCEPT !.seq = Stamp(s)] IN
       /\ \E w \in IF streamOn[s] THEN Writes(s, "stream", stream[s], row) ELSE {<<stream[s], FALSE>>} :
            /\ stream' = [stream EXCEPT ![s] = w[1]]
            /\ streamOn' = [streamOn EXCEPT ![s] = w[2]]
       /\ IF row.kind = "model.delta"
          THEN todo' = [todo EXCEPT ![s] = Tail(@)] /\ UNCHANGED half
          ELSE /\ todo' = [todo EXCEPT ![s] = <<row>> \o Tail(@)]
               /\ half' = [half EXCEPT ![s] = TRUE]
  /\ UNCHANGED <<mode, pc, loop, result, logOn, failure, dir>>

(* The default files by their last write, without and after one of s. *)
Without(s) ==
  IF \E i \in DOMAIN recent : recent[i] = s
  THEN RemoveAt(recent, CHOOSE i \in DOMAIN recent : recent[i] = s)
  ELSE recent
Touched(s) == Append(Without(s), s)

(* Append a row, an Event's or another, to the log while it is on.  The    *)
(* first failure ends it, and is kept for an explicit path.                *)
Log(s) ==
  /\ ~Idle(s)
  /\ half[s] \/ Head(todo[s]).kind \notin Event
  /\ \E w \in IF logOn[s] THEN Writes(s, "log", file[s], Head(todo[s])) ELSE {<<file[s], FALSE>>} :
       /\ file' = [file EXCEPT ![s] = w[1]]
       /\ logOn' = [logOn EXCEPT ![s] = w[2]]
       /\ failure' = [failure EXCEPT ![s] = @ \/ (logOn[s] /\ ~w[2] /\ mode[s].explicit)]
       /\ recent' = IF mode[s].explicit \/ w[1] = file[s] THEN recent ELSE Touched(s)
  /\ todo' = [todo EXCEPT ![s] = Tail(@)]
  /\ half' = [half EXCEPT ![s] = FALSE]
  /\ UNCHANGED <<mode, pc, loop, result, seq, stream, streamOn, scan, total, pruned>>

-----------------------------------------------------------------------------
(* Retention (session.rs finish, data_dir.rs prune_sessions). *)

Size(files) ==
  LET upto[i \in 0..Len(files)] == IF i = 0 THEN 0 ELSE upto[i - 1] + Len(file[files[i]])
  IN upto[Len(files)]

(* Only a default path that is still on is pruned. *)
Scan(s) ==
  /\ At(s, "finish")
  /\ IF logOn[s] /\ ~mode[s].explicit
     THEN /\ Say(s, <<>>, "prune")
          /\ scan' = [scan EXCEPT ![s] = [i \in DOMAIN recent |->
                        [who |-> recent[i], len |-> Len(file[recent[i]])]]]
          /\ total' = [total EXCEPT ![s] = Size(recent)]
     ELSE Say(s, <<>>, "done") /\ UNCHANGED <<scan, total>>
  /\ UNCHANGED <<mode, loop, result, outputs, file, recent, pruned>>

(* Mutant: the Session's own file is as good as any. *)
MutSpared(s, v) == FALSE

Spared(s, v) == v = s

Fits(s) == At(s, "prune") /\ (scan[s] = <<>> \/ total[s] <= Cap)

Pruned(s) ==
  /\ Fits(s)
  /\ Say(s, <<>>, "done")
  /\ UNCHANGED <<mode, loop, result, outputs, dir>>

(* Remove the oldest file that was seen.  It may be gone by now, and then  *)
(* its bytes still count.                                                  *)
Evict(s) ==
  /\ At(s, "prune") /\ ~Fits(s)
  /\ scan' = [scan EXCEPT ![s] = Tail(@)]
  /\ LET v == Head(scan[s]).who IN
       \/ /\ ~Spared(s, v) /\ file[v] # <<>>
          /\ file' = [file EXCEPT ![v] = <<>>]
          /\ recent' = Without(v)
          /\ pruned' = [pruned EXCEPT ![v] = TRUE]
          /\ total' = [total EXCEPT ![s] = @ - Head(scan[s]).len]
       \/ /\ Spared(s, v) \/ file[v] = <<>> \/ "log" \in mode[s].faulty
          /\ UNCHANGED <<file, recent, pruned, total>>
  /\ UNCHANGED <<mode, pc, loop, result, todo, outputs>>

-----------------------------------------------------------------------------
Run(s) == Refuse(s) \/ Open(s) \/ Misconfigured(s) \/ Attach(s) \/ Started(s) \/ Finish(s)

Loop(s) ==
  \/ OutOfTime(s) \/ StartTurn(s)
  \/ Fragment(s) \/ Retry(s) \/ ModelFails(s) \/ ModelReplies(s)
  \/ Answer(s) \/ NoAnswer(s) \/ ToolCalls(s)
  \/ Disallowed(s) \/ StartTool(s) \/ ToolEnds(s) \/ SettleTurn(s)

Next ==
  \E s \in Sessions :
    \/ Run(s) \/ Loop(s) \/ Interrupt(s)
    \/ Emit(s) \/ Log(s)
    \/ Scan(s) \/ Pruned(s) \/ Evict(s)

Spec == Init /\ [][Next]_vars

-----------------------------------------------------------------------------
(* Every variable stays in its type; total is a sum over scan. *)
TypeOK ==
  /\ mode \in [Sessions -> Mode]
  /\ pc \in [Sessions -> PC]
  /\ turn \in [Sessions -> Nat] /\ attempt \in [Sessions -> Nat]
  /\ calls \in [Sessions -> 0..MaxCalls] /\ failed \in [Sessions -> Nat]
  /\ fragments \in [Sessions -> Nat]
  /\ result \in [Sessions -> Outcome]
  /\ todo \in [Sessions -> Seq(Row)] /\ half \in [Sessions -> BOOLEAN]
  /\ seq \in [Sessions -> Nat]
  /\ stream \in [Sessions -> Seq(Row)] /\ streamOn \in [Sessions -> BOOLEAN]
  /\ logOn \in [Sessions -> BOOLEAN] /\ failure \in [Sessions -> BOOLEAN]
  /\ file \in [Sessions -> Seq(Row)] /\ recent \in Seq(Sessions)
  /\ scan \in [Sessions -> Seq([who : Sessions, len : Nat])]
  /\ pruned \in [Sessions -> BOOLEAN]

Events(rows) == {rows[i] : i \in {k \in DOMAIN rows : rows[k].kind \in Stored}}

Pending(s) == IF half[s] THEN {todo[s][1]} ELSE {}

(* The Events of one output are those of the other up to its last. *)
Begins(some, all) == some \subseteq all /\ \A a \in some, b \in all \ some : a.seq < b.seq

(* The event rows of the log are the lines --events printed: one begins    *)
(* the other, and they differ by no more than the Event being written      *)
(* while both work.                                                        *)
SameEvents ==
  \A s \in Sessions : mode[s].events # "off" /\ ~pruned[s] =>
    LET logged == Events(file[s])
        shown == Events(stream[s])
    IN /\ Begins(logged, shown) \/ Begins(shown, logged)
       /\ streamOn[s] /\ logOn[s] => logged \cup Pending(s) = shown

(* seq counts the lines of the stream; it only grows along the log, and    *)
(* has no gap there but for fragments.                                     *)
NoGap ==
  \A s \in Sessions :
    /\ \A i \in DOMAIN stream[s] : stream[s][i].seq = i
    /\ \A i, j \in DOMAIN file[s] :
         i < j /\ file[s][i].kind \in Stored /\ file[s][j].kind \in Stored =>
           file[s][i].seq < file[s][j].seq
    /\ mode[s].events # "tokens" /\ ~pruned[s] =>
         \A r \in Events(file[s]) : r.seq = 1 \/ \E q \in Events(file[s]) : q.seq = r.seq - 1

(* The stream and the log tell one story, numbers included, whichever of   *)
(* the two outputs fails first and at whichever row.                       *)
OneStory == SameEvents /\ NoGap

(* A log that names Turn n has one row for each Turn before it, and one    *)
(* that names an exit which follows a whole Turn has the row of that Turn, *)
(* with the Synthesis if there is one.                                     *)
TurnsRecorded ==
  \A s \in Sessions : ~pruned[s] =>
    LET Rows(n) == {i \in DOMAIN file[s] : file[s][i].kind = "turn" /\ file[s][i].turn = n} IN
    \A j \in DOMAIN file[s] :
      LET r == file[s][j] IN
      /\ r.kind = "turn.started" =>
           /\ \A n \in 1..r.turn - 1 : Cardinality(Rows(n)) = 1
           /\ \A n \in 1..r.turn - 1 : \A i \in Rows(n) : i < j
      /\ r.says \in {"ok", "search_blocked", "gave_up"} =>
           /\ Cardinality(Rows(turn[s])) = 1
           /\ r.says \in {"ok", "search_blocked"} =>
                \A i \in Rows(turn[s]) : file[s][i].says = "synthesis"

(* session.finished is the last row of an output and names the exit, and   *)
(* an output that still works when the Session ends has it.                *)
ClosedByTheExit ==
  \A s \in Sessions :
    /\ \A rows \in {stream[s], file[s]} : \A i \in DOMAIN rows :
         rows[i].kind = "session.finished" => i = Len(rows) /\ rows[i].says = result[s]
    /\ pc[s] \in {"prune", "done"} =>
         /\ streamOn[s] => stream[s] # <<>> /\ Last(stream[s]).kind = "session.finished"
         /\ logOn[s] /\ ~pruned[s] => file[s] # <<>> /\ Last(file[s]).kind = "session.finished"

(* An explicit --session-out is a contract: no Turn starts before its      *)
(* header is there, and exit 0 means that it holds the Synthesis.          *)
ExplicitLogKept ==
  \A s \in Sessions : mode[s].explicit =>
    /\ turn[s] > 0 => file[s] # <<>> /\ file[s][1].kind = "header"
    /\ pc[s] = "done" /\ result[s] = "ok" => \E r \in ToSet(file[s]) : r.says = "synthesis"

(* A reader that drops the fragments of attempts up to n at each           *)
(* model.retry n keeps those of the last attempt and no others.            *)
FragmentsAttributed ==
  \A s \in Sessions : \A i, j \in DOMAIN stream[s] :
    LET a == stream[s][i]
        b == stream[s][j]
    IN i < j /\ a.turn = b.turn =>
         /\ a.kind = "model.delta" /\ b.kind = "model.retry" => a.attempt <= b.attempt
         /\ a.kind = "model.retry" /\ b.kind = "model.delta" => a.attempt < b.attempt

(* Rows of an explicit log are never rewritten or removed, and a default   *)
(* one only disappears as a whole, for another Session that was over the   *)
(* cap.                                                                    *)
LogsOnlyGrow ==
  [][\A s \in Sessions :
       \/ IsPrefix(file[s], file'[s])
       \/ /\ ~mode[s].explicit /\ file'[s] = <<>>
          /\ \E x \in Sessions \ {s} : pc[x] = "prune" /\ ~(total[x] <= Cap)]_vars
=============================================================================
