------------------------------- MODULE Gateway -------------------------------
(***************************************************************************)
(* One model call (src/src/llm/client.rs, chat_observed): attempts under a *)
(* per-attempt timeout that never reaches past the run deadline, with      *)
(* backoff between them.  Time counts from the start of the run.           *)
(***************************************************************************)
EXTENDS Integers

CONSTANTS
  RunTime,         \* --deadline-secs, in a unit a quarter of it can be told by
  RequestTimeout,  \* GATEWAY_TIMEOUT_SECS, per attempt
  MaxAttempts,     \* max_attempts, at least one
  Backoff          \* the delays jitter or a Retry-After may ask for

ASSUME GatewayAssumption ==
  /\ RunTime \in Nat \ 0..3
  /\ RequestTimeout \in Nat \ {0}
  /\ MaxAttempts \in Nat \ {0}
  /\ Backoff \subseteq Nat

VARIABLES
  now,
  phase,     \* idle; ready for an attempt, its request on the wire, an error
             \* status read and its body awaited, sleeping; or answered
  attempt,
  timeouts,  \* attempts of this call that timed out
  until,     \* when the attempt is cut, or the backoff ends
  result     \* what the call returned: a reply or the class of its error

gateway == <<phase, attempt, timeouts, until, result>>

AtMost(a, b) == IF a < b THEN a ELSE b

Deadline == RunTime

(* Classes of GatewayError: Timeout, any other retryable one, the rest. *)
Error == {"timeout", "transient", "rejected"}
Result == Error \cup {"none", "reply"}
Waiting == {"wire", "detail", "backoff"}

GatewayType ==
  /\ phase \in Waiting \cup {"idle", "ready", "answered"}
  /\ attempt \in Nat
  /\ timeouts \in Nat
  /\ until \in Nat
  /\ result \in Result

GatewayInit ==
  phase = "idle" /\ attempt = 0 /\ timeouts = 0 /\ until = 0 /\ result = "none"

(* The loop enters a call. *)
Ask ==
  /\ phase' = "ready" /\ attempt' = 1 /\ timeouts' = 0
  /\ result' = "none"
  /\ UNCHANGED until

Return(r) ==
  /\ phase' = "answered" /\ result' = r
  /\ UNCHANGED <<attempt, until>>

(* Mutant: the attempt keeps its whole timeout next to the deadline. *)
MutAttemptEnd == now + RequestTimeout

AttemptEnd == now + AtMost(RequestTimeout, Deadline - now)

SendAttempt ==
  /\ phase = "ready"
  /\ IF now >= Deadline
     THEN Return("timeout") /\ UNCHANGED timeouts
     ELSE /\ phase' = "wire" /\ until' = AttemptEnd
          /\ UNCHANGED <<attempt, timeouts, result>>
  /\ UNCHANGED now

(* A reply, or an error, may come in the very instant the timer fires. *)
Replies ==
  /\ phase = "wire"
  /\ Return("reply")
  /\ UNCHANGED <<now, timeouts>>

(* The failed attempt ends the call, or sleeps before the next one: a      *)
(* second timeout, the last attempt, an error the same request meets       *)
(* again, and a backoff that ends past the deadline all end it.            *)
AttemptFails(error) ==
  LET spent == timeouts + (IF error = "timeout" THEN 1 ELSE 0) IN
  /\ timeouts' = spent
  /\ \E delay \in Backoff :
       IF \/ error = "rejected"
          \/ error = "timeout" /\ spent > 1
          \/ attempt >= MaxAttempts
          \/ Deadline - now <= delay
       THEN Return(error)
       ELSE phase' = "backoff" /\ until' = now + delay /\ UNCHANGED <<attempt, result>>

(* A transport error, a status without a body to wait for, an error in a   *)
(* 2xx body, or a stream that was idle for too long.                       *)
Fails ==
  /\ phase = "wire"
  /\ \E error \in Error : AttemptFails(error)
  /\ UNCHANGED now

(* The status of the error is known; its body is read for the message. *)
ErrorStatus ==
  /\ phase = "wire"
  /\ phase' = "detail"
  /\ UNCHANGED <<now, attempt, timeouts, until, result>>

(* The body, or the cut that ends the wait for it: the status counts. *)
ErrorBody ==
  /\ phase = "detail"
  /\ \E error \in {"transient", "rejected"} : AttemptFails(error)
  /\ UNCHANGED now

AttemptCut ==
  /\ phase = "wire" /\ now >= until
  /\ AttemptFails("timeout")
  /\ UNCHANGED now

(* Mutant: the attempt is not counted. *)
MutNextAttempt ==
  /\ phase = "backoff" /\ now >= until
  /\ phase' = "ready"
  /\ UNCHANGED <<now, attempt, timeouts, until, result>>

NextAttempt ==
  /\ phase = "backoff" /\ now >= until
  /\ phase' = "ready" /\ attempt' = attempt + 1
  /\ UNCHANGED <<now, timeouts, until, result>>

(* What the server decides, and what the runtime does by itself. *)
Network == Replies \/ Fails \/ ErrorStatus \/ ErrorBody
Local == \/ SendAttempt \/ AttemptCut \/ NextAttempt
         \/ now >= until /\ ErrorBody
=============================================================================
