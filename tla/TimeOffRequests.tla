-------------------------- MODULE TimeOffRequests --------------------------
(***************************************************************************)
(* The client-facing operations of TimeOffService on the requests of one   *)
(* balance row (one employee, location and leave type): createRequest and  *)
(* cancelRequest.  Each runs one database transaction, so each is one      *)
(* action.  Validation, idempotency and the refresh of a stale balance     *)
(* happen before the transaction and are not part of this module.          *)
(***************************************************************************)
EXTENDS RequestStateMachine, HcmLedger, Sequences

CONSTANT MaxCancels   \* bound: cancellations accepted in a behaviour

ASSUME CancelAssumption == MaxCancels \in Nat

VARIABLES
  request,     \* request[r]: state column of time_off_request
  auditTail,   \* auditTail[r]: to_state of r's newest request_audit_log row
  outbox,      \* the outbox table, in created_at order
  used,        \* used_days of the balance row
  pending,     \* pending_days of the balance row
  cancels      \* cancellations so far

requestVars == <<request, auditTail, used, pending, cancels>>

OutboxEvent == {"HCM_DEDUCT", "HCM_REVERSE"}
OutboxStatus == {"PENDING", "PROCESSING", "DONE", "FAILED"}

\* ripe: the instant the row waits for has passed, process_after for a PENDING
\* row and last_attempted_at + 30 s for a PROCESSING one.
\* calls: how many HCM calls were made for the row; not a column but a history
\* of the row, kept for the properties.
OutboxRow == [event: OutboxEvent, req: Requests, status: OutboxStatus,
              attempts: Nat, ripe: BOOLEAN, calls: Nat]

NewRow(event, r) ==
  [event |-> event, req |-> r, status |-> "PENDING",
   attempts |-> 0, ripe |-> TRUE, calls |-> 0]

RequestsInit ==
  /\ request = [r \in Requests |-> NotCreated]
  /\ auditTail = [r \in Requests |-> NotCreated]
  /\ outbox = <<>>
  /\ used = 0
  /\ pending = 0
  /\ cancels = 0

RequestsTypeOK ==
  /\ request \in [Requests -> RequestState \cup {NotCreated}]
  /\ auditTail \in [Requests -> RequestState \cup {NotCreated}]
  /\ outbox \in Seq(OutboxRow)
  /\ used \in Nat
  /\ pending \in Nat
  /\ cancels \in Nat

\* Wrong variant: no clamp at zero.
MinusUnclamped(a, b) == a - b

\* Math.max(0, a - b)
Minus(a, b) == IF a >= b THEN a - b ELSE 0

\* Wrong variant: the days of requests in flight are not counted.
availableDaysUnreserved == totalDays - used

availableDays == totalDays - used - pending

\* The request, its HCM_DEDUCT row, the reservation and the first audit row
\* commit together; without enough available days nothing is written.
createRequest(r) ==
  /\ request[r] = NotCreated
  /\ daysRequested[r] <= availableDays
  /\ request' = [request EXCEPT ![r] = "SUBMITTED"]
  /\ auditTail' = [auditTail EXCEPT ![r] = "SUBMITTED"]
  /\ outbox' = Append(outbox, NewRow("HCM_DEDUCT", r))
  /\ pending' = pending + daysRequested[r]
  /\ UNCHANGED <<used, cancels>>

\* Releases the reservation and leaves the HCM_DEDUCT row as it is.
cancelSubmitted(r) ==
  /\ cancels < MaxCancels
  /\ request[r] = "SUBMITTED"
  /\ request' = [request EXCEPT ![r] = "CANCELLED"]
  /\ auditTail' = [auditTail EXCEPT ![r] = "CANCELLED"]
  /\ pending' = Minus(pending, daysRequested[r])
  /\ cancels' = cancels + 1
  /\ UNCHANGED <<outbox, used>>

\* Wrong variant: a request may be cancelled while its deduction is in flight.
cancelApprovedEarly(r) ==
  /\ cancels < MaxCancels
  /\ request[r] \in {"PENDING_HCM", "APPROVED"}
  /\ request' = [request EXCEPT ![r] = "CANCELLING"]
  /\ auditTail' = [auditTail EXCEPT ![r] = "CANCELLING"]
  /\ outbox' = Append(outbox, NewRow("HCM_REVERSE", r))
  /\ cancels' = cancels + 1
  /\ UNCHANGED <<used, pending>>

cancelApproved(r) ==
  /\ cancels < MaxCancels
  /\ request[r] = "APPROVED"
  /\ request' = [request EXCEPT ![r] = "CANCELLING"]
  /\ auditTail' = [auditTail EXCEPT ![r] = "CANCELLING"]
  /\ outbox' = Append(outbox, NewRow("HCM_REVERSE", r))
  /\ cancels' = cancels + 1
  /\ UNCHANGED <<used, pending>>

\* Any other state is refused with 409 and changes nothing.
cancelRequest(r) == cancelSubmitted(r) \/ cancelApproved(r)
=============================================================================
