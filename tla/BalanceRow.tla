----------------------------- MODULE BalanceRow -----------------------------
(***************************************************************************)
(* One row of the balance table and everything that writes it: the         *)
(* real-time fetch (balance.service.ts), a batch record                    *)
(* (batch-sync.service.ts), the settlement of deductions and reversals     *)
(* (outbox.processor.ts), reconciliation (reconciliation.worker.ts) and    *)
(* the creation of requests (time-off.service.ts).                         *)
(*                                                                         *)
(* The row holds three figures under one timestamp, and no two of these    *)
(* writers write the same of them.  The HCM's balance is kept as the       *)
(* history of its figures; a version is an index of the history and stands *)
(* for last_updated_at.  A record or an answer to a fetch says only which  *)
(* version it carries: any that there was, since it may be late.           *)
(*                                                                         *)
(* Turns are atomic (SQLite's driver is synchronous, control is given up   *)
(* at HTTP calls only).  What OutboxProcessing says of polls, of late      *)
(* calls, of crashes inside a settlement and of the cancellation of a      *)
(* request that is not settled is left to that module.                     *)
(***************************************************************************)
EXTENDS RequestStateMachine, Integers, Sequences, FiniteSets

CONSTANTS
  Requests,       \* the requests on this balance
  daysRequested,  \* days of each
  daysOf,         \* daysOf[S]: days of the requests in S together
  Runs,           \* reconciliation runs that may be in progress together
  Totals,         \* the entitlements HR may set
  MaxVersions,    \* bound: HR changes the balance up to this version
  MaxCancels,     \* bound: approved requests that are cancelled
  MaxCalls,       \* HCM calls of an outbox row; 3 in the code
  MaxMishaps      \* bound: mishaps in a behaviour

ASSUME RowAssumption ==
  /\ IsFiniteSet(Requests)
  /\ daysRequested \in [Requests -> Nat \ {0}]
  /\ Totals \subseteq Nat
  /\ MaxVersions \in Nat
  /\ MaxCancels \in Nat
  /\ MaxCalls \in Nat \ {0}
  /\ MaxMishaps \in Nat

\* SUM(days_requested): what makes a function on sets of requests the sum.
ASSUME DaysAssumption ==
  /\ daysOf \in [SUBSET Requests -> Nat]
  /\ \A r \in Requests : daysOf[{r}] = daysRequested[r]
  /\ \A S, T \in SUBSET Requests :
       S \cap T = {} => daysOf[S \cup T] = daysOf[S] + daysOf[T]

VARIABLES
  history,    \* history[v]: the HCM's total and used days at version v
  tx,         \* tx[r]: status of the HCM's transaction with externalRef r
  row,        \* the balance row; its version is 0 while there is none
  request,    \* request[r]: state column of time_off_request
  call,       \* call[r]: the outbox row of r that is not done, and its HCM call
  reversals,  \* requests that have had an HCM_REVERSE outbox row
  run,        \* run[u]: a reconciliation run
  mishaps     \* what the code does not make up for, see Mishap

vars == <<history, tx, row, request, call, reversals, run, mishaps>>

Figures == [total : Nat, used : Nat]
Row == [total : Nat, used : Nat, pending : Nat, at : Nat]
NoRow == [total |-> 0, used |-> 0, pending |-> 0, at |-> 0]

\* kind: NONE no call is out; SENT unanswered; OK 200 with figures as of
\* version at; DUPLICATE 409, without; REFUSED any other 4xx.
CallKind == {"NONE", "SENT", "OK", "DUPLICATE", "REFUSED"}
Call == [kind : CallKind, at : Nat, attempts : Nat]
NoCall == [kind |-> "NONE", at |-> 0, attempts |-> 0]

\* snapshot: the row as the run read it before its first HCM call; since: the
\* HCM's version then.
Run == [busy : BOOLEAN, snapshot : Row, since : Nat]
NoRun == [busy |-> FALSE, snapshot |-> NoRow, since |-> 0]

Version == Len(history)
Present == history[Version]

Init ==
  /\ \E t \in Totals : history = << [total |-> t, used |-> 0] >>
  /\ tx = [r \in Requests |-> "NONE"]
  /\ row = NoRow
  /\ request = [r \in Requests |-> NotCreated]
  /\ call = [r \in Requests |-> NoCall]
  /\ reversals = {}
  /\ run = [u \in Runs |-> NoRun]
  /\ mishaps = 0

\* An answer that is written although the row is newer, a settlement by an
\* answer without figures, the release of days that were not reserved.
Mishap(happens) ==
  IF happens THEN mishaps < MaxMishaps /\ mishaps' = mishaps + 1
             ELSE UNCHANGED mishaps

Overtaken(v) == v < row.at

InState(states) == {r \in Requests : request[r] \in states}

\* Math.max(0, a - b).  Mutant: without the clamp.
MinusUnclamped(a, b) == a - b
Minus(a, b) == IF a >= b THEN a - b ELSE 0

-----------------------------------------------------------------------------
(* The HCM *)

HcmMoves(figures) == history' = Append(history, figures)

\* hcm-drift.job.ts and HR: a new entitlement, or a day booked elsewhere.
HrChange ==
  /\ Version < MaxVersions
  /\ \/ \E t \in Totals \ {Present.total} : HcmMoves([Present EXCEPT !.total = t])
     \/ /\ Present.used < Present.total
        /\ HcmMoves([Present EXCEPT !.used = @ + 1])
  /\ UNCHANGED <<tx, row, request, call, reversals, run, mishaps>>

Answered(r, kind, at) ==
  /\ call[r].kind = "SENT"
  /\ call' = [call EXCEPT ![r].kind = kind, ![r].at = at]
  /\ UNCHANGED <<row, request, reversals, run, mishaps>>

\* POST /deduct: 409 for a known externalRef, 422 without the days.
HcmDeduct(r) ==
  /\ r \notin reversals
  /\ \/ /\ tx[r] # "NONE"
        /\ Answered(r, "DUPLICATE", 0)
        /\ UNCHANGED <<history, tx>>
     \/ /\ tx[r] = "NONE"
        /\ daysRequested[r] > Present.total - Present.used
        /\ Answered(r, "REFUSED", 0)
        /\ UNCHANGED <<history, tx>>
     \/ /\ tx[r] = "NONE"
        /\ daysRequested[r] <= Present.total - Present.used
        /\ HcmMoves([Present EXCEPT !.used = @ + daysRequested[r]])
        /\ tx' = [tx EXCEPT ![r] = "APPLIED"]
        /\ Answered(r, "OK", Version + 1)

\* POST /reverse: an HCM that does not know the id it is given refuses.
HcmReverse(r) ==
  /\ r \in reversals
  /\ \/ /\ Answered(r, "REFUSED", 0)
        /\ UNCHANGED <<history, tx>>
     \/ /\ tx[r] = "REVERSED"
        /\ Answered(r, "DUPLICATE", 0)
        /\ UNCHANGED <<history, tx>>
     \/ /\ tx[r] = "APPLIED"
        /\ HcmMoves([Present EXCEPT !.used = Minus(@, daysRequested[r])])
        /\ tx' = [tx EXCEPT ![r] = "REVERSED"]
        /\ Answered(r, "OK", Version + 1)

-----------------------------------------------------------------------------
(* balance.service.ts and batch-sync.service.ts *)

\* getOrFetchBalance, of a row that is missing or older than five minutes,
\* which it can be at any time: the HCM's answer is written whatever the row
\* holds by now.  Mutant: the answer is compared like a record.
ApplyFetchIfNewer(v) ==
  /\ row.at < v
  /\ row' = [row EXCEPT !.total = history[v].total, !.used = history[v].used, !.at = v]
  /\ UNCHANGED <<history, tx, request, call, reversals, run, mishaps>>
ApplyFetch(v) ==
  /\ row' = [row EXCEPT !.total = history[v].total, !.used = history[v].used, !.at = v]
  /\ Mishap(Overtaken(v))
  /\ UNCHANGED <<history, tx, request, call, reversals, run>>

\* The requests whose days a batch counts as pending.  Mutant: those that are
\* not sent yet are forgotten.
PendingInBatchSentOnly == InState({"PENDING_HCM", "CANCELLING"})
PendingInBatch == InState({"SUBMITTED", "PENDING_HCM", "CANCELLING"})

\* applyOneRecord: a record that is not newer than the row is skipped.
\* Mutant: it is applied.
ApplyRecordUnchecked(v) ==
  /\ row' = [total |-> history[v].total, used |-> history[v].used, at |-> v,
             pending |-> daysOf[PendingInBatch]]
  /\ UNCHANGED <<history, tx, request, call, reversals, run, mishaps>>
ApplyRecord(v) ==
  /\ row.at < v
  /\ row' = [total |-> history[v].total, used |-> history[v].used, at |-> v,
             pending |-> IF row.at = 0 THEN 0 ELSE daysOf[PendingInBatch]]
  /\ UNCHANGED <<history, tx, request, call, reversals, run, mishaps>>

-----------------------------------------------------------------------------
(* time-off.service.ts *)

createRequest(r) ==
  /\ request[r] = NotCreated
  /\ row.at # 0
  /\ daysRequested[r] <= row.total - row.used - row.pending
  /\ request' = [request EXCEPT ![r] = "SUBMITTED"]
  /\ row' = [row EXCEPT !.pending = @ + daysRequested[r]]
  /\ UNCHANGED <<history, tx, call, reversals, run, mishaps>>

cancelApproved(r) ==
  /\ Cardinality(reversals) < MaxCancels
  /\ request[r] = "APPROVED"
  /\ request' = [request EXCEPT ![r] = "CANCELLING"]
  /\ reversals' = reversals \cup {r}
  /\ UNCHANGED <<history, tx, row, call, run, mishaps>>

-----------------------------------------------------------------------------
(* outbox.processor.ts *)

\* The attempt is stored, the request is marked as sent, the HCM is called.
Send(r) ==
  /\ request[r] \in {"SUBMITTED", "PENDING_HCM", "CANCELLING"}
  /\ call[r].kind = "NONE"
  /\ call[r].attempts < MaxCalls
  /\ request' = [request EXCEPT ![r] = IF @ = "SUBMITTED" THEN "PENDING_HCM" ELSE @]
  /\ call' = [call EXCEPT ![r].kind = "SENT", ![r].attempts = @ + 1]
  /\ UNCHANGED <<history, tx, row, reversals, run, mishaps>>

Settle(r, state) ==
  /\ CanTransition(request[r], state)
  /\ request' = [request EXCEPT ![r] = state]
  /\ call' = [call EXCEPT ![r] = NoCall]
  /\ UNCHANGED <<history, tx, reversals, run>>

\* handleApprove: used_days and the timestamp are the answer's if it has any;
\* a 409 has none, and the days are added to what the row holds.
Approve(r) ==
  /\ r \notin reversals
  /\ \/ /\ call[r].kind = "OK"
        /\ row' = [row EXCEPT !.used = history[call[r].at].used, !.at = call[r].at,
                              !.pending = Minus(@, daysRequested[r])]
        /\ Mishap(Overtaken(call[r].at))
     \/ /\ call[r].kind = "DUPLICATE"
        /\ row' = [row EXCEPT !.used = @ + daysRequested[r],
                              !.pending = Minus(@, daysRequested[r])]
        /\ Mishap(TRUE)
  /\ Settle(r, "APPROVED")

Reject(r) ==
  /\ r \notin reversals
  /\ call[r].kind = "REFUSED"
  /\ row' = [row EXCEPT !.pending = Minus(@, daysRequested[r])]
  /\ UNCHANGED mishaps
  /\ Settle(r, "REJECTED")

ConfirmReversal(r) ==
  /\ r \in reversals
  /\ \/ /\ call[r].kind = "OK"
        /\ row' = [row EXCEPT !.used = history[call[r].at].used, !.at = call[r].at]
        /\ Mishap(Overtaken(call[r].at))
     \/ /\ call[r].kind = "DUPLICATE"
        /\ row' = [row EXCEPT !.used = Minus(@, daysRequested[r])]
        /\ Mishap(TRUE)
  /\ Settle(r, "CANCELLED")

\* No answer arrives: a timeout, a network error, a 5xx, before or after the
\* HCM acted.
ScheduleRetry(r) ==
  /\ call[r].kind # "NONE"
  /\ call[r].attempts < MaxCalls
  /\ call' = [call EXCEPT ![r].kind = "NONE", ![r].at = 0]
  /\ UNCHANGED <<history, tx, row, request, reversals, run, mishaps>>

\* markFailed: after the last call, by the guard in process() after a crash, or
\* for a reversal that is refused.  It releases the request's days, which those
\* of a reversal no longer are.
MarkFailed(r) ==
  /\ \/ call[r].attempts >= MaxCalls
     \/ r \in reversals /\ call[r].kind = "REFUSED"
  /\ row' = [row EXCEPT !.pending = Minus(@, daysRequested[r])]
  /\ Mishap(r \in reversals)
  /\ Settle(r, "FAILED")

-----------------------------------------------------------------------------
(* reconciliation.worker.ts *)

\* All rows are read before the first HCM call.
StartRun(u) ==
  /\ ~run[u].busy
  /\ row.at # 0
  /\ run' = [run EXCEPT ![u] = [busy |-> TRUE, snapshot |-> row, since |-> Version]]
  /\ UNCHANGED <<history, tx, row, request, call, reversals, mishaps>>

TotalDrift(snapshot, v) == history[v].total - snapshot.total
UsedDrift(snapshot, v) == history[v].used - (snapshot.used + snapshot.pending)

canAutoCorrect(snapshot, v) == snapshot.at < v

\* What a correction writes.  Mutant: the timestamp is left as it is.
CorrectedUndated(v) == [row EXCEPT !.total = history[v].total]
Corrected(v) == [row EXCEPT !.total = history[v].total, !.at = v]

\* The answer is compared with the snapshot.  old: the snapshot's synced_at is
\* more than 15 minutes ago.  Drift of used_days is logged, nothing more.
Decide(u, v, old) ==
  /\ run[u].busy
  /\ LET snapshot == run[u].snapshot IN
     IF TotalDrift(snapshot, v) # 0 /\ old /\ canAutoCorrect(snapshot, v)
     THEN row' = Corrected(v) /\ Mishap(Overtaken(v))
     ELSE UNCHANGED <<row, mishaps>>
  /\ run' = [run EXCEPT ![u] = NoRun]
  /\ UNCHANGED <<history, tx, request, call, reversals>>

\* The process dies.  The outbox rows stay, with the attempts stored; the
\* watchdog will run them again.
Crash ==
  /\ call' = [r \in Requests |-> [call[r] EXCEPT !.kind = "NONE", !.at = 0]]
  /\ run' = [u \in Runs |-> NoRun]
  /\ UNCHANGED <<history, tx, row, request, reversals, mishaps>>

-----------------------------------------------------------------------------
Next ==
  \/ HrChange
  \/ \E r \in Requests :
       \/ HcmDeduct(r) \/ HcmReverse(r)
       \/ createRequest(r) \/ cancelApproved(r)
       \/ Send(r) \/ Approve(r) \/ Reject(r) \/ ConfirmReversal(r)
       \/ ScheduleRetry(r) \/ MarkFailed(r)
  \/ \E v \in 1 .. Version : ApplyFetch(v) \/ ApplyRecord(v)
  \/ \E u \in Runs :
       \/ StartRun(u)
       \/ \E v \in run[u].since .. Version, old \in BOOLEAN : Decide(u, v, old)
  \/ Crash

Spec == Init /\ [][Next]_vars
=============================================================================
