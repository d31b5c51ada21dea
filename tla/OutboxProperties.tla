-------------------------- MODULE OutboxProperties --------------------------
(***************************************************************************)
(* What the outbox protocol of OutboxProcessing must and must not do.      *)
(***************************************************************************)
EXTENDS OutboxProcessing, Functions

DaysOf(S) == SumFunctionOnSet(daysRequested, S)
InState(states) == {r \in Requests : request[r] \in states}

\* Every variable of the service, the polls, the network and the HCM holds a
\* value of its type; the rows a poll works on exist.
TypeOK ==
  /\ LedgerTypeOK
  /\ RequestsTypeOK
  /\ poll \in [Polls -> PollRecord]
  /\ \A p \in Polls : /\ \A c \in poll[p].claimed : c.row \in Rows
                      /\ Active(p) => poll[p].row \in Rows
  /\ stamped \subseteq Rows
  /\ late \subseteq Rows
  /\ crashes \in Nat

(***************************************************************************)
(* Safety.                                                                 *)
(***************************************************************************)
\* No request is approved, or being cancelled after approval, unless the HCM
\* has recorded a deduction for it, whatever answers were lost, whichever
\* polls overlapped and wherever the process died (OutboxProcessor.handleApprove).
ApprovedIsConfirmed ==
  \A r \in InState({"APPROVED", "CANCELLING"}) : hcmTx[r] # "NONE"

\* The HCM's used_days moves only by what its own transactions say: a call
\* that is repeated, duplicated or late books or restores no day twice.
HcmBooksOnce ==
  [][hcmUsed' - hcmUsed =
       DaysOf({r \in Requests : hcmTx'[r] = "APPLIED"})
         - DaysOf({r \in Requests : hcmTx[r] = "APPLIED"})]_ledgerVars

\* No outbox row causes more than MAX_OUTBOX_ATTEMPTS HCM calls, counted over
\* retries, watchdog resets and restarts: the attempt is stored before the call
\* (OutboxProcessor.process).
CallsBounded == \A i \in Rows : outbox[i].calls <= MAX_OUTBOX_ATTEMPTS

\* An outbox row is in the hands of one poll at a time, as claimPending is meant to
\* keep it: "IDs are now claimed; no other worker can claim them"
\* (docs/06-concurrency-and-idempotency.md:138).  It does not, when two polls start
\* in one millisecond or a batch outlives the watchdog; what it keeps to even so is
\* in OutboxHistory.
SingleOwner == \A p, q \in Polls : p # q => Held(p) \cap Held(q) = {}

\* A row that was settled stays settled: it is never claimed or executed again.
SettledRowsStay ==
  [][\A i \in Rows : outbox[i].status \in {"DONE", "FAILED"} =>
       outbox'[i].status = outbox[i].status]_vars

\* The row of a request moves only along the state machine, although the
\* processor checks transitions against a copy it read before the HCM call.
Lifecycle == INSTANCE RequestLifecycle
               WITH Requests <- Requests, request <- request
LifecycleSpec == Lifecycle!Spec

\* Outside a turn the audit log's newest entry is the request's state, until a
\* crash comes between a write and its audit row.
AuditFollowsState == crashes = 0 /\ EventLoopFree => auditTail = request

\* Outside a turn pending_days is the sum over the requests in flight
\* (docs/02-data-model.md:21), through retries, refusals and exhausted rows,
\* until a crash cuts a settlement in two.
PendingIsReserved ==
  crashes = 0 /\ EventLoopFree =>
    pending = DaysOf(InState({"SUBMITTED", "PENDING_HCM"}))

\* The service never has more days promised, in flight or approved, than the
\* entitlement: the lock, pending_days and the used_days that approvals write
\* leave no gap through which two requests take the same day.
NoOverbooking ==
  DaysOf(InState({"SUBMITTED", "PENDING_HCM", "APPROVED", "CANCELLING"})) <= totalDays

\* A request the HCM refused has no deduction there, although an earlier call for
\* it, which the service gave up on, may still arrive: days that were not there
\* once are not there later, as long as nothing is given back.
RejectedIsUnbooked == \A r \in InState({"REJECTED"}) : hcmTx[r] = "NONE"

\* One outbox row per request is not yet DONE or FAILED.
OneActiveRow ==
  \A i, j \in Rows :
    /\ outbox[i].req = outbox[j].req
    /\ {outbox[i].status, outbox[j].status} \subseteq {"PENDING", "PROCESSING"}
    => i = j

(***************************************************************************)
(* Liveness.                                                               *)
(***************************************************************************)
\* A turn that began goes on, a callback whose turn it is runs in the end, the
\* interval timer fires for ever, a call is answered or cut off after 8 s, and
\* the instant a row waits for comes.  Nothing is assumed of the users, of
\* crashes, of the HCM or of which answer it gives.
Fairness ==
  /\ \A p \in Polls : /\ SF_vars(Statement(p))
                      /\ SF_vars(StartPoll(p))
                      /\ WF_vars(LoseCall(p))
  /\ \A i \in 1 .. 2 * Cardinality(Requests) : WF_vars(i \in Rows /\ Ripen(i))

FairSpec == Spec /\ Fairness

\* Every created request is approved, rejected, cancelled or failed in the end.
RequestsResolve ==
  \A r \in Requests :
    request[r] \in {"SUBMITTED", "PENDING_HCM"}
      ~> request[r] \in {"APPROVED", "REJECTED", "FAILED", "CANCELLED", "CANCELLING"}

\* Every cancellation of an approved request comes to an end.
CancellationsResolve ==
  \A r \in Requests : request[r] = "CANCELLING" ~> request[r] # "CANCELLING"
=============================================================================
