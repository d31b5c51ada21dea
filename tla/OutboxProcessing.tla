-------------------------- MODULE OutboxProcessing --------------------------
(***************************************************************************)
(* The outbox worker and processor together with the client operations and *)
(* the HCM.  A poll (one invocation of OutboxWorker.poll) is a process;    *)
(* the interval timer starts a new one every 500 ms whether or not the     *)
(* earlier ones are done, so several may be in flight.                     *)
(*                                                                         *)
(* Node runs one callback at a time and the SQLite driver is synchronous:  *)
(* a poll gives up control only while it awaits the HCM.  What a poll does *)
(* in between is a turn; no client operation and no other poll interferes  *)
(* with it (EventLoopFree).  But the processor uses no transaction, so     *)
(* every statement of a turn commits by itself and is a step of its own: a *)
(* crash may fall between any two.                                         *)
(***************************************************************************)
EXTENDS TimeOffRequests, FiniteSets

CONSTANTS
  Polls,             \* poll invocations that may be in flight together
  MAX_OUTBOX_ATTEMPTS,
  ClaimLimit,        \* rows one poll claims at most
  SlowCalls,         \* HCM calls in a row that may outlast the 30 s watchdog
  SameMillisecond,   \* may a poll start in the millisecond of another's stamp?
  MaxCrashes         \* bound: crashes of the process in a behaviour

ASSUME PollAssumption ==
  /\ MAX_OUTBOX_ATTEMPTS \in Nat \ {0}
  /\ ClaimLimit \in Nat \ {0}
  /\ SlowCalls \in Nat \ {0}
  /\ SameMillisecond \in BOOLEAN
  /\ MaxCrashes \in Nat

VARIABLES
  poll,      \* poll[p]: the local state of an invocation
  stamped,   \* rows whose last_attempted_at is the present millisecond
  late,      \* rows whose call the service gave up on, still to reach the HCM
  crashes

vars == <<request, auditTail, outbox, used, pending, cancels,
          hcmTx, hcmUsed, poll, stamped, late, crashes>>

\* Where a poll stands: between records, inside process(), awaiting the HCM,
\* or between two statements of the turn that settles a record.
PollPc == {"idle", "next", "load", "exhausted", "audit", "await",
           "settle", "close", "log"}

Verdict == {"APPROVED", "REJECTED", "FAILED", "CANCELLED"}

Claim == [row: Nat, attempts: Nat]

\* claimed: records not yet processed, with attempts as claimPending read it;
\* served: records done; row, attempts: the record in process and the attempts
\* the processor holds for it; seen: the request state it holds.
IdlePoll == [pc |-> "idle", claimed |-> {}, served |-> 0, row |-> 0,
             attempts |-> 0, seen |-> NotCreated, verdict |-> "FAILED",
             reply |-> NoReply]

PollRecord ==
  [pc: PollPc, claimed: SUBSET Claim, served: Nat, row: Nat, attempts: Nat,
   seen: RequestState \cup {NotCreated}, verdict: Verdict,
   reply: [kind: ReplyKind, used: Nat \cup {Absent}]]

Rows == 1 .. Len(outbox)
Row(p) == outbox[poll[p].row]
Req(p) == Row(p).req
Days(p) == daysRequested[Req(p)]

Active(p) == poll[p].pc \notin {"idle", "next"}
InTurn(p) == poll[p].pc \notin {"idle", "await"}
EventLoopFree == \A p \in Polls : ~InTurn(p)

\* The rows a poll still has in its hands.
Held(p) == {c.row : c \in poll[p].claimed}
             \cup (IF Active(p) THEN {poll[p].row} ELSE {})

Init ==
  /\ LedgerInit
  /\ RequestsInit
  /\ poll = [p \in Polls |-> IdlePoll]
  /\ stamped = {}
  /\ late = {}
  /\ crashes = 0

(***************************************************************************)
(* Client operations.                                                      *)
(***************************************************************************)
Client(r) ==
  /\ EventLoopFree
  /\ createRequest(r) \/ cancelRequest(r)
  /\ UNCHANGED <<ledgerVars, poll, stamped, late, crashes>>

(***************************************************************************)
(* OutboxWorker.poll: reset what is stuck, claim, process one by one.      *)
(***************************************************************************)
\* Wrong variants: the watchdog ignores the row's age; there is no watchdog.
stuckProcessingAnyAge == {i \in Rows : outbox[i].status = "PROCESSING"}
stuckProcessingNever == {}

stuckProcessing == {i \in Rows : outbox[i].status = "PROCESSING" /\ outbox[i].ripe}

pendingAfterReset ==
  stuckProcessing \cup {i \in Rows : outbox[i].status = "PENDING" /\ outbox[i].ripe}

Oldest(S, n) == {i \in S : Cardinality({j \in S : j < i}) < n}

\* claimPending marks the oldest due rows and then collects every PROCESSING
\* row whose last_attempted_at equals its own timestamp.
StartPoll(p) ==
  LET marked == Oldest(pendingAfterReset, ClaimLimit)
      sameStamp == IF SameMillisecond
                   THEN {i \in stamped : outbox[i].status = "PROCESSING"}
                   ELSE {}
      collected == marked \cup sameStamp
  IN /\ EventLoopFree
     /\ poll[p].pc = "idle"
     /\ collected # {}
     /\ outbox' = [i \in Rows |->
          IF i \in marked THEN [outbox[i] EXCEPT !.status = "PROCESSING", !.ripe = FALSE]
          ELSE IF i \in stuckProcessing THEN [outbox[i] EXCEPT !.status = "PENDING"]
          ELSE outbox[i]]
     /\ poll' = [poll EXCEPT ![p] = [IdlePoll EXCEPT
                   !.pc = "next",
                   !.claimed = {[row |-> i, attempts |-> outbox[i].attempts] : i \in collected}]]
     /\ stamped' = {}
     /\ UNCHANGED <<requestVars, ledgerVars, late, crashes>>

\* The poll after it is done with its present record.
Finished(p) ==
  IF poll[p].claimed = {} THEN IdlePoll
  ELSE [IdlePoll EXCEPT !.pc = "next", !.claimed = poll[p].claimed,
                        !.served = poll[p].served + 1]

\* Wrong variant: the attempt is counted in memory and stored by the retry only.
StartRecordUnsaved(p) ==
  /\ poll[p].pc = "next"
  /\ \E c \in poll[p].claimed :
       LET n == c.attempts + 1
       IN /\ \A d \in poll[p].claimed : c.row <= d.row
          /\ poll' = [poll EXCEPT ![p] = [@ EXCEPT
               !.pc = IF n > MAX_OUTBOX_ATTEMPTS THEN "exhausted" ELSE "load",
               !.claimed = poll[p].claimed \ {c}, !.row = c.row, !.attempts = n]]
  /\ UNCHANGED <<requestVars, outbox, ledgerVars, stamped, late, crashes>>

\* process(): persist the attempt before anything else.  Attempts beyond the
\* limit all mean the same and are counted as one more than the limit.
StartRecord(p) ==
  /\ poll[p].pc = "next"
  /\ \E c \in poll[p].claimed :
       LET n == IF c.attempts >= MAX_OUTBOX_ATTEMPTS
                THEN MAX_OUTBOX_ATTEMPTS + 1 ELSE c.attempts + 1
       IN /\ \A d \in poll[p].claimed : c.row <= d.row
          /\ outbox' = [outbox EXCEPT ![c.row] =
               [@ EXCEPT !.status = "PROCESSING", !.attempts = n, !.ripe = FALSE]]
          /\ poll' = [poll EXCEPT ![p] = [@ EXCEPT
               !.pc = IF n > MAX_OUTBOX_ATTEMPTS THEN "exhausted" ELSE "load",
               !.claimed = poll[p].claimed \ {c}, !.row = c.row, !.attempts = n]]
          \* The first record of a poll is stamped in the poll's own turn, and
          \* the next poll is 500 ms away.
          /\ stamped' = IF poll[p].served > 0 THEN stamped \cup {c.row} ELSE stamped
  /\ UNCHANGED <<requestVars, ledgerVars, late, crashes>>

(***************************************************************************)
(* handleDeduct and handleReverse up to the HCM call.                      *)
(***************************************************************************)
SendCall(p, seen) ==
  /\ poll' = [poll EXCEPT ![p] = [@ EXCEPT !.pc = "await", !.seen = seen, !.reply = Sent]]
  /\ outbox' = [outbox EXCEPT ![poll[p].row].calls =
                  IF Row(p).calls > MAX_OUTBOX_ATTEMPTS THEN Row(p).calls
                                                       ELSE Row(p).calls + 1]

MarkPendingHcm(p) ==
  /\ poll[p].pc = "load"
  /\ Row(p).event = "HCM_DEDUCT"
  /\ request[Req(p)] = "SUBMITTED"
  /\ request' = [request EXCEPT ![Req(p)] = "PENDING_HCM"]
  /\ poll' = [poll EXCEPT ![p].pc = "audit"]
  /\ UNCHANGED <<auditTail, outbox, used, pending, cancels, ledgerVars, stamped, late, crashes>>

\* Wrong variant: the move to PENDING_HCM is not audited.
AuditPendingHcmSkipped(p) ==
  /\ poll[p].pc = "audit"
  /\ SendCall(p, "PENDING_HCM")
  /\ UNCHANGED <<requestVars, ledgerVars, stamped, late, crashes>>

AuditPendingHcm(p) ==
  /\ poll[p].pc = "audit"
  /\ auditTail' = [auditTail EXCEPT ![Req(p)] = "PENDING_HCM"]
  /\ SendCall(p, "PENDING_HCM")
  /\ UNCHANGED <<request, used, pending, cancels, ledgerVars, stamped, late, crashes>>

\* The request is in another state already, or this is a reversal: call at once.
CallHcm(p) ==
  /\ poll[p].pc = "load"
  /\ Row(p).event = "HCM_REVERSE" \/ request[Req(p)] # "SUBMITTED"
  /\ SendCall(p, request[Req(p)])
  /\ UNCHANGED <<requestVars, ledgerVars, stamped, late, crashes>>

(***************************************************************************)
(* The HCM and the network.                                                *)
(***************************************************************************)
HcmHandles(i, reply) ==
  \/ outbox[i].event = "HCM_DEDUCT" /\ Deduct(outbox[i].req, reply)
  \/ outbox[i].event = "HCM_REVERSE" /\ Reverse(outbox[i].req, reply)

Unanswered(p) == poll[p].pc = "await" /\ poll[p].reply = Sent

Answer(p, reply) ==
  /\ Unanswered(p)
  /\ HcmHandles(poll[p].row, reply)
  /\ poll' = [poll EXCEPT ![p].reply = reply]
  /\ UNCHANGED <<requestVars, outbox, stamped, late, crashes>>

\* Timeout after 8 s, network error or 5xx, before or after the HCM acted.  A
\* call it has not handled yet is lost, or reaches it later.
LoseCall(p) ==
  /\ poll[p].pc = "await"
  /\ poll[p].reply.kind # "NO_ANSWER"
  /\ poll' = [poll EXCEPT ![p].reply = NoAnswer]
  /\ \/ UNCHANGED late
     \/ Unanswered(p) /\ late' = late \cup {poll[p].row}
  /\ UNCHANGED <<requestVars, ledgerVars, outbox, stamped, crashes>>

\* The answer to a late call reaches nobody.
LateCall(i, reply) ==
  /\ i \in late
  /\ HcmHandles(i, reply)
  /\ late' = late \ {i}
  /\ UNCHANGED <<requestVars, outbox, poll, stamped, crashes>>

(***************************************************************************)
(* The turn that settles a record: balance, request, outbox row, audit.    *)
(***************************************************************************)
Resumes(p, event, kinds) ==
  /\ EventLoopFree
  /\ poll[p].pc = "await"
  /\ Row(p).event = event
  /\ poll[p].reply.kind \in kinds

Settle(p, seen, verdict) ==
  /\ poll' = [poll EXCEPT ![p] = [@ EXCEPT !.pc = "settle", !.seen = seen,
                                           !.verdict = verdict, !.reply = NoReply]]
  /\ UNCHANGED <<request, auditTail, outbox, cancels, ledgerVars, stamped, late, crashes>>

\* newUsedDays of the answer, or the local figure when it has none.
AnsweredUsed(p, local) ==
  IF poll[p].reply.used = Absent THEN local ELSE poll[p].reply.used

\* Wrong variant: an unanswered deduction is taken for a success.
ApproveUnanswered(p) ==
  /\ Resumes(p, "HCM_DEDUCT", {"OK", "DUPLICATE", "NO_ANSWER"})
  /\ used' = AnsweredUsed(p, used + Days(p))
  /\ pending' = Minus(pending, Days(p))
  /\ Settle(p, poll[p].seen, "APPROVED")

Approve(p) ==
  /\ Resumes(p, "HCM_DEDUCT", {"OK", "DUPLICATE"})
  /\ used' = AnsweredUsed(p, used + Days(p))
  /\ pending' = Minus(pending, Days(p))
  /\ Settle(p, poll[p].seen, "APPROVED")

\* Wrong variants: the reservation is kept; an unanswered deduction is taken for
\* a refusal.
RejectKeepsReservation(p) ==
  /\ Resumes(p, "HCM_DEDUCT", {"REFUSED"})
  /\ UNCHANGED <<used, pending>>
  /\ Settle(p, poll[p].seen, "REJECTED")

RejectUnanswered(p) ==
  /\ Resumes(p, "HCM_DEDUCT", {"REFUSED", "NO_ANSWER"})
  /\ pending' = Minus(pending, Days(p))
  /\ UNCHANGED used
  /\ Settle(p, poll[p].seen, "REJECTED")

Reject(p) ==
  /\ Resumes(p, "HCM_DEDUCT", {"REFUSED"})
  /\ pending' = Minus(pending, Days(p))
  /\ UNCHANGED used
  /\ Settle(p, poll[p].seen, "REJECTED")

ConfirmReversal(p) ==
  /\ Resumes(p, "HCM_REVERSE", {"OK", "DUPLICATE"})
  /\ used' = AnsweredUsed(p, Minus(used, Days(p)))
  /\ UNCHANGED pending
  /\ Settle(p, poll[p].seen, "CANCELLED")

\* markFailed: the safety guard, the last unanswered attempt, or a refused
\* reversal.  It reads the request anew.
MarkFailed(p) ==
  /\ \/ poll[p].pc = "exhausted"
     \/ /\ \E event \in OutboxEvent : Resumes(p, event, {"NO_ANSWER"})
        /\ poll[p].attempts >= MAX_OUTBOX_ATTEMPTS
     \/ Resumes(p, "HCM_REVERSE", {"REFUSED"})
  /\ pending' = Minus(pending, Days(p))
  /\ UNCHANGED used
  /\ Settle(p, request[Req(p)], "FAILED")

ScheduleRetry(p) ==
  /\ \E event \in OutboxEvent : Resumes(p, event, {"NO_ANSWER"})
  /\ poll[p].attempts < MAX_OUTBOX_ATTEMPTS
  /\ outbox' = [outbox EXCEPT ![poll[p].row] = [@ EXCEPT
                  !.status = "PENDING", !.ripe = FALSE, !.attempts = poll[p].attempts]]
  /\ poll' = [poll EXCEPT ![p] = Finished(p)]
  /\ UNCHANGED <<requestVars, ledgerVars, stamped, late, crashes>>

\* Wrong variant: the transition is not checked.
SettleRequestUnchecked(p) ==
  /\ poll[p].pc = "settle"
  /\ request' = [request EXCEPT ![Req(p)] = poll[p].verdict]
  /\ poll' = [poll EXCEPT ![p].pc = "close"]
  /\ UNCHANGED <<auditTail, outbox, used, pending, cancels, ledgerVars, stamped, late, crashes>>

\* The transition is checked against the state the processor holds; when it is
\* illegal the handler throws, after the balance was written.
SettleRequest(p) ==
  /\ poll[p].pc = "settle"
  /\ IF CanTransition(poll[p].seen, poll[p].verdict)
     THEN /\ request' = [request EXCEPT ![Req(p)] = poll[p].verdict]
          /\ poll' = [poll EXCEPT ![p].pc = "close"]
     ELSE /\ UNCHANGED request
          /\ poll' = [poll EXCEPT ![p] = Finished(p)]
  /\ UNCHANGED <<auditTail, outbox, used, pending, cancels, ledgerVars, stamped, late, crashes>>

CloseRow(p) ==
  /\ poll[p].pc = "close"
  /\ outbox' = [outbox EXCEPT ![poll[p].row] = [@ EXCEPT
                  !.status = IF poll[p].verdict = "FAILED" THEN "FAILED" ELSE "DONE"]]
  /\ poll' = [poll EXCEPT ![p].pc = "log"]
  /\ UNCHANGED <<requestVars, ledgerVars, stamped, late, crashes>>

AuditVerdict(p) ==
  /\ poll[p].pc = "log"
  /\ auditTail' = [auditTail EXCEPT ![Req(p)] = poll[p].verdict]
  /\ poll' = [poll EXCEPT ![p] = Finished(p)]
  /\ UNCHANGED <<request, outbox, used, pending, cancels, ledgerVars, stamped, late, crashes>>

(***************************************************************************)
(* Time and crashes.                                                       *)
(***************************************************************************)
\* Wrong variant: the watchdog is shorter than a call may take.
RipenEarly(i) ==
  /\ ~outbox[i].ripe
  /\ outbox[i].status \in {"PENDING", "PROCESSING"}
  /\ outbox' = [outbox EXCEPT ![i].ripe = TRUE]
  /\ stamped' = {}
  /\ UNCHANGED <<requestVars, ledgerVars, poll, late, crashes>>

\* A row in process is less than 30 s old, since its call is cut off after
\* 8 s; one that waits in a claimed batch can get that old behind SlowCalls
\* slow calls; one that nobody holds just does.  The millisecond is over then.
Ripen(i) ==
  /\ ~outbox[i].ripe
  /\ outbox[i].status \in {"PENDING", "PROCESSING"}
  /\ outbox[i].status = "PROCESSING" =>
       \A p \in Polls : i \in Held(p) =>
         /\ ~(Active(p) /\ poll[p].row = i)
         /\ poll[p].pc = "await"
         /\ poll[p].served + 1 >= SlowCalls
  /\ outbox' = [outbox EXCEPT ![i].ripe = TRUE]
  /\ stamped' = {}
  /\ UNCHANGED <<requestVars, ledgerVars, poll, late, crashes>>

NextMillisecond ==
  /\ stamped # {}
  /\ stamped' = {}
  /\ UNCHANGED <<requestVars, ledgerVars, outbox, poll, late, crashes>>

\* The process dies and is started again: the database stays, the polls are
\* gone, and a call that was out may still reach the HCM.
Crash ==
  /\ crashes < MaxCrashes
  /\ crashes' = crashes + 1
  /\ poll' = [p \in Polls |-> IdlePoll]
  /\ \E S \in SUBSET {poll[p].row : p \in {q \in Polls : Unanswered(q)}} :
       late' = late \cup S
  /\ stamped' = {}
  /\ UNCHANGED <<requestVars, ledgerVars, outbox>>

(***************************************************************************)
(* The specification.                                                      *)
(***************************************************************************)
Statement(p) ==
  \/ StartRecord(p) \/ MarkPendingHcm(p) \/ AuditPendingHcm(p) \/ CallHcm(p)
  \/ Approve(p) \/ Reject(p) \/ ConfirmReversal(p) \/ MarkFailed(p)
  \/ ScheduleRetry(p) \/ SettleRequest(p) \/ CloseRow(p) \/ AuditVerdict(p)

\* What the HCM can answer now.
Replies == {Reply("DUPLICATE", Absent), Reply("REFUSED", Absent)}
             \cup {Reply("OK", n) : n \in 0 .. totalDays}

Next ==
  \/ \E r \in Requests : Client(r)
  \/ \E p \in Polls : StartPoll(p) \/ Statement(p) \/ LoseCall(p)
                        \/ \E reply \in Replies : Answer(p, reply)
  \/ \E i \in Rows : Ripen(i) \/ \E reply \in Replies : LateCall(i, reply)
  \/ NextMillisecond
  \/ Crash

Spec == Init /\ [][Next]_vars

=============================================================================
