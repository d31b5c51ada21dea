-------------------------- MODULE OutboxTurnProofs --------------------------
(***************************************************************************)
(* Proofs about the turns of OutboxProcessing, for any number of polls,    *)
(* crashes and cancellations: one poll at a time is in a turn, and so the  *)
(* audit log is complete whenever the event loop is free; and what the HCM *)
(* refused stays refused as long as it gives no days back.                 *)
(***************************************************************************)
EXTENDS OutboxProofs

(***************************************************************************)
(* What a step leaves alone.                                               *)
(***************************************************************************)
Others(p) == \A q \in Polls : q # p => poll'[q] = poll[q]

\* The steps of one poll leave the other polls alone.
LEMMA OthersKept ==
  ASSUME TypeOK, NEW p \in Polls,
         \/ Statement(p) \/ StartPoll(p) \/ LoseCall(p)
         \/ \E reply \in Replies : Answer(p, reply)
  PROVE  Others(p)
BY DEF TypeOK, Others, Statement, StartRecord, MarkPendingHcm, AuditPendingHcm, CallHcm, SendCall,
   Approve, Reject, ConfirmReversal, MarkFailed, ScheduleRetry, SettleRequest, CloseRow,
   AuditVerdict, Settle, StartPoll, LoseCall, Answer

\* A poll whose record is the same has the same request in hand.
LEMMA SameRequest ==
  ASSUME TypeOK, RowsKept, NEW p \in Polls, Active(p), poll'[p].row = poll[p].row
  PROVE  Req(p)' = Req(p)
BY SameRow

(***************************************************************************)
(* One turn at a time.                                                     *)
(***************************************************************************)
OneTurn == \A p, q \in Polls : InTurn(p) /\ InTurn(q) => p = q

\* A poll runs a statement in a turn of its own or when nobody has one.
LEMMA StatementInTurn ==
  ASSUME NEW p \in Polls, Statement(p)
  PROVE  InTurn(p) \/ EventLoopFree
BY DEF Statement, StartRecord, MarkPendingHcm, AuditPendingHcm, CallHcm, Approve, Reject,
   ConfirmReversal, MarkFailed, ScheduleRetry, Resumes, SettleRequest, CloseRow, AuditVerdict,
   InTurn

\* So the others are out of theirs, before and after.
LEMMA OthersWait ==
  ASSUME TypeOK, OneTurn, NEW p \in Polls, Statement(p) \/ StartPoll(p)
  PROVE  \A q \in Polls : q # p => ~InTurn(q) /\ poll'[q] = poll[q]
<1>1. InTurn(p) \/ EventLoopFree
  BY StatementInTurn DEF StartPoll
<1> QED
  BY <1>1, OthersKept DEF OneTurn, EventLoopFree, Others

\* Answers and their absence, late calls and time leave every turn as it is.
Quiet ==
  \/ \E p \in Polls : LoseCall(p) \/ \E reply \in Replies : Answer(p, reply)
  \/ \E i \in Rows : Ripen(i) \/ \E reply \in Replies : LateCall(i, reply)
  \/ NextMillisecond
  \/ UNCHANGED vars

LEMMA QuietKeepsTurns ==
  ASSUME TypeOK, Quiet
  PROVE  /\ UNCHANGED <<requestVars, crashes>>
         /\ \A p \in Polls : /\ poll'[p].pc = poll[p].pc
                             /\ poll'[p].row = poll[p].row
                             /\ poll'[p].claimed = poll[p].claimed
                             /\ poll'[p].attempts = poll[p].attempts
                             /\ poll'[p].seen = poll[p].seen
                             /\ poll'[p].served = poll[p].served
                             /\ poll'[p].verdict = poll[p].verdict
<1>1. CASE \E p \in Polls : LoseCall(p) \/ \E reply \in Replies : Answer(p, reply)
  <2>1. PICK p \in Polls : LoseCall(p) \/ \E reply \in Replies : Answer(p, reply)
    BY <1>1
  <2>2. UNCHANGED <<requestVars, crashes>>
    BY <2>1 DEF LoseCall, Answer
  <2>3. PICK reply : poll' = [poll EXCEPT ![p].reply = reply]
    BY <2>1 DEF LoseCall, Answer
  <2> QED
    BY <2>2, <2>3 DEF TypeOK, PollRecord
<1>2. CASE ~\E p \in Polls : LoseCall(p) \/ \E reply \in Replies : Answer(p, reply)
  BY <1>2 DEF Quiet, Ripen, LateCall, NextMillisecond, vars, requestVars
<1> QED
  BY <1>1, <1>2

LEMMA Kinds ==
  ASSUME [Next]_vars
  PROVE  \/ Quiet
         \/ \E r \in Requests : Client(r)
         \/ \E p \in Polls : StartPoll(p) \/ Statement(p)
         \/ Crash
BY DEF Next, Quiet

LEMMA OneTurnStep ==
  ASSUME TypeOK, OneTurn, [Next]_vars
  PROVE  OneTurn'
<1>1. CASE Quiet
  BY <1>1, QuietKeepsTurns DEF OneTurn, InTurn
<1>2. CASE \E r \in Requests : Client(r)
  BY <1>2 DEF Client, OneTurn, InTurn
<1>3. CASE \E p \in Polls : StartPoll(p) \/ Statement(p)
  BY <1>3, OthersWait DEF OneTurn, InTurn
<1>4. CASE Crash
  BY <1>4, IdlePollOK DEF Crash, OneTurn, InTurn
<1> QED
  BY <1>1, <1>2, <1>3, <1>4, Kinds

(***************************************************************************)
(* What the statements do, field by field.                                 *)
(***************************************************************************)
\* The attempts of a record after process() has counted one more.
Bump(n) == IF n >= MAX_OUTBOX_ATTEMPTS THEN MAX_OUTBOX_ATTEMPTS + 1 ELSE n + 1

\* The step writes the i-th row and no other.
Writes(i, row) ==
  /\ Rows' = Rows
  /\ outbox'[i] = row
  /\ \A j \in Rows : j # i => outbox'[j] = outbox[j]

LEMMA RowWritten ==
  ASSUME TypeOK, NEW i \in Rows, NEW row \in OutboxRow, outbox' = [outbox EXCEPT ![i] = row]
  PROVE  Writes(i, row)
<1>1. /\ Len(outbox') = Len(outbox)
      /\ \A j \in 1 .. Len(outbox) : outbox'[j] = IF j = i THEN row ELSE outbox[j]
  BY ExceptSeq DEF Rows, TypeOK, RequestsTypeOK
<1> QED
  BY <1>1 DEF Rows, Writes

LEMMA RowType ==
  ASSUME TypeOK, NEW i \in Rows
  PROVE  /\ i \in Nat /\ outbox[i] \in OutboxRow
         /\ outbox[i].req \in Requests
         /\ outbox[i].attempts \in Nat
         /\ outbox[i].calls \in Nat
         /\ outbox[i].event \in OutboxEvent
         /\ outbox[i].status \in OutboxStatus
         /\ outbox[i].ripe \in BOOLEAN
<1>1. outbox[i] \in OutboxRow
  BY ElementOfSeq DEF TypeOK, RequestsTypeOK, Rows
<1> QED
  BY <1>1, LenProperties DEF TypeOK, RequestsTypeOK, Rows, OutboxRow

LEMMA PollType ==
  ASSUME TypeOK, NEW p \in Polls
  PROVE  /\ poll[p] \in PollRecord
         /\ poll[p].served \in Nat
         /\ poll[p].attempts \in Nat
         /\ \A c \in poll[p].claimed : c \in Claim /\ c.row \in Rows /\ c.attempts \in Nat
BY DEF TypeOK, PollRecord, Claim

LEMMA FinishedFields ==
  ASSUME TypeOK, NEW p \in Polls
  PROVE  /\ Finished(p).claimed = poll[p].claimed
         /\ Finished(p).pc \in {"idle", "next"}
         /\ Finished(p).pc = "idle" <=> poll[p].claimed = {}
         /\ poll[p].claimed # {} => Finished(p).served = poll[p].served + 1
         /\ poll[p].claimed = {} => Finished(p).served = 0
BY DEF Finished, IdlePoll

LEMMA StartRecordEffect ==
  ASSUME TypeOK, NEW p \in Polls, StartRecord(p)
  PROVE  /\ poll[p].pc = "next"
         /\ UNCHANGED <<requestVars, ledgerVars, late, crashes>>
         /\ \E c \in poll[p].claimed :
              /\ poll'[p] = [poll[p] EXCEPT
                   !.pc = IF Bump(c.attempts) > MAX_OUTBOX_ATTEMPTS THEN "exhausted" ELSE "load",
                   !.claimed = poll[p].claimed \ {c}, !.row = c.row, !.attempts = Bump(c.attempts)]
              /\ Writes(c.row, [outbox[c.row] EXCEPT !.status = "PROCESSING",
                                  !.attempts = Bump(c.attempts), !.ripe = FALSE])
              /\ stamped' \subseteq stamped \cup {c.row}
<1>1. PICK c \in poll[p].claimed :
        /\ outbox' = [outbox EXCEPT ![c.row] =
             [@ EXCEPT !.status = "PROCESSING", !.attempts = Bump(c.attempts), !.ripe = FALSE]]
        /\ poll' = [poll EXCEPT ![p] = [@ EXCEPT
             !.pc = IF Bump(c.attempts) > MAX_OUTBOX_ATTEMPTS THEN "exhausted" ELSE "load",
             !.claimed = poll[p].claimed \ {c}, !.row = c.row, !.attempts = Bump(c.attempts)]]
        /\ stamped' \subseteq stamped \cup {c.row}
  BY DEF StartRecord, Bump
<1>2. c.row \in Rows /\ c.attempts \in Nat
  BY PollType
<1> DEFINE row == [outbox[c.row] EXCEPT !.status = "PROCESSING", !.attempts = Bump(c.attempts),
                                        !.ripe = FALSE]
<1>3. Bump(c.attempts) \in Nat
  BY <1>2, PollAssumption DEF Bump
<1>4. row \in OutboxRow
  BY <1>2, <1>3, RowType DEF OutboxRow, OutboxStatus
<1>5. outbox' = [outbox EXCEPT ![c.row] = row]
  BY <1>1
<1> HIDE DEF row
<1>6. Writes(c.row, row)
  BY <1>2, <1>4, <1>5, RowWritten
<1>7. poll[p].pc = "next" /\ UNCHANGED <<requestVars, ledgerVars, late, crashes>>
  BY DEF StartRecord
<1> QED
  BY <1>1, <1>6, <1>7 DEF row, TypeOK

LEMMA SendCallEffect ==
  ASSUME TypeOK, NEW p \in Polls, AuditPendingHcm(p) \/ CallHcm(p)
  PROVE  /\ Active(p) /\ InTurn(p)
         /\ poll[p].pc = "audit" \/ poll[p].pc = "load"
         /\ UNCHANGED <<request, used, pending, cancels, ledgerVars, late, crashes, stamped>>
         /\ poll'[p] = [poll[p] EXCEPT !.pc = "await", !.reply = Sent,
              !.seen = IF AuditPendingHcm(p) THEN "PENDING_HCM" ELSE request[Req(p)]]
         /\ Writes(poll[p].row, [Row(p) EXCEPT
              !.calls = IF Row(p).calls > MAX_OUTBOX_ATTEMPTS THEN Row(p).calls ELSE Row(p).calls + 1])
<1> DEFINE n == Row(p).calls
           row == [Row(p) EXCEPT !.calls = IF n > MAX_OUTBOX_ATTEMPTS THEN n ELSE n + 1]
           seen == IF AuditPendingHcm(p) THEN "PENDING_HCM" ELSE request[Req(p)]
<1>1. Active(p) /\ InTurn(p) /\ (poll[p].pc = "audit" \/ poll[p].pc = "load")
  BY DEF AuditPendingHcm, CallHcm, Active, InTurn
<1>2. SendCall(p, seen)
  BY DEF AuditPendingHcm, CallHcm
<1>3. poll[p].row \in Rows /\ Row(p) \in OutboxRow
  BY <1>1, ActiveRow
<1>4. row \in OutboxRow
  BY <1>3, PollAssumption DEF OutboxRow
<1>5. outbox' = [outbox EXCEPT ![poll[p].row] = row]
  BY <1>2 DEF SendCall, Row
<1> HIDE DEF row
<1>6. Writes(poll[p].row, row)
  BY <1>3, <1>4, <1>5, RowWritten
<1>7. poll'[p] = [poll[p] EXCEPT !.pc = "await", !.seen = seen, !.reply = Sent]
  BY <1>2 DEF SendCall, TypeOK
<1>8. poll'[p] = [poll[p] EXCEPT !.pc = "await", !.reply = Sent, !.seen = seen]
  BY <1>7, PollType DEF PollRecord
<1>9. UNCHANGED <<request, used, pending, cancels, ledgerVars, late, crashes, stamped>>
  BY DEF AuditPendingHcm, CallHcm, requestVars
<1> QED
  BY <1>1, <1>6, <1>8, <1>9 DEF row

LEMMA RetryEffect ==
  ASSUME TypeOK, NEW p \in Polls, ScheduleRetry(p)
  PROVE  /\ Active(p) /\ poll[p].pc = "await" /\ poll[p].attempts < MAX_OUTBOX_ATTEMPTS
         /\ EventLoopFree
         /\ UNCHANGED <<requestVars, ledgerVars, late, crashes, stamped>>
         /\ poll'[p] = Finished(p)
         /\ Writes(poll[p].row, [Row(p) EXCEPT !.status = "PENDING", !.ripe = FALSE,
                                                !.attempts = poll[p].attempts])
<1> DEFINE row == [Row(p) EXCEPT !.status = "PENDING", !.ripe = FALSE,
                                 !.attempts = poll[p].attempts]
<1>1. Active(p) /\ poll[p].pc = "await" /\ EventLoopFree
  BY DEF ScheduleRetry, Resumes, Active
<1>2. poll[p].row \in Rows /\ Row(p) \in OutboxRow /\ poll[p].attempts \in Nat
  BY <1>1, ActiveRow, PollType
<1>3. row \in OutboxRow
  BY <1>2 DEF OutboxRow, OutboxStatus
<1>4. outbox' = [outbox EXCEPT ![poll[p].row] = row]
  BY DEF ScheduleRetry, Row
<1> HIDE DEF row
<1>5. Writes(poll[p].row, row)
  BY <1>2, <1>3, <1>4, RowWritten
<1> QED
  BY <1>1, <1>5 DEF row, ScheduleRetry, TypeOK

LEMMA CloseEffect ==
  ASSUME TypeOK, NEW p \in Polls, CloseRow(p)
  PROVE  /\ Active(p) /\ poll[p].pc = "close"
         /\ UNCHANGED <<requestVars, ledgerVars, late, crashes, stamped>>
         /\ poll'[p] = [poll[p] EXCEPT !.pc = "log"]
         /\ Writes(poll[p].row, [Row(p) EXCEPT
              !.status = IF poll[p].verdict = "FAILED" THEN "FAILED" ELSE "DONE"])
<1> DEFINE status == IF poll[p].verdict = "FAILED" THEN "FAILED" ELSE "DONE"
           row == [Row(p) EXCEPT !.status = status]
<1>1. Active(p) /\ poll[p].pc = "close"
  BY DEF CloseRow, Active
<1>2. poll[p].row \in Rows /\ Row(p) \in OutboxRow
  BY <1>1, ActiveRow
<1>3. row \in OutboxRow
  BY <1>2 DEF OutboxRow, OutboxStatus
<1>4. outbox' = [outbox EXCEPT ![poll[p].row] = row]
  BY DEF CloseRow, Row
<1> HIDE DEF row
<1>5. Writes(poll[p].row, row)
  BY <1>2, <1>3, <1>4, RowWritten
<1> QED
  BY <1>1, <1>5 DEF row, CloseRow, TypeOK

\* The handlers of an answer write the balance and turn to settling.
LEMMA SettleEffect ==
  ASSUME TypeOK, NEW p \in Polls,
         Approve(p) \/ Reject(p) \/ ConfirmReversal(p) \/ MarkFailed(p)
  PROVE  /\ Active(p) /\ poll[p].pc \in {"await", "exhausted"}
         /\ UNCHANGED <<request, auditTail, outbox, cancels, ledgerVars, late, crashes, stamped>>
         /\ \E seen, verdict :
              poll'[p] = [poll[p] EXCEPT !.pc = "settle", !.seen = seen, !.verdict = verdict,
                                         !.reply = NoReply]
<1>1. Active(p) /\ poll[p].pc \in {"await", "exhausted"}
  BY DEF Approve, Reject, ConfirmReversal, MarkFailed, Resumes, Active
<1>2. PICK seen, verdict : Settle(p, seen, verdict)
  BY DEF Approve, Reject, ConfirmReversal, MarkFailed
<1> QED
  BY <1>1, <1>2 DEF Settle, TypeOK

\* A client operation appends at most one row.
LEMMA ClientRows ==
  ASSUME TypeOK, NEW r \in Requests, Client(r)
  PROVE  \/ cancelSubmitted(r) /\ UNCHANGED outbox
         \/ /\ Rows' = Rows \cup {Len(outbox) + 1} /\ Len(outbox) + 1 \notin Rows
            /\ \A i \in Rows : outbox'[i] = outbox[i]
            /\ \/ createRequest(r) /\ outbox'[Len(outbox) + 1] = NewRow("HCM_DEDUCT", r)
               \/ cancelApproved(r) /\ outbox'[Len(outbox) + 1] = NewRow("HCM_REVERSE", r)
<1> USE DEF TypeOK, RequestsTypeOK
<1>1. ASSUME NEW event \in OutboxEvent, outbox' = Append(outbox, NewRow(event, r))
      PROVE  /\ Rows' = Rows \cup {Len(outbox) + 1} /\ Len(outbox) + 1 \notin Rows
             /\ \A i \in Rows : outbox'[i] = outbox[i]
             /\ outbox'[Len(outbox) + 1] = NewRow(event, r)
  <2>1. NewRow(event, r) \in OutboxRow
    BY DEF NewRow, OutboxRow, OutboxStatus
  <2> QED
    BY <1>1, <2>1, AppendProperties, LenProperties DEF Rows
<1>2. CASE createRequest(r)
  BY <1>1, <1>2 DEF createRequest, OutboxEvent
<1>3. CASE cancelSubmitted(r)
  BY <1>3 DEF cancelSubmitted
<1>4. CASE cancelApproved(r)
  BY <1>1, <1>4 DEF cancelApproved, OutboxEvent
<1> QED
  BY <1>2, <1>3, <1>4 DEF Client, cancelRequest

\* The rows claimPending marks, and those it collects.
Marked == Oldest(pendingAfterReset, ClaimLimit)

Collected ==
  Marked \cup (IF SameMillisecond THEN {i \in stamped : outbox[i].status = "PROCESSING"} ELSE {})

LEMMA StartPollEffect ==
  ASSUME TypeOK, NEW p \in Polls, StartPoll(p)
  PROVE  /\ EventLoopFree /\ poll[p].pc = "idle"
         /\ UNCHANGED <<requestVars, ledgerVars, late, crashes>>
         /\ poll'[p] = [IdlePoll EXCEPT !.pc = "next",
              !.claimed = {[row |-> i, attempts |-> outbox[i].attempts] : i \in Collected}]
         /\ Rows' = Rows
         /\ \A i \in Rows :
              outbox'[i] = IF i \in Marked
                           THEN [outbox[i] EXCEPT !.status = "PROCESSING", !.ripe = FALSE]
                           ELSE IF i \in stuckProcessing THEN [outbox[i] EXCEPT !.status = "PENDING"]
                           ELSE outbox[i]
         /\ Collected # {} /\ Collected \subseteq Rows
         /\ Marked \subseteq pendingAfterReset
<1> DEFINE row(i) == IF i \in Marked
                     THEN [outbox[i] EXCEPT !.status = "PROCESSING", !.ripe = FALSE]
                     ELSE IF i \in stuckProcessing THEN [outbox[i] EXCEPT !.status = "PENDING"]
                     ELSE outbox[i]
<1>1. outbox' = [i \in Rows |-> row(i)]
  BY DEF StartPoll, Marked
<1>2. Rows' = Rows
  <2>1. outbox' \in Seq(OutboxRow)
    BY OutboxStartPoll
  <2>2. DOMAIN outbox' = 1 .. Len(outbox)
    BY <1>1 DEF Rows
  <2>3. Len(outbox') = Len(outbox)
    BY <2>1, <2>2, LenProperties DEF TypeOK, RequestsTypeOK
  <2> QED
    BY <2>3 DEF Rows
<1>3. poll' = [poll EXCEPT ![p] = [IdlePoll EXCEPT !.pc = "next",
              !.claimed = {[row |-> i, attempts |-> outbox[i].attempts] : i \in Collected}]]
  BY DEF StartPoll, Marked, Collected
<1>4. Collected # {}
  BY DEF StartPoll, Marked, Collected
<1>5. Marked \subseteq pendingAfterReset /\ pendingAfterReset \subseteq Rows
  BY DEF Marked, Oldest, pendingAfterReset, stuckProcessing
<1>6. Collected \subseteq Rows
  BY <1>5 DEF Collected, TypeOK
<1>7. EventLoopFree /\ poll[p].pc = "idle" /\ UNCHANGED <<requestVars, ledgerVars, late, crashes>>
  BY DEF StartPoll
<1> QED
  BY <1>1, <1>2, <1>3, <1>4, <1>5, <1>6, <1>7 DEF TypeOK

\* Of the quiet steps only time touches the table, and it makes a row ripe.
LEMMA QuietRows ==
  ASSUME TypeOK, Quiet
  PROVE  /\ Rows' = Rows
         /\ \A i \in Rows :
              \/ outbox'[i] = outbox[i]
              \/ Ripen(i) /\ outbox'[i] = [outbox[i] EXCEPT !.ripe = TRUE]
<1>1. CASE \E i \in Rows : Ripen(i)
  <2>1. PICK i \in Rows : Ripen(i)
    BY <1>1
  <2> DEFINE row == [outbox[i] EXCEPT !.ripe = TRUE]
  <2>2. row \in OutboxRow
    BY RowType DEF OutboxRow
  <2>3. outbox' = [outbox EXCEPT ![i] = row]
    BY <2>1 DEF Ripen
  <2> HIDE DEF row
  <2>4. Writes(i, row)
    BY <2>2, <2>3, RowWritten
  <2> QED
    BY <2>1, <2>4 DEF Writes, row
<1>2. CASE ~\E i \in Rows : Ripen(i)
  <2>1. UNCHANGED outbox
    BY <1>2 DEF Quiet, LoseCall, Answer, LateCall, NextMillisecond, vars
  <2> QED
    BY <2>1 DEF Rows
<1> QED
  BY <1>1, <1>2

\* Only the clients add rows.
LEMMA NoNewRows ==
  ASSUME TypeOK, [Next]_vars, ~\E r \in Requests : Client(r)
  PROVE  Rows' = Rows
<1>1. ASSUME NEW p \in Polls, Statement(p)
      PROVE  Rows' = Rows
  <2>1. CASE StartRecord(p)
    BY <2>1, StartRecordEffect DEF Writes
  <2>2. CASE AuditPendingHcm(p) \/ CallHcm(p)
    BY <2>2, SendCallEffect DEF Writes
  <2>3. CASE ScheduleRetry(p)
    BY <2>3, RetryEffect DEF Writes
  <2>4. CASE CloseRow(p)
    BY <2>4, CloseEffect DEF Writes
  <2>5. CASE \/ MarkPendingHcm(p) \/ SettleRequest(p) \/ AuditVerdict(p)
             \/ Approve(p) \/ Reject(p) \/ ConfirmReversal(p) \/ MarkFailed(p)
    <3>1. UNCHANGED outbox
      BY <2>5, SettleEffect DEF MarkPendingHcm, SettleRequest, AuditVerdict
    <3> QED
      BY <3>1 DEF Rows
  <2> QED
    BY <1>1, <2>1, <2>2, <2>3, <2>4, <2>5 DEF Statement
<1>2. CASE Crash
  BY <1>2 DEF Crash, Rows
<1> QED
  BY <1>1, <1>2, Kinds, QuietRows, StartPollEffect

(***************************************************************************)
(* The audit log.                                                          *)
(***************************************************************************)
\* What a poll has written to the request and not yet to the audit log.
Unaudited(p) == poll[p].pc \in {"audit", "close", "log"}

Written(p) == IF poll[p].pc = "audit" THEN "PENDING_HCM" ELSE poll[p].verdict

\* AuditFollowsState is not inductive: between a write and its audit row the log
\* lags, by what the poll in the turn has written.
LogLags ==
  /\ \A p \in Polls : Unaudited(p) => request[Req(p)] = Written(p)
  /\ crashes = 0 =>
       \A r \in Requests :
         auditTail[r] = request[r] \/ (\E p \in Polls : Unaudited(p) /\ Req(p) = r)

TurnInv == OneTurn /\ LogLags

LEMMA TurnInit == Init => TurnInv
BY IdlePollOK DEF Init, RequestsInit, TurnInv, OneTurn, InTurn, LogLags, Unaudited

\* Nobody lags while a client operation runs, and it writes both at once.
LEMMA LagsClient ==
  ASSUME TypeOK, TurnInv, NEW r \in Requests, Client(r)
  PROVE  LogLags'
<1>1. \A p \in Polls : ~Unaudited(p) /\ ~Unaudited(p)'
  BY DEF Client, EventLoopFree, InTurn, Unaudited
<1>2. crashes = 0 => auditTail = request
  BY <1>1 DEF TurnInv, LogLags, TypeOK, RequestsTypeOK
<1>3. crashes' = 0 => auditTail' = request'
  BY <1>2 DEF Client, cancelRequest, createRequest, cancelSubmitted, cancelApproved
<1> QED
  BY <1>1, <1>3 DEF LogLags

\* A statement of p: the others are not in the middle of anything.
LEMMA LagsStatement ==
  ASSUME TypeOK, RowsKept, TurnInv, NEW p \in Polls, Statement(p)
  PROVE  LogLags'
<1>1. \A q \in Polls : q # p => ~Unaudited(q) /\ ~Unaudited(q)'
  BY OthersWait DEF TurnInv, InTurn, Unaudited
<1>2. UNCHANGED crashes
  BY DEF Statement, StartRecord, MarkPendingHcm, AuditPendingHcm, CallHcm, Approve, Reject,
     ConfirmReversal, MarkFailed, ScheduleRetry, SettleRequest, CloseRow, AuditVerdict, Settle
<1>3. \A r \in Requests :
        crashes = 0 => auditTail[r] = request[r] \/ (Unaudited(p) /\ Req(p) = r)
  BY <1>1 DEF TurnInv, LogLags
<1> SUFFICES /\ Unaudited(p)' => request'[Req(p)'] = Written(p)'
             /\ \A r \in Requests :
                  crashes = 0 => auditTail'[r] = request'[r] \/ (Unaudited(p)' /\ Req(p)' = r)
  BY <1>1, <1>2 DEF LogLags
<1> USE DEF TypeOK, RequestsTypeOK, PollRecord
<1>4. CASE ~Unaudited(p) /\ UNCHANGED <<request, auditTail>> /\ ~Unaudited(p)'
  BY <1>3, <1>4
<1>5. CASE StartRecord(p)
  <2>1. poll'[p].pc \in {"exhausted", "load"}
    BY <1>5 DEF StartRecord
  <2> QED
    BY <1>4, <1>5, <2>1 DEF StartRecord, requestVars, Unaudited
<1>6. CASE MarkPendingHcm(p)
  <2>1. /\ Active(p) /\ ~Unaudited(p)
        /\ poll'[p].pc = "audit" /\ poll'[p].row = poll[p].row
        /\ request' = [request EXCEPT ![Req(p)] = "PENDING_HCM"]
        /\ UNCHANGED auditTail
    BY <1>6 DEF MarkPendingHcm, Active, Unaudited
  <2>2. Req(p)' = Req(p) /\ Req(p) \in Requests
    BY <2>1, SameRequest, ActiveRow
  <2> HIDE DEF TypeOK, PollRecord
  <2> QED
    BY <1>3, <2>1, <2>2 DEF Unaudited, Written, TypeOK
<1>7. CASE AuditPendingHcm(p)
  <2>1. /\ Active(p) /\ Unaudited(p) /\ Written(p) = "PENDING_HCM"
        /\ auditTail' = [auditTail EXCEPT ![Req(p)] = "PENDING_HCM"]
        /\ UNCHANGED request
    BY <1>7 DEF AuditPendingHcm, Active, Unaudited, Written
  <2>2. poll'[p].pc = "await"
    BY <1>7, SendCallPoll DEF AuditPendingHcm
  <2>3. request[Req(p)] = "PENDING_HCM" /\ Req(p) \in Requests
    BY <2>1, ActiveRow DEF TurnInv, LogLags
  <2> QED
    BY <1>3, <2>1, <2>2, <2>3 DEF Unaudited
<1>8. CASE CallHcm(p)
  <2>1. poll'[p].pc = "await"
    BY <1>8, SendCallPoll DEF CallHcm
  <2> QED
    BY <1>4, <1>8, <2>1 DEF CallHcm, requestVars, Unaudited
<1>9. CASE Approve(p) \/ Reject(p) \/ ConfirmReversal(p) \/ MarkFailed(p)
  <2>1. poll'[p].pc = "settle" /\ ~Unaudited(p) /\ UNCHANGED <<request, auditTail>>
    <3>1. ~Unaudited(p)
      BY <1>9 DEF Approve, Reject, ConfirmReversal, MarkFailed, Resumes, Unaudited
    <3>2. PICK seen, verdict : Settle(p, seen, verdict)
      BY <1>9 DEF Approve, Reject, ConfirmReversal, MarkFailed
    <3>3. poll'[p].pc = "settle"
      BY <3>2, SettlePoll
    <3> QED
      BY <3>1, <3>2, <3>3 DEF Settle
  <2> QED
    BY <1>4, <2>1 DEF Unaudited
<1>10. CASE \/ ScheduleRetry(p)
            \/ SettleRequest(p) /\ ~CanTransition(poll[p].seen, poll[p].verdict)
  <2>1. ~Unaudited(p) /\ UNCHANGED <<request, auditTail>> /\ poll'[p] = Finished(p)
    BY <1>10 DEF ScheduleRetry, SettleRequest, Resumes, Unaudited, requestVars
  <2> QED
    BY <1>4, <2>1, FinishedOK DEF Unaudited
<1>11. CASE SettleRequest(p) /\ CanTransition(poll[p].seen, poll[p].verdict)
  <2>1. /\ Active(p) /\ ~Unaudited(p)
        /\ poll'[p].pc = "close" /\ poll'[p].row = poll[p].row
        /\ poll'[p].verdict = poll[p].verdict
        /\ request' = [request EXCEPT ![Req(p)] = poll[p].verdict]
        /\ UNCHANGED auditTail
    BY <1>11 DEF SettleRequest, Active, Unaudited
  <2>2. Req(p)' = Req(p) /\ Req(p) \in Requests
    BY <2>1, SameRequest, ActiveRow
  <2> HIDE DEF TypeOK, PollRecord
  <2> QED
    BY <1>3, <2>1, <2>2 DEF Unaudited, Written, TypeOK
<1>12. CASE CloseRow(p)
  <2>1. /\ Active(p) /\ Unaudited(p) /\ Written(p) = poll[p].verdict
        /\ poll'[p].pc = "log" /\ poll'[p].row = poll[p].row
        /\ poll'[p].verdict = poll[p].verdict
        /\ UNCHANGED <<request, auditTail>>
    BY <1>12 DEF CloseRow, Active, Unaudited, Written, requestVars
  <2>2. Req(p)' = Req(p) /\ request[Req(p)] = poll[p].verdict
    BY <2>1, SameRequest DEF TurnInv, LogLags
  <2> HIDE DEF TypeOK, PollRecord
  <2> QED
    BY <1>3, <2>1, <2>2 DEF Unaudited, Written
<1>13. CASE AuditVerdict(p)
  <2>1. /\ Active(p) /\ Unaudited(p) /\ Written(p) = poll[p].verdict
        /\ auditTail' = [auditTail EXCEPT ![Req(p)] = poll[p].verdict]
        /\ UNCHANGED request /\ poll'[p] = Finished(p)
    BY <1>13 DEF AuditVerdict, Active, Unaudited, Written
  <2>2. request[Req(p)] = poll[p].verdict /\ Req(p) \in Requests
    BY <2>1, ActiveRow DEF TurnInv, LogLags
  <2> QED
    BY <1>3, <2>1, <2>2, FinishedOK DEF Unaudited
<1> QED
  BY <1>5, <1>6, <1>7, <1>8, <1>9, <1>10, <1>11, <1>12, <1>13 DEF Statement

LEMMA TurnStep == TypeOK /\ TurnInv /\ [Next]_vars => TurnInv'
<1> SUFFICES ASSUME TypeOK, TurnInv, [Next]_vars PROVE TurnInv'
  OBVIOUS
<1>1. OneTurn' /\ RowsKept
  BY OneTurnStep, OutboxStep DEF TurnInv
<1>2. CASE Quiet
  <2>1. UNCHANGED <<request, auditTail, crashes>>
    BY <1>2, QuietKeepsTurns DEF requestVars
  <2>2. \A p \in Polls : Unaudited(p)' = Unaudited(p) /\ Written(p)' = Written(p)
    BY <1>2, QuietKeepsTurns DEF Unaudited, Written
  <2>3. \A p \in Polls : Unaudited(p) => Req(p)' = Req(p)
    BY <1>1, <1>2, QuietKeepsTurns, SameRequest DEF Unaudited, Active
  <2>4. LogLags'
    BY <2>1, <2>2, <2>3 DEF TurnInv, LogLags
  <2> QED
    BY <1>1, <2>4 DEF TurnInv
<1>3. CASE \E r \in Requests : Client(r)
  BY <1>1, <1>3, LagsClient DEF TurnInv
<1>4. CASE \E p \in Polls : StartPoll(p)
  <2>1. PICK p \in Polls : StartPoll(p)
    BY <1>4
  <2>2. \A q \in Polls : ~Unaudited(q)
    BY <2>1 DEF StartPoll, EventLoopFree, InTurn, Unaudited
  <2>3. poll'[p].pc = "next"
    BY <2>1, IdlePollOK DEF StartPoll, TypeOK, PollRecord
  <2>4. \A q \in Polls : ~Unaudited(q)'
    BY <2>1, <2>2, <2>3, OthersKept DEF Others, Unaudited
  <2>5. UNCHANGED <<request, auditTail, crashes>>
    BY <2>1 DEF StartPoll, requestVars
  <2> QED
    BY <1>1, <2>2, <2>4, <2>5 DEF TurnInv, LogLags
<1>5. CASE \E p \in Polls : Statement(p)
  BY <1>1, <1>5, LagsStatement DEF TurnInv
<1>6. CASE Crash
  <2>1. \A p \in Polls : ~Unaudited(p)'
    BY <1>6, IdlePollOK DEF Crash, Unaudited
  <2>2. crashes' # 0
    BY <1>6 DEF Crash, TypeOK
  <2> QED
    BY <1>1, <2>1, <2>2 DEF TurnInv, LogLags
<1> QED
  BY <1>2, <1>3, <1>4, <1>5, <1>6, Kinds

\* Until the first crash the newest audit row of every request is its state
\* whenever no poll is in a turn: for any number of polls that overlap, rows
\* claimed twice, illegal transitions, late answers and cancellations.
THEOREM AuditComplete == Spec => []AuditFollowsState
<1>1. Init => TypeOK /\ TurnInv
  BY TypeInit, TurnInit
<1>2. TypeOK /\ TurnInv /\ [Next]_vars => (TypeOK /\ TurnInv)'
  BY TypeStep, TurnStep
<1>3. TypeOK /\ TurnInv => AuditFollowsState
  <2> SUFFICES ASSUME TypeOK, TurnInv, crashes = 0, EventLoopFree
               PROVE  auditTail = request
    BY DEF AuditFollowsState
  <2>1. \A p \in Polls : ~Unaudited(p)
    BY DEF EventLoopFree, InTurn, Unaudited
  <2> QED
    BY <2>1 DEF TurnInv, LogLags, TypeOK, RequestsTypeOK
<1> QED
  BY <1>1, <1>2, <1>3, PTL DEF Spec

(***************************************************************************)
(* A refusal stands.                                                       *)
(***************************************************************************)
\* The only statements that write to a request, and what they write.
LEMMA RequestWrites ==
  ASSUME TypeOK, [Next]_vars, NEW r \in Requests, request'[r] # request[r]
  PROVE  \/ Client(r) /\ EventLoopFree
         \/ \E p \in Polls : /\ MarkPendingHcm(p) /\ Req(p) = r
                             /\ request[r] = "SUBMITTED" /\ request'[r] = "PENDING_HCM"
         \/ \E p \in Polls : /\ SettleRequest(p) /\ Req(p) = r
                             /\ CanTransition(poll[p].seen, poll[p].verdict)
                             /\ request'[r] = poll[p].verdict
<1> USE DEF TypeOK, RequestsTypeOK
<1>1. CASE Quiet \/ (\E p \in Polls : StartPoll(p)) \/ Crash
  <2>1. UNCHANGED request
    <3> HIDE DEF TypeOK, RequestsTypeOK
    <3> QED
      BY <1>1, QuietKeepsTurns DEF requestVars, StartPoll, Crash
  <2> QED
    BY <2>1
<1>2. CASE \E q \in Requests : Client(q)
  BY <1>2 DEF Client, createRequest, cancelRequest, cancelSubmitted, cancelApproved
<1>3. ASSUME NEW p \in Polls, MarkPendingHcm(p)
      PROVE  Req(p) = r /\ request[r] = "SUBMITTED" /\ request'[r] = "PENDING_HCM"
  BY <1>3 DEF MarkPendingHcm
<1>4. ASSUME NEW p \in Polls, SettleRequest(p)
      PROVE  /\ Req(p) = r /\ CanTransition(poll[p].seen, poll[p].verdict)
             /\ request'[r] = poll[p].verdict
  BY <1>4 DEF SettleRequest
<1>5. ASSUME NEW p \in Polls, Statement(p), ~SettleRequest(p), ~MarkPendingHcm(p)
      PROVE  FALSE
  <2>1. UNCHANGED request
    BY <1>5 DEF Statement, StartRecord, AuditPendingHcm, CallHcm, Approve, Reject,
       ConfirmReversal, MarkFailed, ScheduleRetry, CloseRow, AuditVerdict, Settle, requestVars
  <2> QED
    BY <2>1
<1> HIDE DEF TypeOK, RequestsTypeOK
<1> QED
  BY <1>1, <1>2, <1>3, <1>4, <1>5, Kinds

\* A poll that settles was settling before, or has just handled an answer.
LEMMA SettleFrame ==
  ASSUME TypeOK, [Next]_vars, NEW p \in Polls, poll'[p].pc = "settle"
  PROVE  \/ poll'[p] = [poll[p] EXCEPT !.reply = poll'[p].reply]
         \/ Approve(p) \/ Reject(p) \/ ConfirmReversal(p) \/ MarkFailed(p)
<1>1. CASE Quiet
  <2>1. CASE \E q \in Polls : LoseCall(q) \/ \E reply \in Replies : Answer(q, reply)
    <3>1. PICK q \in Polls : \E reply : poll' = [poll EXCEPT ![q].reply = reply]
      BY <2>1 DEF LoseCall, Answer
    <3> QED
      BY <3>1 DEF TypeOK, PollRecord
  <2>2. CASE ~\E q \in Polls : LoseCall(q) \/ \E reply \in Replies : Answer(q, reply)
    <3>1. UNCHANGED poll
      BY <1>1, <2>2 DEF Quiet, Ripen, LateCall, NextMillisecond, vars
    <3> QED
      BY <3>1 DEF TypeOK, PollRecord
  <2> QED
    BY <2>1, <2>2
<1>2. CASE \E r \in Requests : Client(r)
  BY <1>2 DEF Client, TypeOK, PollRecord
<1>3. CASE Crash
  BY <1>3, IdlePollOK DEF Crash
<1>4. ASSUME NEW q \in Polls, StartPoll(q) \/ Statement(q), q # p
      PROVE  poll'[p] = [poll[p] EXCEPT !.reply = poll'[p].reply]
  BY <1>4, OthersKept DEF Others, TypeOK, PollRecord
<1>5. ASSUME StartPoll(p)
      PROVE  FALSE
  <2>1. poll'[p].pc = "next"
    BY <1>5, StartPollEffect, IdlePollOK DEF PollRecord
  <2> QED
    BY <2>1
<1>6. ASSUME Statement(p), ~Approve(p), ~Reject(p), ~ConfirmReversal(p), ~MarkFailed(p)
      PROVE  FALSE
  <2>1. CASE StartRecord(p)
    BY <2>1, StartRecordEffect, PollType DEF PollRecord
  <2>2. CASE AuditPendingHcm(p) \/ CallHcm(p)
    BY <2>2, SendCallEffect, PollType DEF PollRecord
  <2>3. CASE ScheduleRetry(p) \/ AuditVerdict(p)
    <3>1. poll'[p] = Finished(p)
      BY <2>3, RetryEffect DEF AuditVerdict, TypeOK
    <3> QED
      BY <3>1, FinishedFields
  <2>4. CASE CloseRow(p)
    BY <2>4, CloseEffect, PollType DEF PollRecord
  <2>5. CASE MarkPendingHcm(p)
    BY <2>5, PollType DEF MarkPendingHcm, PollRecord, TypeOK
  <2>6. CASE SettleRequest(p)
    <3>1. poll'[p].pc = "close" \/ poll'[p] = Finished(p)
      BY <2>6, PollType DEF SettleRequest, PollRecord, TypeOK
    <3> QED
      BY <3>1, FinishedFields
  <2> QED
    BY <1>6, <2>1, <2>2, <2>3, <2>4, <2>5, <2>6 DEF Statement
<1> QED
  BY <1>1, <1>2, <1>3, <1>4, <1>5, <1>6, Kinds

\* The books move only when the HCM handles the call of some row.
LEMMA LedgerMoves ==
  ASSUME TypeOK, [Next]_vars
  PROVE  \/ UNCHANGED ledgerVars
         \/ \E i \in Rows : \E reply : HcmHandles(i, reply)
<1>1. CASE Quiet
  <2>1. ASSUME NEW p \in Polls, NEW reply, Answer(p, reply)
        PROVE  poll[p].row \in Rows /\ HcmHandles(poll[p].row, reply)
    BY <2>1, ActiveRow DEF Answer, Unanswered, Active
  <2> QED
    BY <1>1, <2>1 DEF Quiet, LoseCall, Ripen, LateCall, NextMillisecond, vars, ledgerVars
<1>2. CASE \E p \in Polls : Statement(p)
  BY <1>2 DEF Statement, StartRecord, MarkPendingHcm, AuditPendingHcm, CallHcm, Approve,
     Reject, ConfirmReversal, MarkFailed, ScheduleRetry, SettleRequest, CloseRow,
     AuditVerdict, Settle
<1> QED
  BY <1>1, <1>2, Kinds DEF Client, StartPoll, Crash

\* The HCM never gives days back: nothing is cancelled, or it does not find what
\* it is to reverse (as the repository's own mock does not).
NoDaysReturned == MaxCancels = 0 \/ ~HcmFindsByRef

DeductsOnly == MaxCancels = 0 => \A i \in Rows : outbox[i].event = "HCM_DEDUCT"

LEMMA DeductsOnlyStep ==
  ASSUME TypeOK, DeductsOnly, [Next]_vars
  PROVE  DeductsOnly'
<1>1. RowsKept
  BY OutboxStep
<1>2. CASE \E r \in Requests : Client(r)
  <2>1. PICK r \in Requests : Client(r)
    BY <1>2
  <2>2. MaxCancels = 0 => ~cancelApproved(r)
    BY DEF cancelApproved, TypeOK, RequestsTypeOK
  <2>3. NewRow("HCM_DEDUCT", r).event = "HCM_DEDUCT"
    BY DEF NewRow
  <2> QED
    BY <2>1, <2>2, <2>3, ClientRows DEF DeductsOnly, Rows
<1>3. CASE ~\E r \in Requests : Client(r)
  BY <1>1, <1>3, NoNewRows DEF DeductsOnly, RowsKept
<1> QED
  BY <1>2, <1>3

\* The HCM has no deduction for r and no room for one.
Unbookable(r) == hcmTx[r] = "NONE" /\ daysRequested[r] > totalDays - hcmUsed

LEMMA UnbookableStays ==
  ASSUME TypeOK, DeductsOnly, NoDaysReturned, [Next]_vars, NEW r \in Requests, Unbookable(r)
  PROVE  Unbookable(r)'
<1>1. CASE UNCHANGED ledgerVars
  BY <1>1 DEF ledgerVars, Unbookable
<1>2. ASSUME NEW i \in Rows, NEW reply, HcmHandles(i, reply)
      PROVE  Unbookable(r)'
  <2>1. outbox[i].req \in Requests
    BY RowType
  <2>2. CASE Deduct(outbox[i].req, reply)
    BY <2>1, <2>2, LedgerAssumption DEF Deduct, Unbookable, TypeOK, LedgerTypeOK, ledgerVars
  <2>3. CASE outbox[i].event = "HCM_REVERSE" /\ Reverse(outbox[i].req, reply)
    BY <2>3 DEF Reverse, NoDaysReturned, DeductsOnly, Unbookable, ledgerVars
  <2> QED
    BY <1>2, <2>2, <2>3 DEF HcmHandles
<1> QED
  BY <1>1, <1>2, LedgerMoves

\* RejectedIsUnbooked is not inductive: a late call may still come for a refused
\* request.  But what was refused for want of days has no room ever after, from
\* the answer on.
RefusalStands ==
  /\ \A r \in InState({"REJECTED"}) : Unbookable(r)
  /\ \A p \in Polls : Holds(p, {"REFUSED"}) => Unbookable(Req(p))
  /\ \A p \in Polls : poll[p].pc = "settle" /\ poll[p].verdict = "REJECTED" => Unbookable(Req(p))

LEMMA RefusalInit == Init => RefusalStands /\ DeductsOnly
<1> SUFFICES ASSUME Init PROVE RefusalStands /\ DeductsOnly
  OBVIOUS
<1>1. Rows = {}
  BY DEF Init, RequestsInit, Rows
<1> QED
  BY <1>1, IdlePollOK DEF Init, RequestsInit, NotCreated, RefusalStands, InState, Holds, DeductsOnly

LEMMA RefusalStep ==
  ASSUME TypeOK, DeductsOnly, NoDaysReturned, RefusalStands, [Next]_vars
  PROVE  RefusalStands'
<1>1. RowsKept
  BY OutboxStep
<1>2. ASSUME NEW r \in Requests, request'[r] = "REJECTED"
      PROVE  Unbookable(r)
  <2>1. CASE request[r] = "REJECTED"
    BY <2>1 DEF RefusalStands, InState
  <2>2. CASE request[r] # "REJECTED"
    <3>1. ~Client(r)
      BY <1>2, <2>2 DEF Client, createRequest, cancelRequest, cancelSubmitted, cancelApproved,
                        TypeOK, RequestsTypeOK
    <3>2. PICK p \in Polls : SettleRequest(p) /\ Req(p) = r /\ poll[p].verdict = "REJECTED"
      BY <1>2, <2>2, <3>1, RequestWrites
    <3> QED
      BY <3>2 DEF RefusalStands, SettleRequest
  <2> QED
    BY <2>1, <2>2
<1>3. ASSUME NEW p \in Polls, Holds(p, {"REFUSED"})'
      PROVE  Unbookable(Req(p))'
  <2>1. CASE \E reply \in Replies : Answer(p, reply)
    <3>1. PICK reply \in Replies : Answer(p, reply)
      BY <2>1
    <3>2. Active(p) /\ poll'[p].reply = reply /\ poll'[p].row = poll[p].row
      BY <3>1 DEF Answer, Unanswered, Active, TypeOK, PollRecord
    <3>3. Req(p)' = Req(p) /\ Row(p)'.event = Row(p).event /\ Req(p) \in Requests
      BY <1>1, <3>2, SameRow, ActiveRow
    <3>4. Deduct(Req(p), reply) /\ reply.kind = "REFUSED"
      BY <1>3, <3>1, <3>2, <3>3 DEF Holds, Answer, HcmHandles, Row, Req
    <3>5. Unbookable(Req(p))
      BY <3>3, <3>4 DEF Deduct, Reply, Unbookable
    <3> QED
      BY <3>3, <3>5, UnbookableStays
  <2>2. CASE poll'[p] = poll[p]
    <3>1. Active(p)
      BY <1>3, <2>2 DEF Holds, Active
    <3>2. Req(p)' = Req(p) /\ Row(p)'.event = Row(p).event /\ Req(p) \in Requests
      BY <1>1, <2>2, <3>1, SameRow, ActiveRow
    <3>3. Unbookable(Req(p))
      BY <1>3, <2>2, <3>2 DEF Holds, RefusalStands
    <3> QED
      BY <3>2, <3>3, UnbookableStays
  <2> QED
    BY <1>3, <2>1, <2>2, AwaitFrame DEF Holds
<1>4. ASSUME NEW p \in Polls, poll'[p].pc = "settle", poll'[p].verdict = "REJECTED"
      PROVE  Unbookable(Req(p))'
  <2>1. CASE Reject(p)
    <3>1. Active(p) /\ Holds(p, {"REFUSED"}) /\ poll'[p].row = poll[p].row
      BY <2>1, SettlePoll DEF Reject, Resumes, Active, Holds
    <3>2. Req(p)' = Req(p) /\ Req(p) \in Requests
      BY <1>1, <3>1, SameRow, ActiveRow
    <3> QED
      BY <3>1, <3>2, UnbookableStays DEF RefusalStands
  <2>2. CASE Approve(p) \/ ConfirmReversal(p) \/ MarkFailed(p)
    <3>1. poll'[p].verdict # "REJECTED"
      BY <2>2, SettlePoll DEF Approve, ConfirmReversal, MarkFailed
    <3> QED
      BY <1>4, <3>1
  <2>3. CASE poll'[p] = [poll[p] EXCEPT !.reply = poll'[p].reply]
    <3>1. poll[p].pc = "settle" /\ poll[p].verdict = "REJECTED" /\ poll'[p].row = poll[p].row
      BY <1>4, <2>3, PollType DEF PollRecord
    <3>2. Req(p)' = Req(p) /\ Req(p) \in Requests
      BY <1>1, <3>1, SameRow, ActiveRow DEF Active
    <3> QED
      BY <3>1, <3>2, UnbookableStays DEF RefusalStands
  <2> QED
    BY <1>4, <2>1, <2>2, <2>3, SettleFrame
<1> QED
  BY <1>2, <1>3, <1>4, UnbookableStays DEF RefusalStands, InState

\* A refused request has no deduction in the HCM, and no late call can book one,
\* as long as the HCM gives no days back: for any number of polls, double
\* claims, lost, late and repeated calls and crashes.
THEOREM RefusalsStand == NoDaysReturned => (Spec => []RejectedIsUnbooked)
<1> SUFFICES ASSUME NoDaysReturned PROVE Spec => []RejectedIsUnbooked
  OBVIOUS
<1>1. Init => TypeOK /\ RefusalStands /\ DeductsOnly
  BY TypeInit, RefusalInit
<1>2. TypeOK /\ RefusalStands /\ DeductsOnly /\ [Next]_vars
        => (TypeOK /\ RefusalStands /\ DeductsOnly)'
  BY TypeStep, RefusalStep, DeductsOnlyStep
<1>3. RefusalStands => RejectedIsUnbooked
  BY DEF RefusalStands, RejectedIsUnbooked, Unbookable
<1> QED
  BY <1>1, <1>2, <1>3, PTL DEF Spec
=============================================================================
