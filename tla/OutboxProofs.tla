---------------------------- MODULE OutboxProofs ----------------------------
(***************************************************************************)
(* Proofs about OutboxProcessing for every number of requests, polls,      *)
(* cancellations and crashes: type correctness, and that no request is     *)
(* approved without a deduction in the HCM.                                *)
(***************************************************************************)
EXTENDS OutboxProperties, SequenceTheorems, TLAPS

(***************************************************************************)
(* The outbox table.                                                       *)
(***************************************************************************)
\* Every statement keeps the rows it finds: none is deleted, and none changes
\* its request or its event.
RowsKept ==
  /\ Len(outbox') \in Nat
  /\ Len(outbox') >= Len(outbox)
  /\ \A i \in Rows : /\ outbox'[i].req = outbox[i].req
                     /\ outbox'[i].event = outbox[i].event

\* Rewriting one row without touching its request and event keeps the table's
\* type and all rows.
LEMMA RowUpdate ==
  ASSUME NEW i \in Rows, NEW row \in OutboxRow, outbox \in Seq(OutboxRow),
         row.req = outbox[i].req, row.event = outbox[i].event,
         outbox' = [outbox EXCEPT ![i] = row]
  PROVE  outbox' \in Seq(OutboxRow) /\ RowsKept
<1>1. /\ outbox' \in Seq(OutboxRow)
      /\ Len(outbox') = Len(outbox)
      /\ \A j \in 1 .. Len(outbox) : outbox'[j] = IF j = i THEN row ELSE outbox[j]
  BY ExceptSeq DEF Rows
<1> QED
  BY <1>1, LenProperties DEF Rows, RowsKept

LEMMA NoUpdate ==
  ASSUME outbox \in Seq(OutboxRow), UNCHANGED outbox
  PROVE  outbox' \in Seq(OutboxRow) /\ RowsKept
BY LenProperties DEF Rows, RowsKept

LEMMA RowAppend ==
  ASSUME outbox \in Seq(OutboxRow), NEW event \in OutboxEvent, NEW r \in Requests,
         outbox' = Append(outbox, NewRow(event, r))
  PROVE  outbox' \in Seq(OutboxRow) /\ RowsKept
<1>1. NewRow(event, r) \in OutboxRow
  BY DEF NewRow, OutboxRow, OutboxStatus
<1> QED
  BY <1>1, AppendProperties, LenProperties DEF Rows, RowsKept

LEMMA ActiveRow ==
  ASSUME TypeOK, NEW p \in Polls, Active(p)
  PROVE  /\ poll[p] \in PollRecord
         /\ poll[p].row \in Rows
         /\ Row(p) \in OutboxRow
         /\ Req(p) \in Requests
         /\ Days(p) \in Nat \ {0}
<1>1. poll[p] \in PollRecord /\ poll[p].row \in Rows
  BY DEF TypeOK
<1>2. Row(p) \in OutboxRow
  BY <1>1, ElementOfSeq DEF TypeOK, RequestsTypeOK, Rows, Row
<1>3. Req(p) \in Requests
  BY <1>2 DEF Req, OutboxRow
<1> QED
  BY <1>1, <1>2, <1>3, LedgerAssumption DEF Days

LEMMA OutboxClient ==
  ASSUME TypeOK, NEW r \in Requests, Client(r)
  PROVE  outbox' \in Seq(OutboxRow) /\ RowsKept
<1> USE DEF TypeOK, RequestsTypeOK, OutboxEvent
<1>1. CASE createRequest(r)
  BY <1>1, RowAppend DEF createRequest
<1>2. CASE cancelSubmitted(r)
  BY <1>2, NoUpdate DEF cancelSubmitted
<1>3. CASE cancelApproved(r)
  BY <1>3, RowAppend DEF cancelApproved
<1> QED
  BY <1>1, <1>2, <1>3 DEF Client, cancelRequest

\* claimPending rewrites status and ripe of any number of rows.
LEMMA OutboxStartPoll ==
  ASSUME TypeOK, NEW p \in Polls, StartPoll(p)
  PROVE  outbox' \in Seq(OutboxRow) /\ RowsKept
<1> USE DEF TypeOK, RequestsTypeOK
<1> DEFINE marked == Oldest(pendingAfterReset, ClaimLimit)
           row(i) ==
             IF i \in marked THEN [outbox[i] EXCEPT !.status = "PROCESSING", !.ripe = FALSE]
             ELSE IF i \in stuckProcessing THEN [outbox[i] EXCEPT !.status = "PENDING"]
             ELSE outbox[i]
<1>1. outbox' = [i \in 1 .. Len(outbox) |-> row(i)]
  BY DEF StartPoll, Rows
<1>2. Len(outbox) \in Nat
  BY LenProperties
<1>3. \A i \in 1 .. Len(outbox) :
        /\ row(i) \in OutboxRow
        /\ row(i).req = outbox[i].req
        /\ row(i).event = outbox[i].event
  <2> TAKE i \in 1 .. Len(outbox)
  <2>1. outbox[i] \in OutboxRow
    BY ElementOfSeq
  <2> QED
    BY <2>1 DEF OutboxRow, OutboxStatus
<1> HIDE DEF row
<1>4. outbox' \in [1 .. Len(outbox) -> OutboxRow]
  BY <1>1, <1>3
<1>5. outbox' \in Seq(OutboxRow)
  BY <1>2, <1>4
<1>6. Len(outbox') = Len(outbox)
  BY <1>1, <1>2, <1>5, LenProperties
<1> QED
  BY <1>1, <1>2, <1>3, <1>5, <1>6 DEF Rows, RowsKept

LEMMA OutboxStartRecord ==
  ASSUME TypeOK, NEW p \in Polls, StartRecord(p)
  PROVE  outbox' \in Seq(OutboxRow) /\ RowsKept
<1>1. PICK c \in poll[p].claimed :
        outbox' = [outbox EXCEPT ![c.row] =
          [@ EXCEPT !.status = "PROCESSING",
                    !.attempts = IF c.attempts >= MAX_OUTBOX_ATTEMPTS
                                 THEN MAX_OUTBOX_ATTEMPTS + 1 ELSE c.attempts + 1,
                    !.ripe = FALSE]]
  BY DEF StartRecord
<1>2. c.row \in Rows /\ c.attempts \in Nat
  BY DEF TypeOK, PollRecord, Claim
<1> DEFINE n == IF c.attempts >= MAX_OUTBOX_ATTEMPTS
                THEN MAX_OUTBOX_ATTEMPTS + 1 ELSE c.attempts + 1
           row == [outbox[c.row] EXCEPT !.status = "PROCESSING", !.attempts = n, !.ripe = FALSE]
<1>3. n \in Nat
  BY <1>2, PollAssumption
<1>4. outbox[c.row] \in OutboxRow
  BY <1>2, ElementOfSeq DEF TypeOK, RequestsTypeOK, Rows
<1> HIDE DEF n
<1>5. /\ row \in OutboxRow
      /\ row.req = outbox[c.row].req
      /\ row.event = outbox[c.row].event
  BY <1>3, <1>4 DEF OutboxRow, OutboxStatus
<1>6. outbox' = [outbox EXCEPT ![c.row] = row]
  BY <1>1 DEF n
<1> HIDE DEF row
<1> QED
  BY <1>2, <1>5, <1>6, RowUpdate DEF TypeOK, RequestsTypeOK

LEMMA OutboxSendCall ==
  ASSUME TypeOK, NEW p \in Polls, Active(p), NEW seen, SendCall(p, seen)
  PROVE  outbox' \in Seq(OutboxRow) /\ RowsKept
<1> DEFINE n == Row(p).calls
           row == [Row(p) EXCEPT !.calls = IF n > MAX_OUTBOX_ATTEMPTS THEN n ELSE n + 1]
<1>1. poll[p].row \in Rows /\ Row(p) \in OutboxRow
  BY ActiveRow
<1>2. /\ row \in OutboxRow
      /\ row.req = Row(p).req
      /\ row.event = Row(p).event
  BY <1>1, PollAssumption DEF OutboxRow
<1>3. outbox' = [outbox EXCEPT ![poll[p].row] = row]
  BY DEF SendCall, Row
<1> HIDE DEF row
<1> QED
  BY <1>1, <1>2, <1>3, RowUpdate DEF TypeOK, RequestsTypeOK, Row

LEMMA OutboxScheduleRetry ==
  ASSUME TypeOK, NEW p \in Polls, ScheduleRetry(p)
  PROVE  outbox' \in Seq(OutboxRow) /\ RowsKept
<1> DEFINE row == [Row(p) EXCEPT !.status = "PENDING", !.ripe = FALSE,
                                 !.attempts = poll[p].attempts]
<1>1. Active(p)
  BY DEF ScheduleRetry, Resumes, Active
<1>2. poll[p].row \in Rows /\ Row(p) \in OutboxRow /\ poll[p].attempts \in Nat
  BY <1>1, ActiveRow DEF PollRecord
<1>3. /\ row \in OutboxRow
      /\ row.req = Row(p).req
      /\ row.event = Row(p).event
  BY <1>2 DEF OutboxRow, OutboxStatus
<1>4. outbox' = [outbox EXCEPT ![poll[p].row] = row]
  BY DEF ScheduleRetry, Row
<1> HIDE DEF row
<1> QED
  BY <1>2, <1>3, <1>4, RowUpdate DEF TypeOK, RequestsTypeOK, Row

LEMMA OutboxCloseRow ==
  ASSUME TypeOK, NEW p \in Polls, CloseRow(p)
  PROVE  outbox' \in Seq(OutboxRow) /\ RowsKept
<1> DEFINE status == IF poll[p].verdict = "FAILED" THEN "FAILED" ELSE "DONE"
           row == [Row(p) EXCEPT !.status = status]
<1>1. Active(p)
  BY DEF CloseRow, Active
<1>2. poll[p].row \in Rows /\ Row(p) \in OutboxRow
  BY <1>1, ActiveRow
<1>3. /\ row \in OutboxRow
      /\ row.req = Row(p).req
      /\ row.event = Row(p).event
  BY <1>2 DEF OutboxRow, OutboxStatus
<1>4. outbox' = [outbox EXCEPT ![poll[p].row] = row]
  BY DEF CloseRow, Row
<1> HIDE DEF row
<1> QED
  BY <1>2, <1>3, <1>4, RowUpdate DEF TypeOK, RequestsTypeOK, Row

LEMMA OutboxRipen ==
  ASSUME TypeOK, NEW i \in Rows, Ripen(i)
  PROVE  outbox' \in Seq(OutboxRow) /\ RowsKept
<1> DEFINE row == [outbox[i] EXCEPT !.ripe = TRUE]
<1>1. outbox[i] \in OutboxRow
  BY ElementOfSeq DEF TypeOK, RequestsTypeOK, Rows
<1>2. /\ row \in OutboxRow
      /\ row.req = outbox[i].req
      /\ row.event = outbox[i].event
  BY <1>1 DEF OutboxRow
<1>3. outbox' = [outbox EXCEPT ![i] = row]
  BY DEF Ripen
<1> HIDE DEF row
<1> QED
  BY <1>2, <1>3, RowUpdate DEF TypeOK, RequestsTypeOK

\* Every step keeps the outbox table's type and all its rows.
LEMMA OutboxStep ==
  ASSUME TypeOK, [Next]_vars
  PROVE  outbox' \in Seq(OutboxRow) /\ RowsKept
<1> USE NoUpdate DEF TypeOK, RequestsTypeOK
<1>1. ASSUME NEW p \in Polls, Statement(p)
      PROVE  outbox' \in Seq(OutboxRow) /\ RowsKept
  <2>1. CASE StartRecord(p)
    BY <2>1, OutboxStartRecord
  <2>2. CASE AuditPendingHcm(p) \/ CallHcm(p)
    <3>1. Active(p) /\ \E seen : SendCall(p, seen)
      BY <2>2 DEF AuditPendingHcm, CallHcm, Active
    <3> QED
      BY <3>1, OutboxSendCall
  <2>3. CASE ScheduleRetry(p)
    BY <2>3, OutboxScheduleRetry
  <2>4. CASE CloseRow(p)
    BY <2>4, OutboxCloseRow
  <2>5. CASE MarkPendingHcm(p) \/ Approve(p) \/ Reject(p) \/ ConfirmReversal(p)
               \/ MarkFailed(p) \/ SettleRequest(p) \/ AuditVerdict(p)
    <3>1. UNCHANGED outbox
      BY <2>5 DEF MarkPendingHcm, Approve, Reject, ConfirmReversal, MarkFailed,
                  SettleRequest, AuditVerdict, Settle
    <3> QED
      BY <3>1
  <2> QED
    BY <1>1, <2>1, <2>2, <2>3, <2>4, <2>5 DEF Statement
<1>2. ASSUME \/ \E p \in Polls : LoseCall(p) \/ \E reply \in Replies : Answer(p, reply)
             \/ \E i \in Rows, reply \in Replies : LateCall(i, reply)
             \/ NextMillisecond \/ Crash \/ UNCHANGED vars
      PROVE  outbox' \in Seq(OutboxRow) /\ RowsKept
  BY <1>2 DEF LoseCall, Answer, LateCall, NextMillisecond, Crash, vars
<1> QED
  BY <1>1, <1>2, OutboxClient, OutboxStartPoll, OutboxRipen DEF Next

(***************************************************************************)
(* The polls.                                                              *)
(***************************************************************************)
\* What TypeOK says about the polls.
PollsOK ==
  /\ poll \in [Polls -> PollRecord]
  /\ \A p \in Polls : /\ \A c \in poll[p].claimed : c.row \in Rows
                      /\ Active(p) => poll[p].row \in Rows

\* One poll moves on to a well-formed record, whose rows exist.
LEMMA PollUpdate ==
  ASSUME TypeOK, RowsKept, NEW p \in Polls, NEW rec \in PollRecord,
         poll' = [poll EXCEPT ![p] = rec],
         \A c \in rec.claimed : c.row \in Rows,
         rec.pc \notin {"idle", "next"} => rec.row \in Rows
  PROVE  PollsOK'
<1>1. Rows \subseteq Rows'
  BY LenProperties DEF TypeOK, RequestsTypeOK, Rows, RowsKept
<1>2. poll' \in [Polls -> PollRecord]
  BY DEF TypeOK
<1>3. \A q \in Polls : poll'[q] = IF q = p THEN rec ELSE poll[q]
  BY DEF TypeOK
<1> QED
  BY <1>1, <1>2, <1>3 DEF PollsOK, TypeOK, Active

LEMMA PollsUnchanged ==
  ASSUME TypeOK, RowsKept, UNCHANGED poll
  PROVE  PollsOK'
<1>1. Rows \subseteq Rows'
  BY LenProperties DEF TypeOK, RequestsTypeOK, Rows, RowsKept
<1> QED
  BY <1>1 DEF PollsOK, TypeOK, Active

LEMMA IdlePollOK ==
  IdlePoll \in PollRecord /\ IdlePoll.claimed = {} /\ IdlePoll.pc = "idle"
BY DEF IdlePoll, PollRecord, PollPc, Verdict, NoReply, Reply, ReplyKind, Absent

LEMMA FinishedOK ==
  ASSUME TypeOK, NEW p \in Polls
  PROVE  /\ Finished(p) \in PollRecord
         /\ Finished(p).claimed \subseteq poll[p].claimed
         /\ Finished(p).pc \in {"idle", "next"}
<1>1. poll[p].claimed \in SUBSET Claim /\ poll[p].served \in Nat
  BY DEF TypeOK, PollRecord
<1>2. CASE poll[p].claimed = {}
  BY <1>2, IdlePollOK DEF Finished
<1>3. CASE poll[p].claimed # {}
  <2> DEFINE claims == poll[p].claimed
             n == poll[p].served + 1
             rec == [IdlePoll EXCEPT !.pc = "next", !.claimed = claims, !.served = n]
  <2>1. Finished(p) = rec
    BY <1>3 DEF Finished
  <2>2. claims \in SUBSET Claim /\ n \in Nat
    BY <1>1
  <2> HIDE DEF claims, n
  <2>3. rec \in PollRecord /\ rec.claimed = claims /\ rec.pc = "next"
    BY <2>2, IdlePollOK DEF PollRecord, PollPc
  <2> QED
    BY <2>1, <2>3 DEF claims
<1> QED
  BY <1>2, <1>3

\* A poll that finishes its record keeps the rows it has claimed.
LEMMA PollFinishes ==
  ASSUME TypeOK, RowsKept, NEW p \in Polls, poll' = [poll EXCEPT ![p] = Finished(p)]
  PROVE  PollsOK'
<1>1. \A c \in Finished(p).claimed : c.row \in Rows
  BY FinishedOK DEF TypeOK
<1> QED
  BY <1>1, FinishedOK, PollUpdate

\* A poll that goes on with its record: only pc, seen, verdict and reply change.
LEMMA PollContinues ==
  ASSUME TypeOK, RowsKept, NEW p \in Polls, Active(p), NEW rec \in PollRecord,
         poll' = [poll EXCEPT ![p] = rec],
         rec.row = poll[p].row, rec.claimed = poll[p].claimed
  PROVE  PollsOK'
<1>1. \A c \in rec.claimed : c.row \in Rows
  BY DEF TypeOK
<1>2. rec.row \in Rows
  BY ActiveRow
<1> QED
  BY <1>1, <1>2, PollUpdate

LEMMA PollsStartPoll ==
  ASSUME TypeOK, RowsKept, NEW p \in Polls, StartPoll(p)
  PROVE  PollsOK'
<1> USE DEF TypeOK, RequestsTypeOK
<1> DEFINE marked == Oldest(pendingAfterReset, ClaimLimit)
           sameStamp == IF SameMillisecond
                        THEN {i \in stamped : outbox[i].status = "PROCESSING"}
                        ELSE {}
           claims == {[row |-> i, attempts |-> outbox[i].attempts] : i \in marked \cup sameStamp}
           rec == [IdlePoll EXCEPT !.pc = "next", !.claimed = claims]
<1>1. marked \cup sameStamp \subseteq Rows
  BY DEF Oldest, pendingAfterReset, stuckProcessing
<1>2. \A i \in Rows : i \in Nat /\ outbox[i].attempts \in Nat
  <2> TAKE i \in Rows
  <2>1. outbox[i] \in OutboxRow
    BY ElementOfSeq DEF Rows
  <2> QED
    BY <2>1, LenProperties DEF OutboxRow, Rows
<1>3. claims \subseteq Claim /\ \A c \in claims : c.row \in Rows
  BY <1>1, <1>2 DEF Claim
<1>4. poll' = [poll EXCEPT ![p] = rec]
  BY DEF StartPoll
<1> HIDE DEF claims
<1>5. rec \in PollRecord /\ rec.claimed = claims /\ rec.pc = "next"
  BY <1>3, IdlePollOK DEF PollRecord, PollPc
<1> HIDE DEF rec
<1> QED
  BY <1>3, <1>4, <1>5, PollUpdate

LEMMA PollsStartRecord ==
  ASSUME TypeOK, RowsKept, NEW p \in Polls, StartRecord(p)
  PROVE  PollsOK'
<1>1. PICK c \in poll[p].claimed, n \in Nat :
        poll' = [poll EXCEPT ![p] = [@ EXCEPT
           !.pc = IF n > MAX_OUTBOX_ATTEMPTS THEN "exhausted" ELSE "load",
           !.claimed = poll[p].claimed \ {c}, !.row = c.row, !.attempts = n]]
  <2>1. PICK c \in poll[p].claimed :
          LET n == IF c.attempts >= MAX_OUTBOX_ATTEMPTS
                   THEN MAX_OUTBOX_ATTEMPTS + 1 ELSE c.attempts + 1
          IN  poll' = [poll EXCEPT ![p] = [@ EXCEPT
                 !.pc = IF n > MAX_OUTBOX_ATTEMPTS THEN "exhausted" ELSE "load",
                 !.claimed = poll[p].claimed \ {c}, !.row = c.row, !.attempts = n]]
    BY DEF StartRecord
  <2>2. c.attempts \in Nat
    BY DEF TypeOK, PollRecord, Claim
  <2> DEFINE n == IF c.attempts >= MAX_OUTBOX_ATTEMPTS
                  THEN MAX_OUTBOX_ATTEMPTS + 1 ELSE c.attempts + 1
  <2>3. n \in Nat
    BY <2>2, PollAssumption
  <2> HIDE DEF n
  <2> QED
    BY <2>1, <2>3 DEF n
<1> DEFINE rec == [poll[p] EXCEPT
           !.pc = IF n > MAX_OUTBOX_ATTEMPTS THEN "exhausted" ELSE "load",
           !.claimed = poll[p].claimed \ {c}, !.row = c.row, !.attempts = n]
<1>2. poll[p] \in PollRecord
  BY DEF TypeOK
<1>3. /\ rec \in PollRecord
      /\ rec.claimed \subseteq poll[p].claimed
      /\ rec.row = c.row
  BY <1>2 DEF PollRecord, PollPc, Claim
<1>4. \A d \in poll[p].claimed : d.row \in Rows
  BY DEF TypeOK
<1>5. poll' = [poll EXCEPT ![p] = rec]
  BY <1>1
<1> HIDE DEF rec
<1> QED
  BY <1>3, <1>4, <1>5, PollUpdate

\* A poll inside process() moves on to another pc with the same record.
LEMMA PollsSettling ==
  ASSUME TypeOK, RowsKept, NEW p \in Polls, Active(p),
         NEW pc \in PollPc, NEW seen \in RequestState \cup {NotCreated},
         NEW verdict \in Verdict, NEW reply \in [kind: ReplyKind, used: Nat \cup {Absent}],
         poll' = [poll EXCEPT ![p] =
           [@ EXCEPT !.pc = pc, !.seen = seen, !.verdict = verdict, !.reply = reply]]
  PROVE  PollsOK'
<1> DEFINE rec == [poll[p] EXCEPT !.pc = pc, !.seen = seen, !.verdict = verdict, !.reply = reply]
<1>1. poll[p] \in PollRecord
  BY ActiveRow
<1>2. rec \in PollRecord /\ rec.row = poll[p].row /\ rec.claimed = poll[p].claimed
  BY <1>1 DEF PollRecord
<1>3. poll' = [poll EXCEPT ![p] = rec]
  OBVIOUS
<1> HIDE DEF rec
<1> QED
  BY <1>2, <1>3, PollContinues

LEMMA ReplyTypes ==
  /\ NoReply \in [kind: ReplyKind, used: Nat \cup {Absent}]
  /\ Sent \in [kind: ReplyKind, used: Nat \cup {Absent}]
  /\ NoAnswer \in [kind: ReplyKind, used: Nat \cup {Absent}]
  /\ Replies \subseteq [kind: ReplyKind, used: Nat \cup {Absent}]
<1>1. \A kind \in ReplyKind, n \in Nat \cup {Absent} : Reply(kind, n) \in [kind: ReplyKind, used: Nat \cup {Absent}]
  BY DEF Reply
<1>2. \A n \in 0 .. totalDays : n \in Nat
  BY LedgerAssumption
<1> QED
  BY <1>1, <1>2 DEF NoReply, Sent, NoAnswer, Replies, ReplyKind

\* The steps of process() that only write some of pc, seen, verdict and reply.
LEMMA PollsInProcess ==
  ASSUME TypeOK, RowsKept, NEW p \in Polls,
         \/ MarkPendingHcm(p) \/ AuditPendingHcm(p) \/ CallHcm(p) \/ LoseCall(p)
         \/ \E reply \in Replies : Answer(p, reply)
         \/ Approve(p) \/ Reject(p) \/ ConfirmReversal(p) \/ MarkFailed(p)
         \/ CloseRow(p)
         \/ SettleRequest(p) /\ CanTransition(poll[p].seen, poll[p].verdict)
  PROVE  PollsOK'
<1>1. Active(p)
  BY DEF Active, MarkPendingHcm, AuditPendingHcm, CallHcm, LoseCall, Answer, Unanswered,
         Approve, Reject, ConfirmReversal, MarkFailed, Resumes, CloseRow, SettleRequest
<1>2. /\ poll[p] \in PollRecord
      /\ request[Req(p)] \in RequestState \cup {NotCreated}
  BY <1>1, ActiveRow DEF TypeOK, RequestsTypeOK
<1>3. /\ poll[p].pc \in PollPc
      /\ poll[p].seen \in RequestState \cup {NotCreated}
      /\ poll[p].verdict \in Verdict
      /\ poll[p].reply \in [kind: ReplyKind, used: Nat \cup {Absent}]
  BY <1>2 DEF PollRecord
<1>4. \E pc \in PollPc, seen \in RequestState \cup {NotCreated},
         verdict \in Verdict, reply \in [kind: ReplyKind, used: Nat \cup {Absent}] :
        poll' = [poll EXCEPT ![p] =
          [@ EXCEPT !.pc = pc, !.seen = seen, !.verdict = verdict, !.reply = reply]]
  <2> DEFINE Kept(pc, seen, verdict, reply) ==
        [poll[p] EXCEPT !.pc = pc, !.seen = seen, !.verdict = verdict, !.reply = reply]
  <2>1. \A pc, seen, verdict, reply :
          /\ [poll[p] EXCEPT !.pc = pc] = Kept(pc, poll[p].seen, poll[p].verdict, poll[p].reply)
          /\ [poll[p] EXCEPT !.reply = reply]
               = Kept(poll[p].pc, poll[p].seen, poll[p].verdict, reply)
          /\ [poll[p] EXCEPT !.pc = pc, !.seen = seen, !.reply = reply]
               = Kept(pc, seen, poll[p].verdict, reply)
    BY <1>2 DEF PollRecord
  <2> SUFFICES \E pc \in PollPc, seen \in RequestState \cup {NotCreated},
                  verdict \in Verdict, reply \in [kind: ReplyKind, used: Nat \cup {Absent}] :
                 poll' = [poll EXCEPT ![p] = Kept(pc, seen, verdict, reply)]
    OBVIOUS
  <2> HIDE DEF Kept
  <2>2. CASE \/ MarkPendingHcm(p) \/ CloseRow(p)
             \/ SettleRequest(p) /\ CanTransition(poll[p].seen, poll[p].verdict)
    <3>1. PICK pc \in PollPc : poll' = [poll EXCEPT ![p] = [@ EXCEPT !.pc = pc]]
      BY <2>2 DEF MarkPendingHcm, CloseRow, SettleRequest, PollPc
    <3>2. poll' = [poll EXCEPT ![p] = Kept(pc, poll[p].seen, poll[p].verdict, poll[p].reply)]
      BY <2>1, <3>1
    <3> QED
      BY <1>3, <3>2
  <2>3. CASE LoseCall(p) \/ \E reply \in Replies : Answer(p, reply)
    <3>1. PICK reply \in [kind: ReplyKind, used: Nat \cup {Absent}] :
            poll' = [poll EXCEPT ![p] = [@ EXCEPT !.reply = reply]]
      BY <2>3, ReplyTypes DEF LoseCall, Answer
    <3>2. poll' = [poll EXCEPT ![p] = Kept(poll[p].pc, poll[p].seen, poll[p].verdict, reply)]
      BY <2>1, <3>1
    <3> QED
      BY <1>3, <3>2
  <2>4. CASE AuditPendingHcm(p) \/ CallHcm(p)
    <3>1. PICK seen \in RequestState \cup {NotCreated} :
            poll' = [poll EXCEPT ![p] = [@ EXCEPT !.pc = "await", !.seen = seen, !.reply = Sent]]
      BY <1>2, <2>4 DEF AuditPendingHcm, CallHcm, SendCall, RequestState
    <3>2. poll' = [poll EXCEPT ![p] = Kept("await", seen, poll[p].verdict, Sent)]
      <4>1. [poll[p] EXCEPT !.pc = "await", !.seen = seen, !.reply = Sent]
              = Kept("await", seen, poll[p].verdict, Sent)
        BY <1>2 DEF PollRecord, Kept
      <4> QED
        BY <3>1, <4>1
    <3> QED
      BY <1>3, <3>2, ReplyTypes DEF PollPc
  <2>5. CASE Approve(p) \/ Reject(p) \/ ConfirmReversal(p) \/ MarkFailed(p)
    <3>1. PICK seen \in RequestState \cup {NotCreated}, verdict \in Verdict : Settle(p, seen, verdict)
      BY <1>2, <1>3, <2>5 DEF Approve, Reject, ConfirmReversal, MarkFailed, Verdict
    <3>2. poll' = [poll EXCEPT ![p] = Kept("settle", seen, verdict, NoReply)]
      BY <3>1 DEF Settle, Kept
    <3> QED
      BY <3>2, ReplyTypes DEF PollPc
  <2> QED
    BY <2>2, <2>3, <2>4, <2>5
<1>5. PICK pc \in PollPc, seen \in RequestState \cup {NotCreated},
           verdict \in Verdict, reply \in [kind: ReplyKind, used: Nat \cup {Absent}] :
        poll' = [poll EXCEPT ![p] =
          [@ EXCEPT !.pc = pc, !.seen = seen, !.verdict = verdict, !.reply = reply]]
  BY <1>4
<1> QED
  BY <1>1, <1>5, PollsSettling

LEMMA PollsStep ==
  ASSUME TypeOK, RowsKept, [Next]_vars
  PROVE  PollsOK'
<1>1. CASE \E p \in Polls : Statement(p) \/ LoseCall(p) \/ \E reply \in Replies : Answer(p, reply)
  <2>1. PICK p \in Polls : Statement(p) \/ LoseCall(p) \/ \E reply \in Replies : Answer(p, reply)
    BY <1>1
  <2>2. CASE StartRecord(p)
    BY <2>2, PollsStartRecord
  <2>3. CASE \/ ScheduleRetry(p) \/ AuditVerdict(p)
             \/ SettleRequest(p) /\ ~CanTransition(poll[p].seen, poll[p].verdict)
    BY <2>3, PollFinishes DEF ScheduleRetry, AuditVerdict, SettleRequest
  <2> QED
    BY <2>1, <2>2, <2>3, PollsInProcess DEF Statement
<1>2. CASE \E p \in Polls : StartPoll(p)
  BY <1>2, PollsStartPoll
<1>3. CASE Crash
  <2>1. poll' = [p \in Polls |-> IdlePoll]
    BY <1>3 DEF Crash
  <2> QED
    BY <2>1, IdlePollOK DEF PollsOK, Active
<1>4. CASE \/ \E r \in Requests : Client(r)
           \/ \E i \in Rows : Ripen(i) \/ \E reply \in Replies : LateCall(i, reply)
           \/ NextMillisecond \/ UNCHANGED vars
  <2>1. UNCHANGED poll
    BY <1>4 DEF Client, Ripen, LateCall, NextMillisecond, vars
  <2> QED
    BY <2>1, PollsUnchanged
<1> QED
  BY <1>1, <1>2, <1>3, <1>4 DEF Next

(***************************************************************************)
(* The ledger, the requests and the rest: type correctness.                *)
(***************************************************************************)
\* A call the HCM handles leaves the ledger well formed and forgets no
\* transaction.
LEMMA LedgerCall ==
  ASSUME TypeOK, NEW i \in Rows, NEW reply, HcmHandles(i, reply)
  PROVE  /\ LedgerTypeOK'
         /\ \A r \in Requests : hcmTx[r] # "NONE" => hcmTx'[r] # "NONE"
<1>1. outbox[i].req \in Requests
  <2>1. outbox[i] \in OutboxRow
    BY ElementOfSeq DEF TypeOK, RequestsTypeOK, Rows
  <2> QED
    BY <2>1 DEF OutboxRow
<1>2. ASSUME NEW r \in Requests, Deduct(r, reply) \/ Reverse(r, reply)
      PROVE  /\ LedgerTypeOK'
             /\ \A q \in Requests : hcmTx[q] # "NONE" => hcmTx'[q] # "NONE"
  BY <1>2, LedgerAssumption
     DEF TypeOK, LedgerTypeOK, Deduct, Reverse, Restored, ledgerVars
<1> QED
  BY <1>1, <1>2 DEF HcmHandles

LEMMA LedgerStep ==
  ASSUME TypeOK, [Next]_vars
  PROVE  /\ LedgerTypeOK'
         /\ \A r \in Requests : hcmTx[r] # "NONE" => hcmTx'[r] # "NONE"
<1>1. ASSUME NEW i \in Rows, NEW reply, HcmHandles(i, reply)
      PROVE  /\ LedgerTypeOK'
             /\ \A r \in Requests : hcmTx[r] # "NONE" => hcmTx'[r] # "NONE"
  BY <1>1, LedgerCall
<1>2. ASSUME UNCHANGED ledgerVars
      PROVE  /\ LedgerTypeOK'
             /\ \A r \in Requests : hcmTx[r] # "NONE" => hcmTx'[r] # "NONE"
  BY <1>2 DEF TypeOK, LedgerTypeOK, ledgerVars
<1>3. CASE \E p \in Polls, reply \in Replies : Answer(p, reply)
  <2>1. PICK p \in Polls, reply \in Replies : Answer(p, reply)
    BY <1>3
  <2>2. poll[p].row \in Rows
    BY <2>1, ActiveRow DEF Answer, Unanswered, Active
  <2> QED
    BY <1>1, <2>1, <2>2 DEF Answer
<1>4. CASE \E i \in Rows, reply \in Replies : LateCall(i, reply)
  BY <1>1, <1>4 DEF LateCall
<1>5. ASSUME NEW p \in Polls, Statement(p)
      PROVE  UNCHANGED ledgerVars
  BY <1>5 DEF Statement, StartRecord, MarkPendingHcm, AuditPendingHcm, CallHcm, Approve,
     Reject, ConfirmReversal, MarkFailed, ScheduleRetry, SettleRequest, CloseRow,
     AuditVerdict, Settle, ledgerVars
<1>6. CASE \/ \E r \in Requests : Client(r)
           \/ \E p \in Polls : StartPoll(p) \/ LoseCall(p)
           \/ \E i \in Rows : Ripen(i)
           \/ NextMillisecond \/ Crash \/ UNCHANGED vars
  <2>1. UNCHANGED ledgerVars
    BY <1>6 DEF Client, StartPoll, LoseCall, Ripen, NextMillisecond, Crash, vars, ledgerVars
  <2> QED
    BY <1>2, <2>1
<1> QED
  BY <1>2, <1>3, <1>4, <1>5, <1>6 DEF Next

LEMMA MinusType == \A a, b \in Nat : Minus(a, b) \in Nat
BY DEF Minus

\* What TypeOK says about the columns of the requests and the balance.
RequestsOK ==
  /\ request \in [Requests -> RequestState \cup {NotCreated}]
  /\ auditTail \in [Requests -> RequestState \cup {NotCreated}]
  /\ used \in Nat
  /\ pending \in Nat
  /\ cancels \in Nat

LEMMA RequestsClient ==
  ASSUME TypeOK, NEW r \in Requests, Client(r)
  PROVE  RequestsOK'
<1>1. daysRequested[r] \in Nat
  BY LedgerAssumption
<1>2. Minus(pending, daysRequested[r]) \in Nat
  BY <1>1, MinusType DEF TypeOK, RequestsTypeOK
<1> USE DEF TypeOK, RequestsTypeOK, RequestsOK, RequestState
<1>3. CASE createRequest(r)
  BY <1>1, <1>3 DEF createRequest
<1>4. CASE cancelSubmitted(r)
  BY <1>2, <1>4 DEF cancelSubmitted
<1>5. CASE cancelApproved(r)
  BY <1>5 DEF cancelApproved
<1> QED
  BY <1>3, <1>4, <1>5 DEF Client, cancelRequest

LEMMA RequestsStatement ==
  ASSUME TypeOK, NEW p \in Polls, Statement(p)
  PROVE  RequestsOK'
<1> USE DEF TypeOK, RequestsTypeOK, RequestsOK
<1>1. CASE StartRecord(p) \/ CallHcm(p) \/ ScheduleRetry(p) \/ CloseRow(p)
  BY <1>1 DEF StartRecord, CallHcm, ScheduleRetry, CloseRow, requestVars
<1>2. CASE MarkPendingHcm(p) \/ AuditPendingHcm(p)
  BY <1>2 DEF MarkPendingHcm, AuditPendingHcm, RequestState
<1>3. CASE SettleRequest(p) \/ AuditVerdict(p)
  <2>1. poll[p].verdict \in RequestState
    BY DEF PollRecord, Verdict, RequestState
  <2> QED
    BY <1>3, <2>1 DEF SettleRequest, AuditVerdict
<1>4. CASE Approve(p) \/ Reject(p) \/ ConfirmReversal(p) \/ MarkFailed(p)
  <2>1. Active(p)
    BY <1>4 DEF Approve, Reject, ConfirmReversal, MarkFailed, Resumes, Active
  <2>2. Days(p) \in Nat /\ poll[p] \in PollRecord
    BY <2>1, ActiveRow
  <2>3. Minus(pending, Days(p)) \in Nat /\ Minus(used, Days(p)) \in Nat /\ used + Days(p) \in Nat
    <3>1. used \in Nat /\ pending \in Nat
      OBVIOUS
    <3>2. \A a, b \in Nat : a + b \in Nat
      OBVIOUS
    <3> HIDE DEF TypeOK, RequestsTypeOK, RequestsOK
    <3> QED
      BY <2>2, <3>1, <3>2, MinusType
  <2>4. Approve(p) \/ ConfirmReversal(p) => used' \in Nat
    <3>1. poll[p].reply.used = Absent \/ poll[p].reply.used \in Nat
      BY DEF PollRecord
    <3> QED
      BY <2>3, <3>1 DEF Approve, ConfirmReversal, AnsweredUsed
  <2> QED
    BY <1>4, <2>3, <2>4 DEF Approve, Reject, ConfirmReversal, MarkFailed, Settle
<1> QED
  BY <1>1, <1>2, <1>3, <1>4 DEF Statement

LEMMA RequestsStep ==
  ASSUME TypeOK, [Next]_vars
  PROVE  RequestsOK'
<1>1. CASE \/ \E p \in Polls : StartPoll(p) \/ LoseCall(p) \/ \E reply \in Replies : Answer(p, reply)
           \/ \E i \in Rows : Ripen(i) \/ \E reply \in Replies : LateCall(i, reply)
           \/ NextMillisecond \/ Crash \/ UNCHANGED vars
  <2>1. UNCHANGED requestVars
    BY <1>1 DEF StartPoll, LoseCall, Answer, Ripen, LateCall, NextMillisecond, Crash, vars,
                requestVars
  <2> QED
    BY <2>1 DEF TypeOK, RequestsTypeOK, RequestsOK, requestVars
<1> QED
  BY <1>1, RequestsClient, RequestsStatement DEF Next

\* stamped, late and crashes.
LEMMA RestStep ==
  ASSUME TypeOK, RowsKept, [Next]_vars
  PROVE  stamped' \subseteq Rows' /\ late' \subseteq Rows' /\ crashes' \in Nat
<1>1. Rows \subseteq Rows'
  BY LenProperties DEF TypeOK, RequestsTypeOK, Rows, RowsKept
<1> SUFFICES stamped' \subseteq Rows /\ late' \subseteq Rows /\ crashes' \in Nat
  BY <1>1
<1> USE DEF TypeOK
<1>2. ASSUME NEW p \in Polls, Statement(p)
      PROVE  stamped' \subseteq Rows /\ UNCHANGED <<late, crashes>>
  <2>1. CASE StartRecord(p)
    BY <2>1 DEF StartRecord
  <2>2. CASE ~StartRecord(p)
    BY <1>2, <2>2 DEF Statement, MarkPendingHcm, AuditPendingHcm, CallHcm, Approve, Reject,
       ConfirmReversal, MarkFailed, ScheduleRetry, SettleRequest, CloseRow, AuditVerdict, Settle
  <2> QED
    BY <2>1, <2>2
<1>3. ASSUME NEW p \in Polls, LoseCall(p)
      PROVE  late' \subseteq Rows /\ UNCHANGED <<stamped, crashes>>
  <2>1. poll[p].row \in Rows
    BY <1>3 DEF LoseCall, Active
  <2> QED
    BY <1>3, <2>1 DEF LoseCall
<1>4. CASE Crash
  <2>1. \A p \in Polls : Unanswered(p) => poll[p].row \in Rows
    BY DEF Unanswered, Active
  <2> QED
    BY <1>4, <2>1 DEF Crash
<1>5. CASE \/ \E r \in Requests : Client(r)
           \/ \E p \in Polls : StartPoll(p) \/ \E reply \in Replies : Answer(p, reply)
           \/ \E i \in Rows : Ripen(i) \/ \E reply \in Replies : LateCall(i, reply)
           \/ NextMillisecond \/ UNCHANGED vars
  BY <1>5 DEF Client, StartPoll, Answer, Ripen, LateCall, NextMillisecond, vars
<1> QED
  BY <1>2, <1>3, <1>4, <1>5 DEF Next

LEMMA TypeInit == Init => TypeOK
<1> SUFFICES ASSUME Init PROVE TypeOK
  OBVIOUS
<1>1. LedgerTypeOK
  BY LedgerAssumption DEF Init, LedgerInit, LedgerTypeOK
<1>2. RequestsTypeOK
  BY EmptySeq DEF Init, RequestsInit, RequestsTypeOK
<1>3. /\ poll \in [Polls -> PollRecord]
      /\ \A p \in Polls : poll[p].claimed = {} /\ ~Active(p)
  BY IdlePollOK DEF Init, Active
<1> QED
  BY <1>1, <1>2, <1>3 DEF TypeOK, Init

LEMMA TypeStep == TypeOK /\ [Next]_vars => TypeOK'
<1> SUFFICES ASSUME TypeOK, [Next]_vars PROVE TypeOK'
  OBVIOUS
<1>1. outbox' \in Seq(OutboxRow) /\ RowsKept
  BY OutboxStep
<1>2. PollsOK' /\ LedgerTypeOK' /\ RequestsOK'
  BY <1>1, PollsStep, LedgerStep, RequestsStep
<1>3. stamped' \subseteq Rows' /\ late' \subseteq Rows' /\ crashes' \in Nat
  BY <1>1, RestStep
<1> QED
  BY <1>1, <1>2, <1>3 DEF TypeOK, RequestsTypeOK, RequestsOK, PollsOK

\* In every behaviour each variable keeps its type: the balance never goes
\* negative, no poll works on a row that does not exist, and the request column
\* holds only states of the state machine.
THEOREM TypeCorrect == Spec => []TypeOK
BY TypeInit, TypeStep, PTL DEF Spec

(***************************************************************************)
(* No approval without a deduction.                                        *)
(***************************************************************************)
\* ApprovedIsConfirmed is not inductive: a poll approves on what it was
\* answered before.  What it holds at each point must itself be backed by the
\* ledger, which forgets no transaction.
Holds(p, kinds) ==
  /\ poll[p].pc = "await"
  /\ Row(p).event = "HCM_DEDUCT"
  /\ poll[p].reply.kind \in kinds

AnswerIsBacked ==
  \A p \in Polls : Holds(p, {"OK", "DUPLICATE"}) => hcmTx[Req(p)] # "NONE"

VerdictIsBacked ==
  \A p \in Polls :
    poll[p].pc = "settle" /\ poll[p].verdict = "APPROVED" => hcmTx[Req(p)] # "NONE"

Backed == ApprovedIsConfirmed /\ AnswerIsBacked /\ VerdictIsBacked

LEMMA BackedInit == Init => Backed
BY IdlePollOK DEF Init, RequestsInit, NotCreated, Backed, ApprovedIsConfirmed, InState,
   AnswerIsBacked, Holds, VerdictIsBacked

\* A row in the hands of a poll names the same request and event afterwards.
LEMMA SameRow ==
  ASSUME TypeOK, RowsKept, NEW p \in Polls, Active(p), poll'[p].row = poll[p].row
  PROVE  Row(p)'.event = Row(p).event /\ Req(p)' = Req(p)
<1>1. poll[p].row \in Rows
  BY ActiveRow
<1> QED
  BY <1>1 DEF RowsKept, Row, Req

\* An answer 200 or 409 to a deduction means that the HCM has the transaction.
LEMMA AnswerBacked ==
  ASSUME TypeOK, RowsKept, NEW p \in Polls, NEW reply, Answer(p, reply), Holds(p, {"OK", "DUPLICATE"})'
  PROVE  hcmTx'[Req(p)'] # "NONE"
<1>1. Active(p) /\ poll[p] \in PollRecord
  BY DEF Answer, Unanswered, Active, TypeOK
<1>2. poll' = [poll EXCEPT ![p].reply = reply] /\ UNCHANGED outbox
  BY DEF Answer
<1>3. poll'[p].reply = reply /\ poll'[p].row = poll[p].row
  BY <1>1, <1>2 DEF TypeOK, PollRecord
<1>4. Row(p)'.event = Row(p).event /\ Req(p)' = Req(p)
  BY <1>1, <1>3, SameRow
<1>5. Row(p).event = "HCM_DEDUCT" /\ reply.kind \in {"OK", "DUPLICATE"}
  BY <1>3, <1>4 DEF Holds
<1>6. Deduct(Req(p), reply)
  BY <1>5 DEF Answer, HcmHandles, Row, Req
<1>7. Req(p) \in Requests
  BY <1>1, ActiveRow
<1> QED
  BY <1>4, <1>5, <1>6, <1>7 DEF Deduct, Reply, ledgerVars, TypeOK, LedgerTypeOK

LEMMA SendCallPoll ==
  ASSUME TypeOK, NEW p \in Polls, NEW seen, SendCall(p, seen)
  PROVE  poll'[p].pc = "await" /\ poll'[p].reply = Sent
BY DEF TypeOK, PollRecord, SendCall

LEMMA SettlePoll ==
  ASSUME TypeOK, NEW p \in Polls, NEW seen, NEW verdict, Settle(p, seen, verdict)
  PROVE  /\ poll'[p].pc = "settle"
         /\ poll'[p].verdict = verdict
         /\ poll'[p].row = poll[p].row
BY DEF TypeOK, PollRecord, Settle

\* What a step makes of a poll that awaits: only the HCM changes the answer it
\* holds.
LEMMA AwaitFrame ==
  ASSUME TypeOK, [Next]_vars, NEW p \in Polls, poll'[p].pc = "await",
         poll'[p].reply.kind \notin {"SENT", "NO_ANSWER"}
  PROVE  \/ \E reply \in Replies : Answer(p, reply)
         \/ poll'[p] = poll[p]
<1> USE DEF TypeOK
<1>1. IdlePoll.pc # "await" /\ Finished(p).pc # "await"
  BY IdlePollOK, FinishedOK
<1>2. ASSUME NEW q \in Polls, Statement(q), q # p
      PROVE  poll'[p] = poll[p]
  BY <1>2 DEF Statement, StartRecord, MarkPendingHcm, AuditPendingHcm, CallHcm, SendCall, Approve,
     Reject, ConfirmReversal, MarkFailed, ScheduleRetry, SettleRequest, CloseRow, AuditVerdict, Settle
<1>3. ASSUME Statement(p)
      PROVE  FALSE
  <2>1. poll[p] \in PollRecord
    OBVIOUS
  <2>2. CASE StartRecord(p)
    <3>1. poll'[p].pc \in {"exhausted", "load"}
      BY <2>1, <2>2 DEF StartRecord, PollRecord
    <3> QED
      BY <3>1
  <2>3. CASE AuditPendingHcm(p) \/ CallHcm(p)
    <3>1. poll'[p].reply = Sent
      BY <2>3, SendCallPoll DEF AuditPendingHcm, CallHcm
    <3> QED
      BY <3>1 DEF Sent, Reply
  <2>4. CASE MarkPendingHcm(p) \/ CloseRow(p)
    BY <2>1, <2>4 DEF MarkPendingHcm, CloseRow, PollRecord
  <2>5. CASE Approve(p) \/ Reject(p) \/ ConfirmReversal(p) \/ MarkFailed(p)
    <3>1. poll'[p].pc = "settle"
      BY <2>5, SettlePoll DEF Approve, Reject, ConfirmReversal, MarkFailed
    <3> QED
      BY <3>1
  <2>6. CASE ScheduleRetry(p) \/ AuditVerdict(p)
    BY <1>1, <2>6 DEF ScheduleRetry, AuditVerdict
  <2>7. CASE SettleRequest(p)
    BY <1>1, <2>1, <2>7 DEF SettleRequest, PollRecord
  <2> QED
    BY <1>3, <2>2, <2>3, <2>4, <2>5, <2>6, <2>7 DEF Statement
<1>4. ASSUME NEW q \in Polls, StartPoll(q)
      PROVE  poll'[p] = poll[p]
  <2>1. CASE q = p
    BY <1>4, <2>1 DEF StartPoll, IdlePoll
  <2> QED
    BY <1>4, <2>1 DEF StartPoll
<1>5. ASSUME NEW q \in Polls, LoseCall(q)
      PROVE  poll'[p] = poll[p]
  <2>1. CASE q = p
    <3>1. poll'[p].reply = NoAnswer
      BY <1>5, <2>1 DEF LoseCall, PollRecord
    <3> QED
      BY <3>1 DEF NoAnswer, Reply
  <2> QED
    BY <1>5, <2>1 DEF LoseCall
<1>6. ASSUME NEW q \in Polls, NEW reply \in Replies, Answer(q, reply), q # p
      PROVE  poll'[p] = poll[p]
  BY <1>6 DEF Answer
<1>7. CASE Crash
  BY <1>1, <1>7 DEF Crash
<1>8. CASE \/ \E r \in Requests : Client(r)
           \/ \E i \in Rows : Ripen(i) \/ \E reply \in Replies : LateCall(i, reply)
           \/ NextMillisecond \/ UNCHANGED vars
  BY <1>8 DEF Client, Ripen, LateCall, NextMillisecond, vars
<1> QED
  BY <1>2, <1>3, <1>4, <1>5, <1>6, <1>7, <1>8 DEF Next

\* Only a verdict turns a request APPROVED, and only an approved one becomes
\* CANCELLING.
LEMMA ApprovalFrame ==
  ASSUME TypeOK, [Next]_vars, NEW r \in Requests, request'[r] \in {"APPROVED", "CANCELLING"}
  PROVE  \/ request[r] \in {"APPROVED", "CANCELLING"}
         \/ \E p \in Polls : /\ poll[p].pc = "settle"
                             /\ poll[p].verdict = "APPROVED"
                             /\ r = Req(p)
<1> USE DEF TypeOK, RequestsTypeOK
<1>1. ASSUME NEW q \in Requests, Client(q)
      PROVE  request[r] \in {"APPROVED", "CANCELLING"}
  BY <1>1 DEF Client, createRequest, cancelRequest, cancelSubmitted, cancelApproved
<1>2. ASSUME NEW p \in Polls, SettleRequest(p), request'[r] # request[r]
      PROVE  poll[p].pc = "settle" /\ poll[p].verdict = "APPROVED" /\ r = Req(p)
  <2>1. poll[p].verdict \in Verdict
    BY DEF PollRecord
  <2> QED
    BY <1>2, <2>1 DEF SettleRequest, Verdict
<1>3. ASSUME NEW p \in Polls, MarkPendingHcm(p)
      PROVE  request'[r] = request[r]
  BY <1>3 DEF MarkPendingHcm
<1>4. CASE UNCHANGED request
  BY <1>4
<1>5. ASSUME NEW p \in Polls, Statement(p), ~SettleRequest(p), ~MarkPendingHcm(p)
      PROVE  UNCHANGED request
  BY <1>5 DEF Statement, StartRecord, AuditPendingHcm, CallHcm, Approve, Reject,
     ConfirmReversal, MarkFailed, ScheduleRetry, CloseRow, AuditVerdict, Settle, requestVars
<1>6. CASE \/ \E p \in Polls : StartPoll(p) \/ LoseCall(p) \/ \E reply \in Replies : Answer(p, reply)
           \/ \E i \in Rows : Ripen(i) \/ \E reply \in Replies : LateCall(i, reply)
           \/ NextMillisecond \/ Crash \/ UNCHANGED vars
  <2>1. UNCHANGED request
    BY <1>6 DEF StartPoll, LoseCall, Answer, Ripen, LateCall, NextMillisecond, Crash, vars,
                requestVars
  <2> QED
    BY <2>1
<1> QED
  BY <1>1, <1>2, <1>3, <1>4, <1>5, <1>6 DEF Next

\* A poll about to write APPROVED was about to before, or has just been
\* answered.
LEMMA VerdictFrame ==
  ASSUME TypeOK, [Next]_vars, NEW p \in Polls,
         poll'[p].pc = "settle", poll'[p].verdict = "APPROVED"
  PROVE  \/ Approve(p) /\ poll'[p].row = poll[p].row
         \/ poll'[p] = poll[p]
<1> USE DEF TypeOK
<1>1. IdlePoll.pc # "settle" /\ Finished(p).pc # "settle"
  BY IdlePollOK, FinishedOK
<1>2. ASSUME NEW q \in Polls, q # p,
             \/ Statement(q) \/ StartPoll(q) \/ LoseCall(q)
             \/ \E reply \in Replies : Answer(q, reply)
      PROVE  poll'[p] = poll[p]
  BY <1>2 DEF Statement, StartRecord, MarkPendingHcm, AuditPendingHcm, CallHcm, SendCall, Approve,
     Reject, ConfirmReversal, MarkFailed, ScheduleRetry, SettleRequest, CloseRow, AuditVerdict,
     Settle, StartPoll, LoseCall, Answer
<1>3. ASSUME \/ Statement(p) \/ StartPoll(p) \/ LoseCall(p)
             \/ \E reply \in Replies : Answer(p, reply)
      PROVE  Approve(p)
  <2>1. poll[p] \in PollRecord
    OBVIOUS
  <2>2. CASE StartRecord(p)
    <3>1. poll'[p].pc \in {"exhausted", "load"}
      BY <2>1, <2>2 DEF StartRecord, PollRecord
    <3> QED
      BY <3>1
  <2>3. CASE AuditPendingHcm(p) \/ CallHcm(p)
    <3>1. poll'[p].pc = "await"
      BY <2>3, SendCallPoll DEF AuditPendingHcm, CallHcm
    <3> QED
      BY <3>1
  <2>4. CASE MarkPendingHcm(p) \/ CloseRow(p)
    BY <2>1, <2>4 DEF MarkPendingHcm, CloseRow, PollRecord
  <2>5. CASE Reject(p) \/ ConfirmReversal(p) \/ MarkFailed(p)
    <3>1. poll'[p].verdict # "APPROVED"
      BY <2>5, SettlePoll DEF Reject, ConfirmReversal, MarkFailed
    <3> QED
      BY <3>1
  <2>6. CASE ScheduleRetry(p) \/ AuditVerdict(p)
    BY <1>1, <2>6 DEF ScheduleRetry, AuditVerdict
  <2>7. CASE SettleRequest(p)
    BY <1>1, <2>1, <2>7 DEF SettleRequest, PollRecord
  <2>8. CASE StartPoll(p)
    <3>1. poll'[p].pc = "next"
      BY <2>8, IdlePollOK DEF StartPoll, PollRecord
    <3> QED
      BY <3>1
  <2>9. CASE LoseCall(p) \/ \E reply \in Replies : Answer(p, reply)
    <3>1. poll'[p].pc = "await"
      BY <2>1, <2>9 DEF LoseCall, Answer, Unanswered, PollRecord
    <3> QED
      BY <3>1
  <2> QED
    BY <1>3, <2>2, <2>3, <2>4, <2>5, <2>6, <2>7, <2>8, <2>9 DEF Statement
<1>4. Approve(p) => poll'[p].row = poll[p].row
  BY SettlePoll DEF Approve
<1>5. CASE Crash
  BY <1>1, <1>5 DEF Crash
<1>6. CASE \/ \E r \in Requests : Client(r)
           \/ \E i \in Rows : Ripen(i) \/ \E reply \in Replies : LateCall(i, reply)
           \/ NextMillisecond \/ UNCHANGED vars
  BY <1>6 DEF Client, Ripen, LateCall, NextMillisecond, vars
<1> QED
  BY <1>2, <1>3, <1>4, <1>5, <1>6 DEF Next

LEMMA BackedStep == TypeOK /\ Backed /\ [Next]_vars => Backed'
<1> SUFFICES ASSUME TypeOK, Backed, [Next]_vars PROVE Backed'
  OBVIOUS
<1>1. RowsKept
  BY OutboxStep
<1>2. \A r \in Requests : hcmTx[r] # "NONE" => hcmTx'[r] # "NONE"
  BY LedgerStep
<1>3. ApprovedIsConfirmed'
  <2> SUFFICES ASSUME NEW r \in Requests, request'[r] \in {"APPROVED", "CANCELLING"}
               PROVE  hcmTx[r] # "NONE"
    BY <1>2 DEF ApprovedIsConfirmed, InState
  <2> QED
    BY ApprovalFrame DEF Backed, ApprovedIsConfirmed, InState, VerdictIsBacked
<1>4. AnswerIsBacked'
  <2> SUFFICES ASSUME NEW p \in Polls, Holds(p, {"OK", "DUPLICATE"})'
               PROVE  hcmTx'[Req(p)'] # "NONE"
    BY DEF AnswerIsBacked
  <2>1. CASE \E reply \in Replies : Answer(p, reply)
    BY <1>1, <2>1, AnswerBacked
  <2>2. CASE poll'[p] = poll[p]
    <3>1. Active(p)
      BY <2>2 DEF Holds, Active
    <3>2. Row(p)'.event = Row(p).event /\ Req(p)' = Req(p)
      BY <1>1, <2>2, <3>1, SameRow
    <3>3. Holds(p, {"OK", "DUPLICATE"})
      BY <2>2, <3>2 DEF Holds
    <3> QED
      BY <1>2, <3>1, <3>2, <3>3, ActiveRow DEF Backed, AnswerIsBacked
  <2> QED
    BY <2>1, <2>2, AwaitFrame DEF Holds
<1>5. VerdictIsBacked'
  <2> SUFFICES ASSUME NEW p \in Polls, poll'[p].pc = "settle", poll'[p].verdict = "APPROVED"
               PROVE  hcmTx'[Req(p)'] # "NONE"
    BY DEF VerdictIsBacked
  <2>1. CASE Approve(p) /\ poll'[p].row = poll[p].row
    <3>1. Active(p) /\ Holds(p, {"OK", "DUPLICATE"})
      BY <2>1 DEF Approve, Resumes, Active, Holds
    <3>2. Req(p)' = Req(p)
      BY <1>1, <2>1, <3>1, SameRow
    <3> QED
      BY <1>2, <3>1, <3>2, ActiveRow DEF Backed, AnswerIsBacked
  <2>2. CASE poll'[p] = poll[p]
    <3>1. Active(p)
      BY <2>2 DEF Active
    <3>2. Req(p)' = Req(p)
      BY <1>1, <2>2, <3>1, SameRow
    <3> QED
      BY <1>2, <2>2, <3>1, <3>2, ActiveRow DEF Backed, VerdictIsBacked
  <2> QED
    BY <2>1, <2>2, VerdictFrame
<1> QED
  BY <1>3, <1>4, <1>5 DEF Backed

\* No request is ever approved, or being cancelled after approval, unless the
\* HCM has recorded a deduction for it: for any number of requests, overlapping
\* polls, lost, late and repeated calls, double claims and crashes.
THEOREM ApprovalsConfirmed == Spec => []ApprovedIsConfirmed
<1>1. Init => TypeOK /\ Backed
  BY TypeInit, BackedInit
<1>2. TypeOK /\ Backed /\ [Next]_vars => (TypeOK /\ Backed)'
  BY TypeStep, BackedStep
<1>3. TypeOK /\ Backed => ApprovedIsConfirmed
  BY DEF Backed
<1> QED
  BY <1>1, <1>2, <1>3, PTL DEF Spec
=============================================================================
