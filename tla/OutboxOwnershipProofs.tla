----------------------- MODULE OutboxOwnershipProofs ------------------------
(***************************************************************************)
(* Proofs about who works on which outbox row: a row that did not lapse    *)
(* has one owner, hence it is settled once and its calls are bounded, and  *)
(* as long as none lapsed requests move along the state machine.           *)
(***************************************************************************)
EXTENDS OutboxTurnProofs, OutboxHistory

(***************************************************************************)
(* The history, step by step.                                              *)
(***************************************************************************)
HistoryStep == [HistoryNext]_<<vars, historyVars>>

\* What a step adds to the lapsed rows.
Lapsing ==
  /\ lapsed \subseteq lapsed'
  /\ \A i \in Rows : StampShared(i) \/ BatchOutlived(i) => i \in lapsed'

\* And which crashes it records.
Tearing == torn \/ TurnTorn => torn'

LEMMA HistoryMoves == TypeOK /\ HistoryStep => [Next]_vars /\ Lapsing /\ Tearing
<1> SUFFICES ASSUME TypeOK, HistoryStep PROVE [Next]_vars /\ Lapsing /\ Tearing
  OBVIOUS
<1>1. CASE HistoryNext
  BY <1>1 DEF HistoryNext, Lapsing, Tearing
<1>2. CASE UNCHANGED <<vars, historyVars>>
  <2>1. UNCHANGED <<vars, lapsed, torn, crashes>>
    BY <1>2 DEF historyVars, vars
  <2>2. ASSUME NEW i \in Rows
        PROVE  ~StampShared(i) /\ ~BatchOutlived(i)
    <3>1. ~BatchOutlived(i)
      <4> SUFFICES ASSUME Ripen(i) PROVE FALSE
        BY DEF BatchOutlived
      <4> DEFINE row == [outbox[i] EXCEPT !.ripe = TRUE]
      <4>1. row \in OutboxRow /\ row.ripe
        BY <2>2, RowType DEF OutboxRow
      <4>2. outbox' = [outbox EXCEPT ![i] = row]
        BY DEF Ripen
      <4> HIDE DEF row
      <4>3. Writes(i, row)
        BY <2>2, <4>1, <4>2, RowWritten
      <4> QED
        BY <2>1, <4>1, <4>3 DEF Writes, Ripen, vars
    <3>2. \A p \in Polls : ~StartPoll(p)
      <4>1. \A p \in Polls : StartPoll(p) => poll'[p].pc # poll[p].pc
        BY StartPollEffect DEF IdlePoll
      <4> QED
        BY <2>1, <4>1 DEF vars
    <3> QED
      BY <3>1, <3>2 DEF StampShared
  <2> QED
    BY <2>1, <2>2 DEF Lapsing, Tearing, TurnTorn
<1> QED
  BY <1>1, <1>2 DEF HistoryStep

(***************************************************************************)
(* The invariant.                                                          *)
(***************************************************************************)
\* Of a row that has not lapsed: what a poll has claimed is in process and as the
\* poll knows it, and the record it works on is so until it has closed the row.
Keeps(p) ==
  /\ poll[p].pc = "idle" => poll[p].claimed = {}
  /\ \A c \in poll[p].claimed :
       /\ c.row \notin lapsed => /\ outbox[c.row].status = "PROCESSING"
                                /\ outbox[c.row].attempts = c.attempts
       /\ Active(p) => c.row # poll[p].row
       /\ \A d \in poll[p].claimed : d.row = c.row => d = c
  /\ Active(p) /\ poll[p].row \notin lapsed =>
       /\ outbox[poll[p].row].attempts = poll[p].attempts
       /\ outbox[poll[p].row].status
            \in (IF poll[p].pc = "log" THEN {"DONE", "FAILED"} ELSE {"PROCESSING"})
  /\ poll[p].pc \in {"load", "audit"} =>
       /\ poll[p].attempts <= MAX_OUTBOX_ATTEMPTS
       /\ poll[p].row \notin lapsed => outbox[poll[p].row].calls < poll[p].attempts

\* The watchdog does not see a row that another poll may work on.
HeldIsFresh ==
  \A p, q \in Polls : p # q => \A i \in Held(q) \ lapsed : ~outbox[i].ripe

\* A call is counted among the attempts before it is made.
AttemptsCover ==
  \A i \in Rows \ lapsed : /\ outbox[i].calls <= outbox[i].attempts
                            /\ outbox[i].calls <= MAX_OUTBOX_ATTEMPTS

RowsHeld ==
  /\ SharedOnlyByLapse
  /\ HeldIsFresh
  /\ \A p \in Polls : Keeps(p)
  /\ AttemptsCover

\* What a poll stamps is not for the watchdog in the same millisecond.
StampsAreFresh ==
  \A i \in stamped : outbox[i].status = "PROCESSING" => ~outbox[i].ripe

Owned == RowsHeld /\ StampsAreFresh

LEMMA OwnedInit == Init => Owned
<1> SUFFICES ASSUME Init PROVE Owned
  OBVIOUS
<1>1. Rows = {}
  BY DEF Init, RequestsInit, Rows
<1>2. \A p \in Polls : poll[p] = IdlePoll /\ Held(p) = {}
  BY DEF Init, IdlePoll, Held, Active
<1>3. stamped = {}
  BY DEF Init
<1> QED
  BY <1>1, <1>2, <1>3 DEF Owned, RowsHeld, SharedOnlyByLapse, HeldIsFresh, Keeps,
     AttemptsCover, StampsAreFresh, IdlePoll, Active

LEMMA HeldRows ==
  ASSUME TypeOK, NEW p \in Polls
  PROVE  Held(p) \subseteq Rows
BY DEF TypeOK, Held

\* A poll that does nothing keeps its rows if nobody else writes them.
LEMMA OthersKeep ==
  ASSUME TypeOK, lapsed \subseteq lapsed', NEW q \in Polls, Keeps(q), poll'[q] = poll[q],
         \A i \in Held(q) \ lapsed' : outbox'[i] = outbox[i]
  PROVE  Keeps(q)' /\ Held(q)' = Held(q)
<1>1. Active(q)' = Active(q) /\ Held(q)' = Held(q)
  BY DEF Active, Held
<1>2. \A c \in poll[q].claimed : c.row \in Held(q)
  BY DEF Held
<1>3. Active(q) => poll[q].row \in Held(q)
  BY DEF Held
<1> QED
  BY <1>1, <1>2, <1>3 DEF Keeps, Active

\* A step of p that writes only rows p holds, claims none and makes none ripe.
LEMMA OwnedFrame ==
  ASSUME TypeOK, RowsHeld, lapsed \subseteq lapsed', NEW p \in Polls, Others(p), Rows' = Rows,
         Held(p)' \subseteq Held(p), Keeps(p)', AttemptsCover',
         \A i \in Rows \ Held(p) : outbox'[i] = outbox[i],
         \A i \in Held(p)' : outbox'[i].ripe => outbox[i].ripe
  PROVE  RowsHeld'
<1>1. ASSUME NEW q \in Polls, q # p
      PROVE  /\ Keeps(q)' /\ Held(q)' = Held(q)
             /\ \A i \in Held(q) \ lapsed' : outbox'[i] = outbox[i]
  <2>1. \A i \in Held(q) \ lapsed' : outbox'[i] = outbox[i]
    BY <1>1, HeldRows DEF RowsHeld, SharedOnlyByLapse
  <2> QED
    BY <1>1, <2>1, OthersKeep DEF RowsHeld, Others
<1>2. SharedOnlyByLapse'
  BY <1>1 DEF RowsHeld, SharedOnlyByLapse
<1>3. HeldIsFresh'
  BY <1>1 DEF RowsHeld, HeldIsFresh
<1>4. \A q \in Polls : Keeps(q)'
  BY <1>1
<1> QED
  BY <1>2, <1>3, <1>4 DEF RowsHeld

\* Of a poll that finishes its record, what it has claimed is left.
LEMMA FinishedHeld ==
  ASSUME TypeOK, NEW p \in Polls, poll'[p] = Finished(p)
  PROVE  /\ ~Active(p)' /\ poll'[p].claimed = poll[p].claimed
         /\ Held(p)' = {c.row : c \in poll[p].claimed}
         /\ poll'[p].pc = "idle" => poll'[p].claimed = {}
         /\ poll'[p].pc \notin {"load", "audit"}
BY FinishedFields DEF Held, Active

LEMMA OwnedStartRecord ==
  ASSUME TypeOK, RowsHeld, lapsed \subseteq lapsed', NEW p \in Polls, StartRecord(p)
  PROVE  RowsHeld'
<1>1. PICK c \in poll[p].claimed :
        /\ poll'[p] = [poll[p] EXCEPT
             !.pc = IF Bump(c.attempts) > MAX_OUTBOX_ATTEMPTS THEN "exhausted" ELSE "load",
             !.claimed = poll[p].claimed \ {c}, !.row = c.row, !.attempts = Bump(c.attempts)]
        /\ Writes(c.row, [outbox[c.row] EXCEPT !.status = "PROCESSING",
                            !.attempts = Bump(c.attempts), !.ripe = FALSE])
  BY StartRecordEffect
<1>2. /\ poll[p].pc = "next" /\ c.row \in Rows /\ c.attempts \in Nat
      /\ c.row \notin lapsed => outbox[c.row].attempts = c.attempts
      /\ outbox[c.row].calls \in Nat
      /\ \A d \in poll[p].claimed : d.row = c.row => d = c
  BY PollType, StartRecordEffect, RowType DEF RowsHeld, Keeps
<1>3. /\ poll'[p].pc = IF Bump(c.attempts) > MAX_OUTBOX_ATTEMPTS THEN "exhausted" ELSE "load"
      /\ poll'[p].claimed = poll[p].claimed \ {c}
      /\ poll'[p].row = c.row
      /\ poll'[p].attempts = Bump(c.attempts)
  BY <1>1, PollType DEF PollRecord
<1>4. /\ outbox'[c.row].status = "PROCESSING"
      /\ outbox'[c.row].attempts = Bump(c.attempts)
      /\ outbox'[c.row].ripe = FALSE
      /\ outbox'[c.row].calls = outbox[c.row].calls
      /\ Rows' = Rows /\ \A i \in Rows : i # c.row => outbox'[i] = outbox[i]
  BY <1>1, <1>2, RowType DEF Writes, OutboxRow
<1>5. Active(p)' /\ poll'[p].pc # "idle" /\ poll'[p].pc # "log"
  BY <1>3 DEF Active
<1>6. Held(p)' = Held(p) /\ c.row \in Held(p)
  BY <1>2, <1>3, <1>5 DEF Held, Active
<1>7. c.row \notin lapsed => outbox[c.row].calls <= c.attempts
                               /\ outbox[c.row].calls <= MAX_OUTBOX_ATTEMPTS
  BY <1>2 DEF RowsHeld, AttemptsCover
<1>8. /\ Bump(c.attempts) \in Nat
      /\ c.row \notin lapsed => outbox[c.row].calls < Bump(c.attempts)
  BY <1>2, <1>7, PollAssumption DEF Bump
<1>9. AttemptsCover'
  BY <1>2, <1>4, <1>7, <1>8 DEF RowsHeld, AttemptsCover
<1>10. Keeps(p)'
  <2>1. ASSUME NEW d \in poll'[p].claimed
        PROVE  /\ outbox'[d.row] = outbox[d.row]
               /\ d.row # c.row /\ d \in poll[p].claimed
    <3>1. d \in poll[p].claimed /\ d # c
      BY <1>3, <2>1
    <3> QED
      BY <1>2, <1>4, <3>1, PollType
  <2>2. \A d \in poll'[p].claimed :
          /\ d.row \notin lapsed' => /\ outbox'[d.row].status = "PROCESSING"
                                    /\ outbox'[d.row].attempts = d.attempts
          /\ d.row # poll'[p].row
          /\ \A e \in poll'[p].claimed : e.row = d.row => e = d
    BY <1>3, <2>1 DEF RowsHeld, Keeps
  <2>3. poll'[p].pc \in {"load", "audit"} => poll'[p].attempts <= MAX_OUTBOX_ATTEMPTS
    BY <1>3, <1>8, PollAssumption
  <2> QED
    BY <1>3, <1>4, <1>5, <1>8, <2>2, <2>3 DEF Keeps
<1>11. Others(p)
  BY OthersKept DEF Statement
<1> QED
  BY <1>4, <1>6, <1>9, <1>10, <1>11, HeldRows, OwnedFrame

\* A poll that goes on with its record and writes at most that row.
LEMMA OwnedContinues ==
  ASSUME TypeOK, RowsHeld, lapsed \subseteq lapsed',
         NEW p \in Polls, Others(p), Active(p), Rows' = Rows,
         \A i \in Rows : i # poll[p].row => outbox'[i] = outbox[i],
         Row(p)'.ripe => Row(p).ripe,
         poll'[p].claimed = poll[p].claimed, poll'[p].row = poll[p].row,
         poll'[p].attempts = poll[p].attempts, Active(p)',
         poll[p].row \notin lapsed =>
           /\ outbox'[poll[p].row].attempts = poll[p].attempts
           /\ outbox'[poll[p].row].status
                \in (IF poll'[p].pc = "log" THEN {"DONE", "FAILED"} ELSE {"PROCESSING"})
           /\ outbox'[poll[p].row].calls <= poll[p].attempts
           /\ outbox'[poll[p].row].calls <= MAX_OUTBOX_ATTEMPTS,
         poll'[p].pc \in {"load", "audit"} =>
           /\ poll[p].pc \in {"load", "audit"}
           /\ outbox'[poll[p].row].calls = Row(p).calls
  PROVE  RowsHeld'
<1>1. Held(p)' = Held(p) /\ poll[p].row \in Held(p) /\ poll[p].row \in Rows
  BY ActiveRow DEF Held
<1>2. \A c \in poll[p].claimed : c.row # poll[p].row /\ outbox'[c.row] = outbox[c.row]
  BY PollType DEF RowsHeld, Keeps
<1>3. Keeps(p)'
  BY <1>1, <1>2 DEF RowsHeld, Keeps, Active, Row
<1>4. AttemptsCover'
  BY <1>1 DEF RowsHeld, AttemptsCover
<1>5. \A i \in Held(p)' : outbox'[i].ripe => outbox[i].ripe
  BY <1>1, HeldRows DEF Row
<1>6. \A i \in Rows \ Held(p) : outbox'[i] = outbox[i]
  BY <1>1
<1> QED
  BY <1>1, <1>3, <1>4, <1>5, <1>6, OwnedFrame

\* A poll that leaves its record and writes at most that row.
LEMMA OwnedFinishes ==
  ASSUME TypeOK, RowsHeld, lapsed \subseteq lapsed',
         NEW p \in Polls, Others(p), Active(p), Rows' = Rows,
         \A i \in Rows : i # poll[p].row => outbox'[i] = outbox[i],
         poll'[p] = Finished(p),
         poll[p].row \notin lapsed =>
           /\ outbox'[poll[p].row].calls <= outbox'[poll[p].row].attempts
           /\ outbox'[poll[p].row].calls <= MAX_OUTBOX_ATTEMPTS
  PROVE  RowsHeld'
<1>1. Held(p)' \subseteq Held(p) /\ poll[p].row \in Held(p) /\ poll[p].row \in Rows
  BY ActiveRow, FinishedHeld DEF Held
<1>2. \A c \in poll[p].claimed :
        c.row # poll[p].row /\ outbox'[c.row] = outbox[c.row] /\ c.row \in Held(p)
  BY PollType DEF RowsHeld, Keeps, Held
<1>3. Keeps(p)'
  BY <1>2, FinishedHeld DEF RowsHeld, Keeps, Active
<1>4. AttemptsCover'
  BY <1>1 DEF RowsHeld, AttemptsCover
<1>5. \A i \in Held(p)' : outbox'[i].ripe => outbox[i].ripe
  BY <1>2, FinishedHeld
<1>6. \A i \in Rows \ Held(p) : outbox'[i] = outbox[i]
  BY <1>1
<1> QED
  BY <1>1, <1>3, <1>4, <1>5, <1>6, OwnedFrame

\* Each statement of a poll keeps the ownership of rows.
LEMMA OwnedStatement ==
  ASSUME TypeOK, RowsHeld, lapsed \subseteq lapsed', NEW p \in Polls, Statement(p)
  PROVE  RowsHeld'
<1>1. Others(p)
  BY OthersKept
<1>2. CASE StartRecord(p)
  BY <1>2, OwnedStartRecord
<1>3. ASSUME Active(p)
      PROVE  /\ poll[p].row \in Rows /\ Row(p) \in OutboxRow /\ Row(p).calls \in Nat
             /\ poll[p] \in PollRecord /\ poll[p].attempts \in Nat
             /\ poll[p].row \notin lapsed =>
                  /\ Row(p).attempts = poll[p].attempts
                  /\ Row(p).status
                       \in (IF poll[p].pc = "log" THEN {"DONE", "FAILED"} ELSE {"PROCESSING"})
                  /\ Row(p).calls <= poll[p].attempts /\ Row(p).calls <= MAX_OUTBOX_ATTEMPTS
  BY <1>3, ActiveRow, RowType, PollType DEF RowsHeld, Keeps, AttemptsCover, Row
<1>4. CASE MarkPendingHcm(p)
  <2>1. /\ Active(p) /\ poll[p].pc = "load" /\ UNCHANGED outbox
        /\ poll'[p] = [poll[p] EXCEPT !.pc = "audit"]
    BY <1>4 DEF MarkPendingHcm, Active, TypeOK
  <2>2. /\ poll'[p].pc = "audit" /\ poll'[p].claimed = poll[p].claimed
        /\ poll'[p].row = poll[p].row /\ poll'[p].attempts = poll[p].attempts
    BY <1>3, <2>1 DEF PollRecord
  <2> QED
    BY <1>1, <1>3, <2>1, <2>2, OwnedContinues DEF Rows, Row, Active
<1>5. CASE AuditPendingHcm(p) \/ CallHcm(p)
  <2> DEFINE n == Row(p).calls
  <2>1. /\ Active(p) /\ poll[p].pc \in {"audit", "load"}
        /\ poll'[p] = [poll[p] EXCEPT !.pc = "await", !.reply = Sent,
              !.seen = IF AuditPendingHcm(p) THEN "PENDING_HCM" ELSE request[Req(p)]]
        /\ Writes(poll[p].row, [Row(p) EXCEPT
              !.calls = IF n > MAX_OUTBOX_ATTEMPTS THEN n ELSE n + 1])
    BY <1>5, SendCallEffect
  <2>2. /\ poll'[p].pc = "await" /\ poll'[p].claimed = poll[p].claimed
        /\ poll'[p].row = poll[p].row /\ poll'[p].attempts = poll[p].attempts
    BY <1>3, <2>1 DEF PollRecord
  <2>3. /\ n \in Nat /\ poll[p].attempts <= MAX_OUTBOX_ATTEMPTS
        /\ poll[p].row \notin lapsed => n < poll[p].attempts
    BY <1>3, <2>1 DEF RowsHeld, Keeps, Row
  <2>4. /\ poll[p].row \notin lapsed => outbox'[poll[p].row].calls = n + 1
        /\ outbox'[poll[p].row].attempts = Row(p).attempts
        /\ outbox'[poll[p].row].status = Row(p).status
        /\ outbox'[poll[p].row].ripe = Row(p).ripe
        /\ Rows' = Rows /\ \A i \in Rows : i # poll[p].row => outbox'[i] = outbox[i]
    BY <1>3, <2>1, <2>3, PollAssumption DEF Writes, OutboxRow
  <2>5. poll[p].row \notin lapsed =>
          n + 1 <= poll[p].attempts /\ n + 1 <= MAX_OUTBOX_ATTEMPTS
    BY <1>3, <2>1, <2>3, PollAssumption
  <2> HIDE DEF n
  <2> QED
    BY <1>1, <1>3, <2>1, <2>2, <2>4, <2>5, OwnedContinues DEF Row, Active
<1>6. CASE Approve(p) \/ Reject(p) \/ ConfirmReversal(p) \/ MarkFailed(p)
  <2>1. PICK seen, verdict :
          /\ Active(p) /\ poll[p].pc \in {"await", "exhausted"} /\ UNCHANGED outbox
          /\ poll'[p] = [poll[p] EXCEPT !.pc = "settle", !.seen = seen, !.verdict = verdict,
                                        !.reply = NoReply]
    BY <1>6, SettleEffect
  <2>2. /\ poll'[p].pc = "settle" /\ poll'[p].claimed = poll[p].claimed
        /\ poll'[p].row = poll[p].row /\ poll'[p].attempts = poll[p].attempts
    BY <1>3, <2>1 DEF PollRecord
  <2> QED
    BY <1>1, <1>3, <2>1, <2>2, OwnedContinues DEF Rows, Row, Active
<1>7. CASE ScheduleRetry(p)
  <2>1. /\ Active(p) /\ poll[p].pc = "await" /\ poll'[p] = Finished(p)
        /\ Writes(poll[p].row, [Row(p) EXCEPT !.status = "PENDING", !.ripe = FALSE,
                                               !.attempts = poll[p].attempts])
    BY <1>7, RetryEffect
  <2>2. /\ outbox'[poll[p].row].calls = Row(p).calls
        /\ outbox'[poll[p].row].attempts = poll[p].attempts
        /\ Rows' = Rows /\ \A i \in Rows : i # poll[p].row => outbox'[i] = outbox[i]
    BY <1>3, <2>1 DEF Writes, OutboxRow
  <2> QED
    BY <1>1, <1>3, <2>1, <2>2, OwnedFinishes
<1>8. CASE SettleRequest(p)
  <2>1. Active(p) /\ poll[p].pc = "settle" /\ UNCHANGED outbox
    BY <1>8 DEF SettleRequest, Active
  <2>2. CASE poll'[p] = [poll[p] EXCEPT !.pc = "close"]
    <3>1. /\ poll'[p].pc = "close" /\ poll'[p].claimed = poll[p].claimed
          /\ poll'[p].row = poll[p].row /\ poll'[p].attempts = poll[p].attempts
      BY <1>3, <2>1, <2>2 DEF PollRecord
    <3> QED
      BY <1>1, <1>3, <2>1, <3>1, OwnedContinues DEF Rows, Row, Active
  <2>3. CASE poll'[p] = Finished(p)
    BY <1>1, <1>3, <2>1, <2>3, OwnedFinishes DEF Rows, Row
  <2> QED
    BY <1>8, <2>2, <2>3 DEF SettleRequest, TypeOK
<1>9. CASE CloseRow(p)
  <2>1. /\ Active(p) /\ poll[p].pc = "close" /\ poll'[p] = [poll[p] EXCEPT !.pc = "log"]
        /\ Writes(poll[p].row, [Row(p) EXCEPT
             !.status = IF poll[p].verdict = "FAILED" THEN "FAILED" ELSE "DONE"])
    BY <1>9, CloseEffect
  <2>2. /\ poll'[p].pc = "log" /\ poll'[p].claimed = poll[p].claimed
        /\ poll'[p].row = poll[p].row /\ poll'[p].attempts = poll[p].attempts
    BY <1>3, <2>1 DEF PollRecord
  <2>3. /\ outbox'[poll[p].row].calls = Row(p).calls
        /\ outbox'[poll[p].row].attempts = Row(p).attempts
        /\ outbox'[poll[p].row].status \in {"DONE", "FAILED"}
        /\ outbox'[poll[p].row].ripe = Row(p).ripe
        /\ Rows' = Rows /\ \A i \in Rows : i # poll[p].row => outbox'[i] = outbox[i]
    BY <1>3, <2>1 DEF Writes, OutboxRow
  <2> QED
    BY <1>1, <1>3, <2>1, <2>2, <2>3, OwnedContinues DEF Row, Active
<1>10. CASE AuditVerdict(p)
  <2>1. Active(p) /\ poll'[p] = Finished(p) /\ UNCHANGED outbox
    BY <1>10 DEF AuditVerdict, Active, TypeOK
  <2> QED
    BY <1>1, <1>3, <2>1, OwnedFinishes DEF Rows, Row
<1> QED
  BY <1>2, <1>4, <1>5, <1>6, <1>7, <1>8, <1>9, <1>10 DEF Statement

\* A poll that starts holds what it has marked, and nothing else.
LEMMA StartPollHolds ==
  ASSUME TypeOK, NEW p \in Polls, StartPoll(p)
  PROVE  /\ poll'[p].pc = "next" /\ ~Active(p)'
         /\ poll'[p].claimed = {[row |-> i, attempts |-> outbox[i].attempts] : i \in Collected}
         /\ Held(p)' = Collected
<1>1. /\ poll'[p].pc = "next" /\ ~Active(p)'
      /\ poll'[p].claimed = {[row |-> i, attempts |-> outbox[i].attempts] : i \in Collected}
  <2>1. poll'[p] = [IdlePoll EXCEPT !.pc = "next",
          !.claimed = {[row |-> i, attempts |-> outbox[i].attempts] : i \in Collected}]
    BY StartPollEffect
  <2> QED
    BY <2>1 DEF IdlePoll, Active
<1>2. Held(p)' = {c.row : c \in poll'[p].claimed}
  BY <1>1 DEF Held
<1>3. ASSUME NEW i \in Collected
      PROVE  i \in Held(p)'
  <2>1. [row |-> i, attempts |-> outbox[i].attempts] \in poll'[p].claimed
    BY <1>1
  <2>2. [row |-> i, attempts |-> outbox[i].attempts].row \in {c.row : c \in poll'[p].claimed}
    BY <2>1
  <2> QED
    BY <1>2, <2>2
<1>4. ASSUME NEW i \in Held(p)'
      PROVE  i \in Collected
  <2>1. PICK c \in poll'[p].claimed : c.row = i
    BY <1>2, <1>4
  <2> QED
    BY <1>1, <2>1
<1> QED
  BY <1>1, <1>3, <1>4

\* claimPending takes what is ripe, which no other poll holds, and what is stamped in
\* its millisecond, which the watchdog has not reset: if another poll holds that, it
\* lapses.
LEMMA OwnedStartPoll ==
  ASSUME TypeOK, RowsHeld, StampsAreFresh, Lapsing, NEW p \in Polls, StartPoll(p)
  PROVE  RowsHeld'
<1>1. /\ poll[p].pc = "idle" /\ Rows' = Rows
      /\ \A i \in Rows :
           outbox'[i] = IF i \in Marked
                        THEN [outbox[i] EXCEPT !.status = "PROCESSING", !.ripe = FALSE]
                        ELSE IF i \in stuckProcessing THEN [outbox[i] EXCEPT !.status = "PENDING"]
                        ELSE outbox[i]
      /\ Marked \subseteq pendingAfterReset
  BY StartPollEffect
<1>2. \A i \in stuckProcessing \cup Marked : i \in Rows /\ outbox[i].ripe
  BY <1>1 DEF pendingAfterReset, stuckProcessing
<1>3. /\ poll'[p].pc = "next" /\ ~Active(p)' /\ Held(p)' = Collected
      /\ poll'[p].claimed = {[row |-> i, attempts |-> outbox[i].attempts] : i \in Collected}
  BY StartPollHolds
<1>4. ASSUME NEW q \in Polls, q # p
      PROVE  Collected \cap Held(q) \subseteq Marked \cup lapsed'
  <2> SUFFICES ASSUME NEW i \in Collected, i \in Held(q), i \notin Marked PROVE i \in lapsed'
    OBVIOUS
  <2>1. SameMillisecond /\ i \in stamped /\ i \in Rows
    BY HeldRows DEF Collected
  <2>2. StampShared(i)
    BY <1>4, <2>1 DEF StampShared
  <2> QED
    BY <2>1, <2>2 DEF Lapsing
<1>5. \A i \in Rows : /\ outbox'[i].attempts = outbox[i].attempts
                      /\ outbox'[i].calls = outbox[i].calls
                      /\ i \in Marked => outbox'[i].status = "PROCESSING" /\ ~outbox'[i].ripe
  <2> TAKE i \in Rows
  <2>1. outbox[i] \in OutboxRow
    BY RowType
  <2>2. \/ outbox'[i] = [outbox[i] EXCEPT !.status = "PROCESSING", !.ripe = FALSE]
        \/ i \notin Marked /\ outbox'[i] = [outbox[i] EXCEPT !.status = "PENDING"]
        \/ i \notin Marked /\ outbox'[i] = outbox[i]
    BY <1>1
  <2> QED
    BY <2>1, <2>2 DEF OutboxRow
<1>6. Keeps(p)'
  <2>1. ASSUME NEW i \in Collected
        PROVE  i \in Rows /\ outbox'[i].status = "PROCESSING"
    <3>1. CASE i \in Marked
      BY <1>2, <1>5, <3>1
    <3>2. CASE i \notin Marked
      <4>1. i \in stamped /\ outbox[i].status = "PROCESSING" /\ i \in Rows
        BY <2>1, <3>2 DEF Collected, TypeOK
      <4>2. i \notin stuckProcessing
        BY <4>1 DEF stuckProcessing, StampsAreFresh
      <4> QED
        BY <1>1, <3>2, <4>1, <4>2
    <3> QED
      BY <3>1, <3>2
  <2> QED
    BY <1>3, <1>5, <2>1 DEF Keeps
<1>7. ASSUME NEW q \in Polls, q # p
      PROVE  /\ Keeps(q)' /\ Held(q)' = Held(q) /\ Held(q) \cap Marked \subseteq lapsed'
             /\ \A i \in Held(q) \ lapsed' : outbox'[i] = outbox[i]
  <2>1. \A i \in Held(q) \ lapsed' : i \in Rows /\ ~outbox[i].ripe
    BY <1>7, HeldRows DEF RowsHeld, HeldIsFresh, Lapsing
  <2>2. \A i \in Held(q) \ lapsed' : i \notin Marked /\ outbox'[i] = outbox[i]
    BY <1>1, <1>2, <2>1
  <2>3. poll'[q] = poll[q]
    BY <1>7, OthersKept DEF Others
  <2> QED
    BY <2>2, <2>3, OthersKeep DEF RowsHeld, Lapsing
<1>8. SharedOnlyByLapse'
  BY <1>3, <1>4, <1>7 DEF RowsHeld, SharedOnlyByLapse, Lapsing
<1>9. HeldIsFresh'
  <2>1. ASSUME NEW i \in Collected
        PROVE  ~outbox'[i].ripe
    <3>1. CASE i \in Marked
      BY <1>2, <1>5, <3>1
    <3>2. CASE i \notin Marked
      <4>1. i \in stamped /\ outbox[i].status = "PROCESSING" /\ i \in Rows
        BY <2>1, <3>2 DEF Collected, TypeOK
      <4>2. ~outbox[i].ripe /\ i \notin stuckProcessing
        BY <4>1 DEF stuckProcessing, StampsAreFresh
      <4> QED
        BY <1>1, <3>2, <4>1, <4>2
    <3> QED
      BY <3>1, <3>2
  <2>2. ASSUME NEW q \in Polls, q # p, NEW i \in Held(q)', i \notin lapsed',
               NEW o \in Polls, o # q
        PROVE  ~outbox'[i].ripe
    BY <1>7, <2>2 DEF RowsHeld, HeldIsFresh, Lapsing
  <2> QED
    BY <1>3, <2>1, <2>2 DEF HeldIsFresh
<1>10. AttemptsCover'
  BY <1>1, <1>5 DEF RowsHeld, AttemptsCover, Lapsing
<1> QED
  BY <1>6, <1>7, <1>8, <1>9, <1>10 DEF RowsHeld

\* Time makes ripe only what nobody else holds, or it lapses.
LEMMA OwnedQuiet ==
  ASSUME TypeOK, RowsHeld, Lapsing, Quiet
  PROVE  RowsHeld'
<1>1. \A p \in Polls : /\ Active(p)' = Active(p) /\ Held(p)' = Held(p)
                       /\ poll'[p].pc = poll[p].pc
                       /\ poll'[p].row = poll[p].row
                       /\ poll'[p].claimed = poll[p].claimed
                       /\ poll'[p].attempts = poll[p].attempts
  BY QuietKeepsTurns DEF Active, Held
<1>2. Rows' = Rows /\ \A i \in Rows : /\ outbox'[i].status = outbox[i].status
                                      /\ outbox'[i].attempts = outbox[i].attempts
                                      /\ outbox'[i].calls = outbox[i].calls
                                      /\ outbox'[i] = outbox[i] \/ Ripen(i)
  BY QuietRows, RowType DEF OutboxRow
<1>3. ASSUME NEW p \in Polls
      PROVE  Keeps(p)'
  <2>1. /\ \A c \in poll[p].claimed : c.row \in Rows
        /\ Active(p) => poll[p].row \in Rows
    BY DEF TypeOK
  <2>2. /\ \A c \in poll[p].claimed : /\ outbox'[c.row].status = outbox[c.row].status
                                      /\ outbox'[c.row].attempts = outbox[c.row].attempts
        /\ Active(p) => /\ outbox'[poll[p].row].status = outbox[poll[p].row].status
                        /\ outbox'[poll[p].row].attempts = outbox[poll[p].row].attempts
                        /\ outbox'[poll[p].row].calls = outbox[poll[p].row].calls
    BY <1>2, <2>1
  <2>3. poll[p].pc \in {"load", "audit"} => Active(p)
    BY DEF Active
  <2>4. Keeps(p)
    BY DEF RowsHeld
  <2> QED
    BY <1>1, <2>2, <2>3, <2>4 DEF Keeps, Lapsing
<1>4. ASSUME NEW p \in Polls, NEW q \in Polls, p # q, NEW i \in Held(q), Ripen(i), i \notin lapsed
      PROVE  i \in lapsed'
  <2>1. i \in Rows /\ outbox[i].status = "PROCESSING"
    BY <1>4, HeldRows DEF RowsHeld, Keeps, Held, Ripen
  <2>2. \E c \in poll[q].claimed : c.row = i
    BY <1>4, <2>1 DEF Ripen, Held
  <2> QED
    BY <1>4, <2>1, <2>2 DEF BatchOutlived, Lapsing
<1>5. HeldIsFresh'
  BY <1>1, <1>2, <1>4, HeldRows DEF RowsHeld, HeldIsFresh, Lapsing
<1>6. SharedOnlyByLapse' /\ AttemptsCover'
  BY <1>1, <1>2 DEF RowsHeld, SharedOnlyByLapse, AttemptsCover, Lapsing
<1> QED
  BY <1>3, <1>5, <1>6 DEF RowsHeld

LEMMA OwnedClient ==
  ASSUME TypeOK, RowsHeld, lapsed \subseteq lapsed', NEW r \in Requests, Client(r)
  PROVE  RowsHeld'
<1>1. UNCHANGED poll
  BY DEF Client
<1>2. \A i \in Rows : outbox'[i] = outbox[i] /\ i \in Rows'
  BY ClientRows DEF Rows
<1>3. \A i \in Rows' \ Rows : outbox'[i].attempts = 0 /\ outbox'[i].calls = 0
  <2>1. CASE UNCHANGED outbox
    BY <2>1 DEF Rows
  <2>2. ASSUME NEW event, Rows' = Rows \cup {Len(outbox) + 1},
               outbox'[Len(outbox) + 1] = NewRow(event, r)
        PROVE  \A i \in Rows' \ Rows : outbox'[i].attempts = 0 /\ outbox'[i].calls = 0
    BY <2>2 DEF NewRow
  <2> QED
    BY <2>1, <2>2, ClientRows
<1>4. \A p \in Polls : Keeps(p)' /\ Held(p)' = Held(p)
  BY <1>1, <1>2, HeldRows, OthersKeep DEF RowsHeld
<1>5. AttemptsCover'
  BY <1>2, <1>3, PollAssumption DEF RowsHeld, AttemptsCover
<1>6. SharedOnlyByLapse' /\ HeldIsFresh'
  BY <1>2, <1>4, HeldRows DEF RowsHeld, SharedOnlyByLapse, HeldIsFresh
<1> QED
  BY <1>4, <1>5, <1>6 DEF RowsHeld

\* A crash leaves rows that nobody holds.
LEMMA OwnedCrash ==
  ASSUME TypeOK, RowsHeld, lapsed \subseteq lapsed', Crash
  PROVE  RowsHeld'
<1>1. UNCHANGED outbox /\ \A p \in Polls : poll'[p] = IdlePoll
  BY DEF Crash
<1>2. \A p \in Polls : Held(p)' = {} /\ ~Active(p)' /\ poll'[p].claimed = {}
                       /\ poll'[p].pc = "idle"
  BY <1>1 DEF IdlePoll, Held, Active
<1> QED
  BY <1>1, <1>2 DEF RowsHeld, SharedOnlyByLapse, HeldIsFresh, Keeps, AttemptsCover, Rows

\* Time does not pass within a millisecond, and every statement that leaves a row
\* in process sets it a new instant.
LEMMA StampsStep ==
  ASSUME TypeOK, StampsAreFresh, [Next]_vars
  PROVE  StampsAreFresh'
<1>1. stamped \subseteq Rows
  BY DEF TypeOK
<1>2. CASE Quiet
  <2>1. CASE stamped' = {}
    BY <2>1 DEF StampsAreFresh
  <2>2. CASE stamped' # {}
    <3>1. UNCHANGED stamped /\ UNCHANGED outbox
      BY <1>2, <2>2 DEF Quiet, LoseCall, Answer, Ripen, LateCall, NextMillisecond, vars
    <3> QED
      BY <3>1 DEF StampsAreFresh
  <2> QED
    BY <2>1, <2>2
<1>3. ASSUME NEW r \in Requests, Client(r)
      PROVE  StampsAreFresh'
  <2>1. UNCHANGED stamped /\ \A i \in Rows : outbox'[i] = outbox[i]
    BY <1>3, ClientRows DEF Client
  <2> QED
    BY <1>1, <2>1 DEF StampsAreFresh
<1>4. ASSUME NEW p \in Polls, StartPoll(p)
      PROVE  StampsAreFresh'
  BY <1>4 DEF StartPoll, StampsAreFresh
<1>5. ASSUME NEW p \in Polls, StartRecord(p)
      PROVE  StampsAreFresh'
  <2>1. PICK c \in poll[p].claimed :
          /\ Writes(c.row, [outbox[c.row] EXCEPT !.status = "PROCESSING",
                              !.attempts = Bump(c.attempts), !.ripe = FALSE])
          /\ stamped' \subseteq stamped \cup {c.row}
    BY <1>5, StartRecordEffect
  <2>2. outbox[c.row] \in OutboxRow
    BY PollType, RowType
  <2>3. ~outbox'[c.row].ripe
    BY <2>1, <2>2 DEF Writes, OutboxRow
  <2> QED
    BY <1>1, <2>1, <2>3 DEF Writes, StampsAreFresh
<1>6. ASSUME NEW p \in Polls, Statement(p), ~StartRecord(p)
      PROVE  StampsAreFresh'
  <2>1. UNCHANGED stamped
    BY <1>6 DEF Statement, MarkPendingHcm, AuditPendingHcm, CallHcm, Approve, Reject,
       ConfirmReversal, MarkFailed, ScheduleRetry, SettleRequest, CloseRow, AuditVerdict, Settle
  <2>2. CASE AuditPendingHcm(p) \/ CallHcm(p)
    <3> DEFINE n == Row(p).calls
    <3>1. /\ Active(p)
          /\ Writes(poll[p].row, [Row(p) EXCEPT
               !.calls = IF n > MAX_OUTBOX_ATTEMPTS THEN n ELSE n + 1])
      BY <2>2, SendCallEffect
    <3>2. poll[p].row \in Rows /\ Row(p) \in OutboxRow
      BY <3>1, ActiveRow
    <3> HIDE DEF n
    <3>3. \A i \in Rows : outbox'[i].status = outbox[i].status /\ outbox'[i].ripe = outbox[i].ripe
      BY <3>1, <3>2 DEF Writes, OutboxRow, Row
    <3> QED
      BY <1>1, <2>1, <3>3 DEF StampsAreFresh
  <2>3. CASE ScheduleRetry(p) \/ CloseRow(p)
    <3>1. PICK status, attempts, ripe :
            /\ Active(p) /\ status # "PROCESSING"
            /\ Writes(poll[p].row, [Row(p) EXCEPT !.status = status, !.ripe = ripe,
                                                    !.attempts = attempts])
      <4>1. CASE ScheduleRetry(p)
        <5>1. Active(p) /\ Writes(poll[p].row, [Row(p) EXCEPT !.status = "PENDING",
                                         !.ripe = FALSE, !.attempts = poll[p].attempts])
          BY <4>1, RetryEffect
        <5> QED
          BY <5>1
      <4>2. CASE CloseRow(p)
        <5> DEFINE status == IF poll[p].verdict = "FAILED" THEN "FAILED" ELSE "DONE"
        <5>1. Active(p) /\ Writes(poll[p].row, [Row(p) EXCEPT !.status = status])
          BY <4>2, CloseEffect
        <5>2. Row(p) \in OutboxRow
          BY <5>1, ActiveRow
        <5>3. [Row(p) EXCEPT !.status = status]
                = [Row(p) EXCEPT !.status = status, !.ripe = Row(p).ripe,
                                 !.attempts = Row(p).attempts]
          BY <5>2 DEF OutboxRow
        <5>4. status # "PROCESSING"
          OBVIOUS
        <5> HIDE DEF status
        <5> QED
          BY <5>1, <5>3, <5>4
      <4> QED
        BY <2>3, <4>1, <4>2
    <3>2. poll[p].row \in Rows /\ Row(p) \in OutboxRow
      BY <3>1, ActiveRow
    <3>3. outbox'[poll[p].row].status # "PROCESSING"
      BY <3>1, <3>2 DEF Writes, OutboxRow
    <3> QED
      BY <1>1, <2>1, <3>1, <3>3 DEF Writes, StampsAreFresh
  <2>4. CASE \/ MarkPendingHcm(p) \/ Approve(p) \/ Reject(p) \/ ConfirmReversal(p)
             \/ MarkFailed(p) \/ SettleRequest(p) \/ AuditVerdict(p)
    <3>1. UNCHANGED outbox
      BY <2>4, SettleEffect DEF MarkPendingHcm, SettleRequest, AuditVerdict
    <3> QED
      BY <2>1, <3>1 DEF StampsAreFresh
  <2> QED
    BY <1>6, <2>2, <2>3, <2>4 DEF Statement
<1>7. CASE Crash
  BY <1>7 DEF Crash, StampsAreFresh
<1> QED
  BY <1>2, <1>3, <1>4, <1>5, <1>6, <1>7, Kinds

LEMMA OwnedStep == TypeOK /\ Owned /\ Lapsing /\ [Next]_vars => Owned'
<1> SUFFICES ASSUME TypeOK, Owned, Lapsing, [Next]_vars PROVE Owned'
  OBVIOUS
<1>1. RowsHeld /\ StampsAreFresh /\ lapsed \subseteq lapsed'
  BY DEF Owned, Lapsing
<1>2. RowsHeld'
  BY <1>1, Kinds, OwnedQuiet, OwnedClient, OwnedStartPoll, OwnedStatement, OwnedCrash
<1>3. StampsAreFresh'
  BY <1>1, StampsStep
<1> QED
  BY <1>2, <1>3 DEF Owned

LEMMA OwnedAlways == HistorySpec => [](TypeOK /\ Owned)
<1>1. HistoryInit => TypeOK /\ Owned
  BY TypeInit, OwnedInit DEF HistoryInit
<1>2. TypeOK /\ Owned /\ HistoryStep => (TypeOK /\ Owned)'
  BY TypeStep, OwnedStep, HistoryMoves
<1> QED
  BY <1>1, <1>2, PTL DEF HistorySpec, HistoryStep

\* Two polls have a row only after that very row was collected by its millisecond
\* or outlived the watchdog in a batch: for any number of polls, any settings of
\* claims, watchdog and attempts, and any retries, late answers, crashes and
\* cancellations.
THEOREM RowsShared == HistorySpec => []SharedOnlyByLapse
<1>1. Owned => SharedOnlyByLapse
  BY DEF Owned, RowsHeld
<1> QED
  BY <1>1, OwnedAlways, PTL

\* And whatever became of other rows, a row that did not lapse causes no more HCM
\* calls than MAX_OUTBOX_ATTEMPTS, over retries, watchdog resets and restarts.
THEOREM CallsAreBounded == HistorySpec => []CallsBoundedButLapsed
<1>1. Owned => CallsBoundedButLapsed
  BY DEF Owned, RowsHeld, AttemptsCover, CallsBoundedButLapsed
<1> QED
  BY <1>1, OwnedAlways, PTL

(***************************************************************************)
(* A settled row stays settled.                                            *)
(***************************************************************************)
Settled(i) == outbox[i].status \in {"DONE", "FAILED"}

\* Whoever writes a row holds it, and what is held is in process.
LEMMA SettledStatement ==
  ASSUME TypeOK, Owned, NEW p \in Polls, Statement(p),
         NEW i \in Rows, Settled(i), i \notin lapsed
  PROVE  outbox'[i].status = outbox[i].status
<1>1. CASE StartRecord(p)
  <2>1. PICK c \in poll[p].claimed :
          Writes(c.row, [outbox[c.row] EXCEPT !.status = "PROCESSING",
                           !.attempts = Bump(c.attempts), !.ripe = FALSE])
    BY <1>1, StartRecordEffect
  <2>2. c.row = i => outbox[c.row].status = "PROCESSING"
    BY DEF Owned, RowsHeld, Keeps
  <2> QED
    BY <2>1, <2>2 DEF Writes, Settled
<1>2. CASE AuditPendingHcm(p) \/ CallHcm(p)
  <2>1. PICK n : Active(p) /\ Writes(poll[p].row, [Row(p) EXCEPT !.calls = n])
    BY <1>2, SendCallEffect
  <2>2. Row(p) \in OutboxRow
    BY <2>1, ActiveRow
  <2>3. [Row(p) EXCEPT !.calls = n].status = Row(p).status
    BY <2>2 DEF OutboxRow
  <2> QED
    BY <2>1, <2>3 DEF Writes, Row
<1>3. CASE ScheduleRetry(p)
  <2>1. /\ Active(p) /\ poll[p].pc = "await"
        /\ Writes(poll[p].row, [Row(p) EXCEPT !.status = "PENDING", !.ripe = FALSE,
                                               !.attempts = poll[p].attempts])
    BY <1>3, RetryEffect
  <2>2. poll[p].row = i => outbox[poll[p].row].status = "PROCESSING"
    BY <2>1 DEF Owned, RowsHeld, Keeps
  <2> QED
    BY <2>1, <2>2 DEF Writes, Settled
<1>4. CASE CloseRow(p)
  <2>1. /\ Active(p) /\ poll[p].pc = "close"
        /\ Writes(poll[p].row, [Row(p) EXCEPT
             !.status = IF poll[p].verdict = "FAILED" THEN "FAILED" ELSE "DONE"])
    BY <1>4, CloseEffect
  <2>2. poll[p].row = i => outbox[poll[p].row].status = "PROCESSING"
    BY <2>1 DEF Owned, RowsHeld, Keeps
  <2> QED
    BY <2>1, <2>2 DEF Writes, Settled
<1>5. CASE \/ MarkPendingHcm(p) \/ SettleRequest(p) \/ AuditVerdict(p)
           \/ Approve(p) \/ Reject(p) \/ ConfirmReversal(p) \/ MarkFailed(p)
  <2>1. UNCHANGED outbox
    BY <1>5, SettleEffect DEF MarkPendingHcm, SettleRequest, AuditVerdict
  <2> QED
    BY <2>1
<1> QED
  BY <1>1, <1>2, <1>3, <1>4, <1>5 DEF Statement

LEMMA SettledStep ==
  ASSUME TypeOK, Owned, [Next]_vars, NEW i \in Rows, Settled(i), i \notin lapsed
  PROVE  outbox'[i].status = outbox[i].status
<1>1. CASE Quiet
  BY <1>1, QuietRows DEF Ripen, Settled
<1>2. CASE \E r \in Requests : Client(r)
  BY <1>2, ClientRows
<1>3. ASSUME NEW p \in Polls, StartPoll(p)
      PROVE  outbox'[i].status = outbox[i].status
  <2>1. i \notin pendingAfterReset /\ i \notin stuckProcessing
    BY DEF Settled, pendingAfterReset, stuckProcessing
  <2> QED
    BY <1>3, <2>1, StartPollEffect
<1>4. CASE Crash
  BY <1>4 DEF Crash
<1> QED
  BY <1>1, <1>2, <1>3, <1>4, Kinds, SettledStatement

\* A settled row that did not lapse is never claimed or executed again, by
\* whichever poll, watchdog reset or restart.
THEOREM RowsStaySettled == HistorySpec => SettledStayButLapsed
<1>1. TypeOK /\ Owned /\ HistoryStep
        => [\A i \in Rows \ lapsed : outbox[i].status \in {"DONE", "FAILED"} =>
              outbox'[i].status = outbox[i].status]_vars
  BY HistoryMoves, SettledStep DEF Settled
<1> QED
  BY <1>1, OwnedAlways, PTL DEF HistorySpec, HistoryStep, SettledStayButLapsed

(***************************************************************************)
(* The requests of the rows.                                               *)
(***************************************************************************)
\* One deduction per request, and a reversal only after it is settled.
RowsInOrder ==
  /\ \A i \in Rows : request[outbox[i].req] # NotCreated
  /\ \A i, j \in Rows :
       outbox[i].req = outbox[j].req /\ outbox[i].event = outbox[j].event => i = j
  /\ \A i \in Rows : outbox[i].event = "HCM_REVERSE" =>
       /\ request[outbox[i].req] \in {"CANCELLING", "CANCELLED", "FAILED"}
       /\ \A j \in Rows : outbox[j].req = outbox[i].req /\ j # i => Settled(j)

\* An approval closes the deduction in its own turn.
ApprovalCloses ==
  ~torn =>
    \A i \in Rows : request[outbox[i].req] = "APPROVED" =>
      Settled(i) \/ \E p \in Polls : poll[p].pc = "close" /\ poll[p].row = i

\* The copy a poll decides by is the request.
SeenIsState ==
  \A p \in Polls : poll[p].pc \in {"await", "settle"} =>
    poll[p].seen = request[Req(p)] /\ (poll[p].pc = "await" => poll[p].seen # "SUBMITTED")

InOrder == RowsInOrder /\ ApprovalCloses /\ SeenIsState

Lifelines == Orderly => InOrder

LEMMA LifelinesInit == Init => Lifelines
<1> SUFFICES ASSUME Init PROVE InOrder
  BY DEF Lifelines
<1>1. Rows = {}
  BY DEF Init, RequestsInit, Rows
<1> QED
  BY <1>1, IdlePollOK DEF Init, InOrder, RowsInOrder, ApprovalCloses, SeenIsState

LEMMA OrderlyStep ==
  ASSUME TypeOK, [Next]_vars, Lapsing, Tearing
  PROVE  /\ ~torn' => ~torn /\ ~TurnTorn
         /\ cancels' = 0 => cancels = 0
         /\ Orderly' => Orderly
<1>1. /\ ~torn' => ~torn /\ ~TurnTorn
      /\ lapsed' = {} => lapsed = {}
  BY DEF Lapsing, Tearing
<1> SUFFICES cancels' = 0 => cancels = 0
  BY <1>1 DEF Orderly
<1> USE DEF TypeOK, RequestsTypeOK
<1>2. CASE Quiet
  <2> HIDE DEF TypeOK, RequestsTypeOK
  <2> QED
    BY <1>2, QuietKeepsTurns DEF requestVars
<1>3. CASE \E r \in Requests : Client(r)
  BY <1>3 DEF Client, createRequest, cancelRequest, cancelSubmitted, cancelApproved
<1>4. CASE \E p \in Polls : StartPoll(p)
  BY <1>4 DEF StartPoll, requestVars
<1>5. CASE \E p \in Polls : Statement(p)
  BY <1>5 DEF Statement, StartRecord, MarkPendingHcm, AuditPendingHcm, CallHcm, Approve, Reject,
     ConfirmReversal, MarkFailed, ScheduleRetry, SettleRequest, CloseRow, AuditVerdict, Settle,
     requestVars
<1>6. CASE Crash
  BY <1>6 DEF Crash, requestVars
<1> QED
  BY <1>2, <1>3, <1>4, <1>5, <1>6, Kinds

LEMMA OneAtWork ==
  ASSUME TypeOK, RowsInOrder
  PROVE  OneActiveRow
<1> SUFFICES ASSUME NEW i \in Rows, NEW j \in Rows, outbox[i].req = outbox[j].req,
                    ~Settled(i), ~Settled(j), i # j
             PROVE  FALSE
  BY DEF OneActiveRow, Settled
<1>1. outbox[i].event # outbox[j].event
  BY DEF RowsInOrder
<1>2. outbox[i].event = "HCM_REVERSE" \/ outbox[j].event = "HCM_REVERSE"
  BY <1>1, RowType DEF OutboxEvent
<1> QED
  BY <1>2 DEF RowsInOrder

\* Of its own a poll's record changes by its statements and by a crash only.
LEMMA RecordFrame ==
  ASSUME TypeOK, [Next]_vars, NEW p \in Polls
  PROVE  \/ poll'[p] = [poll[p] EXCEPT !.reply = poll'[p].reply]
         \/ StartPoll(p) \/ Statement(p) \/ Crash
<1>1. CASE Quiet
  <2>1. CASE \E q \in Polls : LoseCall(q) \/ \E reply \in Replies : Answer(q, reply)
    <3>1. PICK q \in Polls : \E reply : poll' = [poll EXCEPT ![q].reply = reply]
      BY <2>1 DEF LoseCall, Answer
    <3> QED
      BY <3>1 DEF TypeOK, PollRecord
  <2>2. CASE ~\E q \in Polls : LoseCall(q) \/ \E reply \in Replies : Answer(q, reply)
    <3>1. UNCHANGED poll
      BY <1>1, <2>2 DEF Quiet, Ripen, LateCall, NextMillisecond, vars
    <3> QED
      BY <3>1 DEF TypeOK, PollRecord
  <2> QED
    BY <2>1, <2>2
<1>2. CASE \E r \in Requests : Client(r)
  BY <1>2 DEF Client, TypeOK, PollRecord
<1>3. ASSUME NEW q \in Polls, StartPoll(q) \/ Statement(q), q # p
      PROVE  poll'[p] = [poll[p] EXCEPT !.reply = poll'[p].reply]
  BY <1>3, OthersKept DEF Others, TypeOK, PollRecord
<1> QED
  BY <1>1, <1>2, <1>3, Kinds

\* A poll that awaits was awaiting, or has just called.
LEMMA CallFrame ==
  ASSUME TypeOK, [Next]_vars, NEW p \in Polls, poll'[p].pc = "await"
  PROVE  \/ poll'[p] = [poll[p] EXCEPT !.reply = poll'[p].reply]
         \/ AuditPendingHcm(p) \/ CallHcm(p)
<1>1. CASE StartPoll(p)
  <2>1. poll'[p].pc = "next"
    BY <1>1, StartPollEffect, IdlePollOK DEF PollRecord
  <2> QED
    BY <2>1
<1>2. CASE Crash
  BY <1>2, IdlePollOK DEF Crash
<1>3. ASSUME Statement(p), ~AuditPendingHcm(p), ~CallHcm(p)
      PROVE  FALSE
  <2>1. CASE StartRecord(p)
    BY <2>1, StartRecordEffect, PollType DEF PollRecord
  <2>2. CASE Approve(p) \/ Reject(p) \/ ConfirmReversal(p) \/ MarkFailed(p)
    <3>1. poll'[p].pc = "settle"
      BY <2>2, SettlePoll DEF Approve, Reject, ConfirmReversal, MarkFailed
    <3> QED
      BY <3>1
  <2>3. CASE ScheduleRetry(p) \/ AuditVerdict(p)
    <3>1. poll'[p] = Finished(p)
      BY <2>3, RetryEffect DEF AuditVerdict, TypeOK
    <3> QED
      BY <3>1, FinishedFields
  <2>4. CASE CloseRow(p)
    BY <2>4, CloseEffect, PollType DEF PollRecord
  <2>5. CASE MarkPendingHcm(p)
    BY <2>5, PollType DEF MarkPendingHcm, PollRecord, TypeOK
  <2>6. CASE SettleRequest(p)
    <3>1. poll'[p].pc = "close" \/ poll'[p] = Finished(p)
      BY <2>6, PollType DEF SettleRequest, PollRecord, TypeOK
    <3> QED
      BY <3>1, FinishedFields
  <2> QED
    BY <1>3, <2>1, <2>2, <2>3, <2>4, <2>5, <2>6 DEF Statement
<1> QED
  BY <1>1, <1>2, <1>3, RecordFrame

\* What a verdict finds when it is written.
LEMMA VerdictFinds ==
  ASSUME TypeOK, Owned, lapsed = {}, SeenIsState, NEW p \in Polls, SettleRequest(p)
  PROVE  /\ poll[p].row \in Rows /\ ~Settled(poll[p].row)
         /\ outbox[poll[p].row].req = Req(p) /\ Req(p) \in Requests
         /\ poll[p].seen = request[Req(p)] /\ poll[p].verdict \in Verdict
<1>1. Active(p) /\ poll[p].pc = "settle"
  BY DEF SettleRequest, Active
<1> QED
  BY <1>1, ActiveRow DEF Owned, RowsHeld, Keeps, Settled, SeenIsState, Row, Req, PollRecord

\* Each write to a request, and what it was before.
LEMMA Moves ==
  ASSUME TypeOK, Owned, lapsed = {}, SeenIsState, [Next]_vars,
         NEW r \in Requests, request'[r] # request[r]
  PROVE  \/ EventLoopFree /\ createRequest(r)
         \/ EventLoopFree /\ cancelSubmitted(r)
         \/ EventLoopFree /\ cancelApproved(r) /\ Client(r)
         \/ \E p \in Polls : /\ MarkPendingHcm(p) /\ Req(p) = r
                             /\ request[r] = "SUBMITTED" /\ request'[r] = "PENDING_HCM"
         \/ \E p \in Polls : /\ SettleRequest(p) /\ Req(p) = r
                             /\ CanTransition(request[r], poll[p].verdict)
                             /\ request'[r] = poll[p].verdict
                             /\ poll'[p] = [poll[p] EXCEPT !.pc = "close"]
<1>1. CASE Client(r) /\ EventLoopFree
  BY <1>1 DEF Client, cancelRequest
<1>2. ASSUME NEW p \in Polls, SettleRequest(p), CanTransition(poll[p].seen, poll[p].verdict)
      PROVE  poll'[p] = [poll[p] EXCEPT !.pc = "close"] /\ poll[p].seen = request[Req(p)]
  BY <1>2, VerdictFinds DEF SettleRequest, TypeOK
<1> QED
  BY <1>1, <1>2, RequestWrites

\* From where verdicts come.
LEMMA Verdicts ==
  ASSUME NEW from, from \in RequestState \cup {NotCreated}, from # NotCreated,
         NEW to \in Verdict, CanTransition(from, to)
  PROVE  /\ to = "APPROVED" => from = "PENDING_HCM"
         /\ from \in {"CANCELLING", "CANCELLED", "FAILED"} => to \in {"CANCELLED", "FAILED"}
BY DEF CanTransition, getValidTransitions, RequestState, NotCreated, Verdict

\* A request keeps its existence, and its reversal keeps it out of the way.
LEMMA LivesOn ==
  ASSUME TypeOK, Owned, lapsed = {}, InOrder, [Next]_vars, NEW i \in Rows
  PROVE  /\ outbox'[i].req = outbox[i].req /\ outbox[i].req \in Requests
         /\ request'[outbox[i].req] # NotCreated
         /\ outbox[i].event = "HCM_REVERSE" =>
              request'[outbox[i].req] \in {"CANCELLING", "CANCELLED", "FAILED"}
<1> DEFINE r == outbox[i].req
<1>1. r \in Requests /\ outbox'[i].req = r
  BY RowType, OutboxStep DEF RowsKept
<1>2. /\ request[r] # NotCreated /\ request[r] \in RequestState \cup {NotCreated}
      /\ request \in [Requests -> RequestState \cup {NotCreated}]
      /\ outbox[i].event = "HCM_REVERSE" => request[r] \in {"CANCELLING", "CANCELLED", "FAILED"}
  BY <1>1 DEF InOrder, RowsInOrder, TypeOK, RequestsTypeOK
<1> HIDE DEF r
<1>3. CASE request'[r] = request[r]
  BY <1>1, <1>2, <1>3 DEF r
<1>4. CASE request'[r] # request[r]
  <2>1. CASE createRequest(r)
    BY <1>2, <2>1 DEF createRequest
  <2>2. CASE cancelSubmitted(r)
    BY <1>1, <1>2, <2>2 DEF cancelSubmitted, NotCreated, r
  <2>3. CASE cancelApproved(r)
    BY <1>1, <1>2, <2>3 DEF cancelApproved, NotCreated, r
  <2>4. CASE request[r] = "SUBMITTED" /\ request'[r] = "PENDING_HCM"
    BY <1>1, <1>2, <2>4 DEF NotCreated, r
  <2>5. ASSUME NEW p \in Polls, SettleRequest(p), CanTransition(request[r], poll[p].verdict),
               request'[r] = poll[p].verdict
        PROVE  /\ request'[r] # NotCreated
               /\ outbox[i].event = "HCM_REVERSE" =>
                    request'[r] \in {"CANCELLING", "CANCELLED", "FAILED"}
    <3>1. poll[p].verdict \in Verdict
      BY <2>5, VerdictFinds DEF InOrder
    <3>2. poll[p].verdict # NotCreated
      BY <3>1 DEF Verdict, NotCreated
    <3> QED
      BY <1>2, <2>5, <3>1, <3>2, Verdicts
  <2> QED
    BY <1>1, <1>4, <2>1, <2>2, <2>3, <2>4, <2>5, Moves DEF InOrder, r
<1> QED
  BY <1>3, <1>4

LEMMA RowsInOrderStep ==
  ASSUME TypeOK, Owned, InOrder, [Next]_vars, Lapsing, Tearing, Orderly'
  PROVE  RowsInOrder'
<1> lapsed = {}
  BY OrderlyStep DEF Orderly
<1>1. \A i \in Rows : i \in Rows' /\ outbox'[i].event = outbox[i].event
  BY OutboxStep, LenProperties DEF RowsKept, Rows, TypeOK, RequestsTypeOK
<1>2. \A i \in Rows : Settled(i) => Settled(i)'
  BY SettledStep DEF Settled
<1>3. CASE Rows' = Rows
  BY <1>1, <1>2, <1>3, LivesOn DEF InOrder, RowsInOrder
<1>4. CASE Rows' # Rows
  <2>1. PICK r \in Requests : Client(r)
    BY <1>4, NoNewRows
  <2> DEFINE new == Len(outbox) + 1
  <2>2. /\ Rows' = Rows \cup {new} /\ new \notin Rows
        /\ \A i \in Rows : outbox'[i] = outbox[i]
        /\ \/ createRequest(r) /\ outbox'[new] = NewRow("HCM_DEDUCT", r)
           \/ cancelApproved(r) /\ outbox'[new] = NewRow("HCM_REVERSE", r)
    BY <1>4, <2>1, ClientRows DEF Rows
  <2> HIDE DEF new
  <2>3. EventLoopFree
    BY <2>1 DEF Client
  <2>4. \A i \in Rows : request[outbox[i].req] # NotCreated
    BY DEF InOrder, RowsInOrder
  <2>5. CASE createRequest(r) /\ outbox'[new] = NewRow("HCM_DEDUCT", r)
    <3>1. \A i \in Rows : outbox[i].req # r
      BY <2>4, <2>5 DEF createRequest
    <3>2. outbox'[new].req = r /\ outbox'[new].event = "HCM_DEDUCT"
      BY <2>5 DEF NewRow
    <3>3. request'[r] # NotCreated
      BY <2>5 DEF createRequest, TypeOK, RequestsTypeOK, NotCreated
    <3> QED
      BY <1>2, <2>2, <3>1, <3>2, <3>3, LivesOn DEF InOrder, RowsInOrder
  <2>6. CASE cancelApproved(r) /\ outbox'[new] = NewRow("HCM_REVERSE", r)
    <3>1. outbox'[new].req = r /\ outbox'[new].event = "HCM_REVERSE"
      BY <2>6 DEF NewRow
    <3>2. request[r] = "APPROVED" /\ request'[r] = "CANCELLING" /\ cancels' # 0
      BY <2>6 DEF cancelApproved, TypeOK, RequestsTypeOK
    <3>3. ~torn
      BY <3>2, OrderlyStep DEF Orderly
    <3>4. \A i \in Rows : outbox[i].req = r => Settled(i)
      BY <2>3, <3>2, <3>3 DEF InOrder, ApprovalCloses, EventLoopFree, InTurn
    <3>5. \A i \in Rows : outbox[i].req = r => outbox[i].event # "HCM_REVERSE"
      BY <3>2 DEF InOrder, RowsInOrder
    <3>6. "CANCELLING" # NotCreated
      BY DEF NotCreated
    <3> QED
      BY <1>2, <2>2, <3>1, <3>2, <3>4, <3>5, <3>6, LivesOn DEF InOrder, RowsInOrder
  <2> QED
    BY <2>2, <2>5, <2>6
<1> QED
  BY <1>3, <1>4

LEMMA ApprovalClosesStep ==
  ASSUME TypeOK, Owned, TurnInv, InOrder, [Next]_vars, Lapsing, Tearing, lapsed' = {}, ~torn'
  PROVE  ApprovalCloses'
<1> lapsed = {}
  BY DEF Lapsing
<1>1. ~torn /\ (Crash => \A p \in Polls : poll[p].pc # "close")
  BY OrderlyStep DEF Crash, TypeOK, TurnTorn
<1> SUFFICES ASSUME NEW i \in Rows', request'[outbox'[i].req] = "APPROVED"
             PROVE  Settled(i)' \/ \E p \in Polls : poll'[p].pc = "close" /\ poll'[p].row = i
  BY DEF ApprovalCloses
<1>2. i \in Rows
  <2>1. CASE Rows' = Rows
    BY <2>1
  <2>2. CASE Rows' # Rows
    <3>1. PICK r \in Requests : Client(r)
      BY <2>2, NoNewRows
    <3>2. CASE i \notin Rows
      <4>1. /\ Rows' = Rows \cup {Len(outbox) + 1}
            /\ \/ createRequest(r) /\ outbox'[Len(outbox) + 1] = NewRow("HCM_DEDUCT", r)
               \/ cancelApproved(r) /\ outbox'[Len(outbox) + 1] = NewRow("HCM_REVERSE", r)
        BY <2>2, <3>1, ClientRows DEF Rows
      <4>2. i = Len(outbox) + 1
        BY <3>2, <4>1
      <4>3. outbox'[i].req = r
        BY <4>1, <4>2 DEF NewRow
      <4> QED
        BY <4>1, <4>3 DEF createRequest, cancelApproved, TypeOK, RequestsTypeOK
    <3> QED
      BY <3>2
  <2> QED
    BY <2>1, <2>2
<1> DEFINE r == outbox[i].req
<1>3. r \in Requests /\ request'[r] = "APPROVED"
  BY <1>2, LivesOn
<1> HIDE DEF r
<1>4. CASE request[r] = "APPROVED"
  <2>1. CASE Settled(i)
    BY <1>2, <2>1, SettledStep DEF Settled
  <2>2. CASE ~Settled(i)
    <3>1. PICK p \in Polls : poll[p].pc = "close" /\ poll[p].row = i
      BY <1>1, <1>2, <1>4, <2>2 DEF InOrder, ApprovalCloses, r
    <3>2. CASE poll'[p] = [poll[p] EXCEPT !.reply = poll'[p].reply]
      BY <3>1, <3>2, PollType DEF PollRecord
    <3>3. CASE Statement(p)
      <4>1. CloseRow(p)
        BY <3>1, <3>3 DEF Statement, StartRecord, MarkPendingHcm, AuditPendingHcm, CallHcm,
           Approve, Reject, ConfirmReversal, MarkFailed, ScheduleRetry, SettleRequest, AuditVerdict,
           Resumes
      <4>2. Active(p)
        BY <3>1 DEF Active
      <4>3. outbox'[i].status \in {"DONE", "FAILED"}
        BY <3>1, <4>1, <4>2, CloseEffect, ActiveRow DEF Writes, OutboxRow
      <4> QED
        BY <4>3 DEF Settled
    <3>4. ~StartPoll(p)
      BY <3>1 DEF StartPoll
    <3> QED
      BY <1>1, <3>1, <3>2, <3>3, <3>4, RecordFrame
  <2> QED
    BY <2>1, <2>2
<1>5. CASE request[r] # "APPROVED"
  <2>1. PICK p \in Polls :
          /\ SettleRequest(p) /\ Req(p) = r
          /\ CanTransition(request[r], poll[p].verdict) /\ poll[p].verdict = "APPROVED"
          /\ poll'[p] = [poll[p] EXCEPT !.pc = "close"]
    <3>1. request'[r] # request[r]
      BY <1>3, <1>5
    <3>2. ~createRequest(r) /\ ~cancelSubmitted(r) /\ ~cancelApproved(r)
      BY <1>3 DEF createRequest, cancelSubmitted, cancelApproved, TypeOK, RequestsTypeOK
    <3> QED
      BY <1>3, <3>1, <3>2, Moves DEF InOrder
  <2>2. request[r] = "PENDING_HCM"
    <3>1. request[r] # NotCreated /\ request[r] \in RequestState \cup {NotCreated}
      BY <1>2, <1>3 DEF InOrder, RowsInOrder, TypeOK, RequestsTypeOK, r
    <3> QED
      BY <2>1, <3>1, VerdictFinds, Verdicts DEF InOrder
  <2>3. poll[p].row \in Rows /\ outbox[poll[p].row].req = r
    BY <2>1, VerdictFinds DEF InOrder
  <2>4. outbox[i].event = "HCM_DEDUCT" /\ outbox[poll[p].row].event = "HCM_DEDUCT"
    BY <1>2, <2>2, <2>3, RowType DEF InOrder, RowsInOrder, OutboxEvent, r
  <2>5. poll[p].row = i
    BY <1>2, <2>3, <2>4 DEF InOrder, RowsInOrder, r
  <2>6. poll'[p].pc = "close" /\ poll'[p].row = i
    BY <2>1, <2>5, PollType DEF PollRecord
  <2> QED
    BY <2>6
<1> QED
  BY <1>4, <1>5

\* Nobody writes the request of a poll that awaits or settles, but that poll.
LEMMA NobodyInterferes ==
  ASSUME TypeOK, Owned, TurnInv, InOrder, [Next]_vars, Lapsing, Tearing, Orderly',
         NEW p \in Polls, poll[p].pc \in {"await", "settle"}, ~SettleRequest(p)
  PROVE  request'[Req(p)] = request[Req(p)]
<1> lapsed = {}
  BY OrderlyStep DEF Orderly
<1> DEFINE r == Req(p)
<1>1. /\ Active(p) /\ r \in Requests /\ poll[p].row \in Rows /\ ~Settled(poll[p].row)
      /\ outbox[poll[p].row].req = r /\ poll[p].seen = request[r]
      /\ poll[p].pc = "await" => request[r] # "SUBMITTED"
  <2>1. Active(p)
    BY DEF Active
  <2> QED
    BY <2>1, ActiveRow DEF InOrder, SeenIsState, Owned, RowsHeld, Keeps, Settled, Row, Req
<1> HIDE DEF r
<1> SUFFICES ASSUME request'[r] # request[r] PROVE FALSE
  BY DEF r
<1>2. EventLoopFree => poll[p].pc = "await"
  BY DEF EventLoopFree, InTurn
<1>3. CASE createRequest(r)
  BY <1>1, <1>3 DEF createRequest, InOrder, RowsInOrder
<1>4. CASE EventLoopFree /\ cancelSubmitted(r)
  BY <1>1, <1>2, <1>4 DEF cancelSubmitted
<1>5. CASE EventLoopFree /\ cancelApproved(r) /\ Client(r)
  <2>1. request[r] = "APPROVED" /\ cancels' # 0
    BY <1>5 DEF cancelApproved, Client, TypeOK, RequestsTypeOK
  <2>2. ~torn
    BY <2>1, OrderlyStep DEF Orderly
  <2>3. \E q \in Polls : poll[q].pc = "close"
    BY <1>1, <2>1, <2>2 DEF InOrder, ApprovalCloses
  <2> QED
    BY <1>5, <2>3 DEF EventLoopFree, InTurn
<1>6. ASSUME NEW q \in Polls, MarkPendingHcm(q), Req(q) = r, request[r] = "SUBMITTED"
      PROVE  FALSE
  <2>1. InTurn(q) /\ q # p
    BY <1>6 DEF MarkPendingHcm, InTurn
  <2>2. poll[p].pc = "await"
    BY <2>1 DEF TurnInv, OneTurn, InTurn
  <2> QED
    BY <1>1, <1>6, <2>2
<1>7. ASSUME NEW q \in Polls, SettleRequest(q), Req(q) = r
      PROVE  FALSE
  <2>1. /\ q # p /\ poll[q].row \in Rows /\ ~Settled(poll[q].row)
        /\ outbox[poll[q].row].req = r
    BY <1>7, VerdictFinds DEF InOrder
  <2>2. poll[q].row \in Held(q) /\ poll[p].row \in Held(p)
    BY <1>1, <1>7 DEF SettleRequest, Held, Active
  <2>3. poll[q].row # poll[p].row
    BY <2>1, <2>2 DEF Owned, RowsHeld, SharedOnlyByLapse
  <2>4. /\ outbox[poll[p].row].status \in {"PENDING", "PROCESSING"}
        /\ outbox[poll[q].row].status \in {"PENDING", "PROCESSING"}
    BY <1>1, <2>1, RowType DEF Settled, OutboxStatus
  <2> QED
    BY <1>1, <2>1, <2>3, <2>4, OneAtWork DEF InOrder, OneActiveRow
<1> QED
  BY <1>1, <1>3, <1>4, <1>5, <1>6, <1>7, Moves DEF InOrder

LEMMA SeenIsStateStep ==
  ASSUME TypeOK, Owned, TurnInv, InOrder, [Next]_vars, Lapsing, Tearing, Orderly'
  PROVE  SeenIsState'
<1> lapsed = {}
  BY OrderlyStep DEF Orderly
<1> SUFFICES ASSUME NEW p \in Polls, poll'[p].pc \in {"await", "settle"}
             PROVE  /\ poll'[p].seen = request'[Req(p)']
                    /\ poll'[p].pc = "await" => poll'[p].seen # "SUBMITTED"
  BY DEF SeenIsState
<1>1. RowsKept
  BY OutboxStep
<1>2. ASSUME poll'[p] = [poll[p] EXCEPT !.reply = poll'[p].reply]
      PROVE  /\ poll'[p].seen = request'[Req(p)']
             /\ poll'[p].pc = "await" => poll'[p].seen # "SUBMITTED"
  <2>1. /\ poll[p].pc = poll'[p].pc /\ poll'[p].row = poll[p].row
        /\ poll'[p].seen = poll[p].seen
    BY <1>2, PollType DEF PollRecord
  <2>2. Req(p)' = Req(p)
    BY <1>1, <2>1, SameRequest DEF Active
  <2>3. ~SettleRequest(p)
    <3>1. ASSUME SettleRequest(p)
          PROVE  FALSE
      <4>1. poll'[p].pc = "close" \/ poll'[p] = Finished(p)
        BY <3>1, PollType DEF SettleRequest, PollRecord, TypeOK
      <4> QED
        BY <4>1, FinishedFields
    <3> QED
      BY <3>1
  <2>4. request'[Req(p)] = request[Req(p)]
    BY <2>1, <2>3, NobodyInterferes
  <2> QED
    BY <2>1, <2>2, <2>4 DEF InOrder, SeenIsState
<1>3. ASSUME AuditPendingHcm(p) \/ CallHcm(p)
      PROVE  /\ poll'[p].seen = request'[Req(p)']
             /\ poll'[p].pc = "await" => poll'[p].seen # "SUBMITTED"
  <2>1. /\ Active(p) /\ UNCHANGED request
        /\ poll'[p] = [poll[p] EXCEPT !.pc = "await", !.reply = Sent,
             !.seen = IF AuditPendingHcm(p) THEN "PENDING_HCM" ELSE request[Req(p)]]
    BY <1>3, SendCallEffect
  <2>2. /\ poll'[p].row = poll[p].row
        /\ poll'[p].seen = IF AuditPendingHcm(p) THEN "PENDING_HCM" ELSE request[Req(p)]
    BY <2>1, PollType DEF PollRecord
  <2>3. Req(p)' = Req(p)
    BY <1>1, <2>1, <2>2, SameRequest
  <2>4. AuditPendingHcm(p) => request[Req(p)] = "PENDING_HCM"
    BY DEF AuditPendingHcm, TurnInv, LogLags, Unaudited, Written
  <2>5. CallHcm(p) => request[Req(p)] # "SUBMITTED"
    <3>1. poll[p].row \in Rows
      BY <2>1, ActiveRow
    <3> QED
      BY <3>1 DEF CallHcm, InOrder, RowsInOrder, Row, Req
  <2> QED
    BY <1>3, <2>1, <2>2, <2>3, <2>4, <2>5
<1>4. ASSUME Approve(p) \/ Reject(p) \/ ConfirmReversal(p) \/ MarkFailed(p)
      PROVE  /\ poll'[p].seen = request'[Req(p)']
             /\ poll'[p].pc = "await" => poll'[p].seen # "SUBMITTED"
  <2>1. PICK seen, verdict :
          /\ seen = request[Req(p)]
          /\ Settle(p, seen, verdict)
    <3>1. CASE Approve(p) \/ Reject(p) \/ ConfirmReversal(p)
      <4>1. poll[p].seen = request[Req(p)]
        BY <3>1 DEF Approve, Reject, ConfirmReversal, Resumes, InOrder, SeenIsState
      <4> QED
        BY <3>1, <4>1 DEF Approve, Reject, ConfirmReversal
    <3>2. CASE MarkFailed(p)
      BY <3>2 DEF MarkFailed
    <3> QED
      BY <1>4, <3>1, <3>2
  <2>2. Active(p) /\ UNCHANGED request
    BY <1>4, SettleEffect
  <2>3. poll'[p].pc = "settle" /\ poll'[p].row = poll[p].row
    BY <2>1, SettlePoll
  <2>4. poll'[p].seen = seen
    BY <2>1, PollType DEF Settle, PollRecord, TypeOK
  <2>5. Req(p)' = Req(p)
    BY <1>1, <2>2, <2>3, SameRequest
  <2> QED
    BY <2>1, <2>2, <2>3, <2>4, <2>5
<1> QED
  BY <1>2, <1>3, <1>4, CallFrame, SettleFrame

LEMMA LifelinesStep ==
  TypeOK /\ Owned /\ TurnInv /\ Lifelines /\ Lapsing /\ Tearing /\ [Next]_vars => Lifelines'
<1> SUFFICES ASSUME TypeOK, Owned, TurnInv, Lifelines, Lapsing, Tearing, [Next]_vars, Orderly'
             PROVE  InOrder'
  BY DEF Lifelines
<1>1. InOrder
  BY OrderlyStep DEF Lifelines
<1>2. ApprovalCloses'
  BY <1>1, ApprovalClosesStep DEF ApprovalCloses, Orderly
<1> QED
  BY <1>1, <1>2, RowsInOrderStep, SeenIsStateStep DEF InOrder

\* Everything together.
All == TypeOK /\ Owned /\ TurnInv /\ Lifelines

LEMMA AllInit == HistoryInit => All
BY TypeInit, OwnedInit, TurnInit, LifelinesInit DEF HistoryInit, All

LEMMA AllStep == All /\ HistoryStep => All'
BY HistoryMoves, TypeStep, OwnedStep, TurnStep, LifelinesStep DEF All

\* One outbox row per request is at work: a cancelled request is reversed after
\* its deduction is settled, never beside it, whatever any number of polls, retries,
\* late answers and crashes do, unless a row lapsed, or a crash tore a turn and
\* something was cancelled as well.
THEOREM OneRowAtWork == HistorySpec => []OneRowInOrder
<1>1. All => OneRowInOrder
  BY OneAtWork DEF All, Lifelines, InOrder, OneRowInOrder
<1> QED
  BY <1>1, AllInit, AllStep, PTL DEF HistorySpec, HistoryStep

(***************************************************************************)
(* The state machine is what the request rows follow.                      *)
(***************************************************************************)
LEMMA LifecycleStep ==
  ASSUME TypeOK, Owned, lapsed = {}, InOrder, [Next]_vars
  PROVE  [Lifecycle!Next]_request
<1> SUFFICES ASSUME request' # request PROVE Lifecycle!Next
  OBVIOUS
<1>1. ASSUME NEW r \in Requests, NEW to \in RequestState, request[r] # NotCreated,
             CanTransition(request[r], to), request' = [request EXCEPT ![r] = to]
      PROVE  Lifecycle!Next
  <2>1. Lifecycle!Move(r, to)
    BY <1>1 DEF Lifecycle!Move, Lifecycle!CanTransition, Lifecycle!getValidTransitions,
       Lifecycle!NotCreated, CanTransition, getValidTransitions, NotCreated
  <2>2. to \in Lifecycle!RequestState
    BY DEF RequestState, Lifecycle!RequestState
  <2> QED
    BY <2>1, <2>2 DEF Lifecycle!Next
<1>2. PICK r \in Requests : request'[r] # request[r]
  <2>1. /\ request \in [Requests -> RequestState \cup {NotCreated}]
        /\ request' \in [Requests -> RequestState \cup {NotCreated}]
    BY TypeStep DEF TypeOK, RequestsTypeOK
  <2> QED
    BY <2>1
<1>3. CASE createRequest(r)
  BY <1>3 DEF createRequest, Lifecycle!Next, Lifecycle!Submit, Lifecycle!NotCreated, NotCreated
<1>4. CASE cancelSubmitted(r)
  <2>1. CanTransition("SUBMITTED", "CANCELLED") /\ "CANCELLED" \in RequestState
    BY DEF CanTransition, getValidTransitions, RequestState
  <2> QED
    BY <1>1, <1>4, <2>1 DEF cancelSubmitted, NotCreated
<1>5. CASE cancelApproved(r)
  <2>1. CanTransition("APPROVED", "CANCELLING") /\ "CANCELLING" \in RequestState
    BY DEF CanTransition, getValidTransitions, RequestState
  <2> QED
    BY <1>1, <1>5, <2>1 DEF cancelApproved, NotCreated
<1>6. ASSUME NEW p \in Polls, MarkPendingHcm(p), Req(p) = r
      PROVE  Lifecycle!Next
  <2>1. CanTransition("SUBMITTED", "PENDING_HCM") /\ "PENDING_HCM" \in RequestState
    BY DEF CanTransition, getValidTransitions, RequestState
  <2> QED
    BY <1>1, <1>6, <2>1 DEF MarkPendingHcm, NotCreated
<1>7. ASSUME NEW p \in Polls, SettleRequest(p), Req(p) = r, request'[r] # request[r]
      PROVE  Lifecycle!Next
  <2>1. /\ poll[p].seen = request[r] /\ poll[p].verdict \in Verdict
        /\ poll[p].row \in Rows /\ outbox[poll[p].row].req = r
    BY <1>7, VerdictFinds DEF InOrder
  <2>2. request[r] # NotCreated
    BY <2>1 DEF InOrder, RowsInOrder
  <2>3. /\ CanTransition(request[r], poll[p].verdict)
        /\ request' = [request EXCEPT ![r] = poll[p].verdict]
    BY <1>7, <2>1 DEF SettleRequest
  <2>4. poll[p].verdict \in RequestState
    BY <2>1 DEF Verdict, RequestState
  <2> QED
    BY <1>1, <2>2, <2>3, <2>4
<1> QED
  BY <1>2, <1>3, <1>4, <1>5, <1>6, <1>7, Moves DEF InOrder

\* Up to that moment every step of a request row is one of the state machine.
THEOREM MovesKept == HistorySpec => LifecycleInOrder
<1>1. All /\ HistoryStep => [Orderly => [Lifecycle!Next]_request]_vars
  BY HistoryMoves, LifecycleStep DEF All, Lifelines, Orderly
<1> QED
  BY <1>1, AllInit, AllStep, PTL DEF HistorySpec, HistoryStep, LifecycleInOrder

\* OutboxProcessing implements RequestLifecycle: the processor checks each move
\* against a copy it read before the HCM call, and yet the row itself moves only
\* along the state machine, unless a row lapsed, or a crash tore a turn and something
\* was cancelled as well.
THEOREM LifecycleKept == HistorySpec /\ []Orderly => LifecycleSpec
<1>1. HistoryInit => Lifecycle!Init
  BY DEF HistoryInit, Init, RequestsInit, Lifecycle!Init, Lifecycle!NotCreated, NotCreated
<1>2. All /\ Orderly /\ HistoryStep => [Lifecycle!Next]_request
  BY HistoryMoves, LifecycleStep DEF All, Lifelines, Orderly
<1> QED
  BY <1>1, <1>2, AllInit, AllStep, PTL
     DEF HistorySpec, HistoryStep, LifecycleSpec, Lifecycle!Spec
=============================================================================
