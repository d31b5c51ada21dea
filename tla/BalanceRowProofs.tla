-------------------------- MODULE BalanceRowProofs --------------------------
(***************************************************************************)
(* Theorems about BalanceRow, for any requests, days, reconciliation runs, *)
(* entitlements and bounds.                                                *)
(***************************************************************************)
EXTENDS BalanceRowProperties, TLAPS

(***************************************************************************)
(* The HCM's history.                                                      *)
(***************************************************************************)
\* A move of the HCM adds a version and leaves those there are.
LEMMA HistoryGrows ==
  ASSUME history \in Seq(Figures), NEW f \in Figures, HcmMoves(f)
  PROVE  /\ history' \in Seq(Figures)
         /\ Version' = Version + 1
         /\ \A v \in 1 .. Version : history'[v] = history[v]
         /\ history'[Version + 1] = f
BY DEF HcmMoves, Version

\* Every version has figures.
LEMMA VersionFigures ==
  ASSUME history \in Seq(Figures), NEW v \in 1 .. Version
  PROVE  /\ history[v] \in Figures
         /\ history[v].total \in Nat
         /\ history[v].used \in Nat
<1>1. history[v] \in Figures
      BY DEF Version
<1> QED
    BY <1>1 DEF Figures

LEMMA PresentFigures ==
  ASSUME RowTypeOK
  PROVE  /\ Present \in Figures
         /\ Present.total \in Nat
         /\ Present.used \in Nat
<1>1. Version \in 1 .. Version /\ history \in Seq(Figures)
      BY DEF RowTypeOK
<1> QED
    BY <1>1, VersionFigures DEF Present

LEMMA MinusNat ==
  ASSUME NEW a \in Nat, NEW b \in Nat
  PROVE  Minus(a, b) \in Nat
BY DEF Minus

(***************************************************************************)
(* Types.                                                                  *)
(***************************************************************************)
LEMMA InitTypes == Init => RowTypeOK
<1> SUFFICES ASSUME Init PROVE RowTypeOK
    OBVIOUS
<1> USE RowAssumption
<1>1. PICK t \in Totals : history = << [total |-> t, used |-> 0] >>
      BY DEF Init
<1>2. /\ history \in Seq(Figures)
      /\ Len(history) = 1
      BY <1>1 DEF Figures
<1>3. /\ row \in Row
      /\ row.at = 0
      BY DEF Init, Row, NoRow
<1>4. /\ call \in [Requests -> Call]
      /\ \A r \in Requests : call[r].at = 0 /\ call[r].kind = "NONE"
      BY DEF Init, Call, NoCall, CallKind
<1>5. /\ run \in [Runs -> Run]
      /\ \A u \in Runs : ~run[u].busy
      BY DEF Init, Run, NoRun, Row, NoRow
<1>6. /\ tx \in [Requests -> {"NONE", "APPLIED", "REVERSED"}]
      /\ request \in [Requests -> RequestState \cup {NotCreated}]
      /\ reversals \subseteq Requests
      /\ mishaps \in Nat
      BY DEF Init
<1> QED
    BY <1>2, <1>3, <1>4, <1>5, <1>6 DEF RowTypeOK, Version

\* The part of the types a move of the HCM and the answer it is given with
\* disturb.
LEMMA MoveTypes ==
  ASSUME RowTypeOK, NEW f \in Figures, HcmMoves(f),
         tx' \in [Requests -> {"NONE", "APPLIED", "REVERSED"}],
         call' \in [Requests -> Call],
         \A r \in Requests : call'[r].at <= Version + 1,
         \A r \in Requests : call'[r].kind = "OK" => call'[r].at # 0,
         UNCHANGED <<row, request, reversals, run, mishaps>>
  PROVE  RowTypeOK'
<1>1. /\ history' \in Seq(Figures)
      /\ Version' = Version + 1
      /\ Version \in Nat \ {0}
      BY HistoryGrows DEF RowTypeOK
<1>2. /\ row'.at <= Version'
      /\ \A u \in Runs : run'[u].busy => run'[u].since \in 1 .. Version'
      BY <1>1 DEF RowTypeOK, Row
<1> QED
    BY <1>1, <1>2 DEF RowTypeOK

LEMMA HrChangeTypes == RowTypeOK /\ HrChange => RowTypeOK'
<1> SUFFICES ASSUME RowTypeOK, HrChange PROVE RowTypeOK'
    OBVIOUS
<1>1. Present \in Figures /\ Version \in Nat \ {0}
      BY PresentFigures DEF RowTypeOK
<1>2. PICK f \in Figures : HcmMoves(f)
  <2>1. CASE \E t \in Totals \ {Present.total} : HcmMoves([Present EXCEPT !.total = t])
        BY <1>1, <2>1, RowAssumption DEF Figures
  <2>2. CASE HcmMoves([Present EXCEPT !.used = @ + 1])
    <3>1. [Present EXCEPT !.used = @ + 1] \in Figures
          BY <1>1 DEF Figures
    <3> QED BY <2>2, <3>1
  <2> QED BY <2>1, <2>2 DEF HrChange
<1>3. /\ UNCHANGED <<tx, row, request, call, reversals, run, mishaps>>
      /\ \A r \in Requests : call[r].at <= Version + 1
      BY <1>1 DEF HrChange, RowTypeOK, Call
<1> QED
    BY <1>2, <1>3, MoveTypes DEF RowTypeOK

\* An answer is a call's.
LEMMA AnsweredTypes ==
  ASSUME RowTypeOK, NEW r \in Requests, NEW kind \in CallKind, NEW at \in Nat,
         kind = "OK" => at # 0, Answered(r, kind, at)
  PROVE  /\ call' \in [Requests -> Call]
         /\ \A q \in Requests : q # r => call'[q] = call[q]
         /\ call'[r].kind = kind
         /\ call'[r].at = at
         /\ \A q \in Requests : call'[q].kind = "OK" => call'[q].at # 0
<1>1. /\ call \in [Requests -> Call]
      /\ \A q \in Requests : call[q].kind = "OK" => call[q].at # 0
      BY DEF RowTypeOK
<1>2. call' = [call EXCEPT ![r] = [@ EXCEPT !.kind = kind, !.at = at]]
      BY DEF Answered
<1>3. [call[r] EXCEPT !.kind = kind, !.at = at] \in Call
      BY <1>1 DEF Call
<1>4. /\ call'[r] = [call[r] EXCEPT !.kind = kind, !.at = at]
      /\ \A q \in Requests : q # r => call'[q] = call[q]
      /\ call' \in [Requests -> Call]
      BY <1>1, <1>2, <1>3
<1>5. call'[r].kind = kind /\ call'[r].at = at
      BY <1>1, <1>4 DEF Call
<1> QED
    BY <1>1, <1>4, <1>5

LEMMA HcmDeductTypes ==
  ASSUME RowTypeOK, NEW r \in Requests, HcmDeduct(r)
  PROVE  RowTypeOK'
<1>1. /\ Present \in Figures
      /\ Version \in Nat \ {0}
      /\ daysRequested[r] \in Nat
      BY PresentFigures, RowAssumption DEF RowTypeOK
<1>2. CASE tx[r] # "NONE" /\ Answered(r, "DUPLICATE", 0) /\ UNCHANGED <<history, tx>>
  <2>1. \A q \in Requests : call'[q].at <= Version
        BY <1>1, <1>2, AnsweredTypes DEF RowTypeOK, CallKind
  <2> QED
      BY <1>1, <1>2, <2>1, AnsweredTypes DEF RowTypeOK, CallKind, Answered, Version
<1>3. CASE Answered(r, "REFUSED", 0) /\ UNCHANGED <<history, tx>>
  <2>1. \A q \in Requests : call'[q].at <= Version
        BY <1>1, <1>3, AnsweredTypes DEF RowTypeOK, CallKind
  <2> QED
      BY <1>1, <1>3, <2>1, AnsweredTypes DEF RowTypeOK, CallKind, Answered, Version
<1>4. CASE /\ HcmMoves([Present EXCEPT !.used = @ + daysRequested[r]])
           /\ tx' = [tx EXCEPT ![r] = "APPLIED"]
           /\ Answered(r, "OK", Version + 1)
  <2>1. [Present EXCEPT !.used = @ + daysRequested[r]] \in Figures
        BY <1>1 DEF Figures
  <2>2. /\ call' \in [Requests -> Call]
        /\ \A q \in Requests : q # r => call'[q] = call[q]
        /\ call'[r].at = Version + 1
        /\ \A q \in Requests : call'[q].kind = "OK" => call'[q].at # 0
        BY <1>1, <1>4, AnsweredTypes DEF CallKind
  <2>3. \A q \in Requests : call'[q].at <= Version + 1
    <3>1. \A q \in Requests : call[q].at \in Nat /\ call[q].at <= Version
          BY DEF RowTypeOK, Call
    <3>2. \A q \in Requests : q # r => call'[q].at = call[q].at
          BY <2>2
    <3> QED
        BY <1>1, <2>2, <3>1, <3>2
  <2> QED
      BY <1>4, <2>1, <2>2, <2>3, MoveTypes DEF RowTypeOK, Answered
<1> QED
    BY <1>2, <1>3, <1>4 DEF HcmDeduct

LEMMA HcmReverseTypes ==
  ASSUME RowTypeOK, NEW r \in Requests, HcmReverse(r)
  PROVE  RowTypeOK'
<1>1. /\ Present \in Figures
      /\ Version \in Nat \ {0}
      /\ daysRequested[r] \in Nat
      BY PresentFigures, RowAssumption DEF RowTypeOK
<1>2. CASE Answered(r, "DUPLICATE", 0) /\ UNCHANGED <<history, tx>>
  <2>1. \A q \in Requests : call'[q].at <= Version
        BY <1>1, <1>2, AnsweredTypes DEF RowTypeOK, CallKind
  <2> QED
      BY <1>1, <1>2, <2>1, AnsweredTypes DEF RowTypeOK, CallKind, Answered, Version
<1>3. CASE Answered(r, "REFUSED", 0) /\ UNCHANGED <<history, tx>>
  <2>1. \A q \in Requests : call'[q].at <= Version
        BY <1>1, <1>3, AnsweredTypes DEF RowTypeOK, CallKind
  <2> QED
      BY <1>1, <1>3, <2>1, AnsweredTypes DEF RowTypeOK, CallKind, Answered, Version
<1>4. CASE /\ HcmMoves([Present EXCEPT !.used = Minus(@, daysRequested[r])])
           /\ tx' = [tx EXCEPT ![r] = "REVERSED"]
           /\ Answered(r, "OK", Version + 1)
  <2>1. [Present EXCEPT !.used = Minus(@, daysRequested[r])] \in Figures
        BY <1>1, MinusNat DEF Figures
  <2>2. /\ call' \in [Requests -> Call]
        /\ \A q \in Requests : q # r => call'[q] = call[q]
        /\ call'[r].at = Version + 1
        /\ \A q \in Requests : call'[q].kind = "OK" => call'[q].at # 0
        BY <1>1, <1>4, AnsweredTypes DEF CallKind
  <2>3. \A q \in Requests : call'[q].at <= Version + 1
    <3>1. \A q \in Requests : call[q].at \in Nat /\ call[q].at <= Version
          BY DEF RowTypeOK, Call
    <3>2. \A q \in Requests : q # r => call'[q].at = call[q].at
          BY <2>2
    <3> QED
        BY <1>1, <2>2, <3>1, <3>2
  <2> QED
      BY <1>4, <2>1, <2>2, <2>3, MoveTypes DEF RowTypeOK, Answered
<1> QED
    BY <1>2, <1>3, <1>4 DEF HcmReverse

\* A step of the service leaves the HCM alone; what it writes must have its type.
LEMMA ServiceTypes ==
  ASSUME RowTypeOK, UNCHANGED <<history, tx>>,
         row' \in Row, row'.at <= Version,
         request' \in [Requests -> RequestState \cup {NotCreated}],
         call' \in [Requests -> Call],
         \A r \in Requests : call'[r].at <= Version,
         \A r \in Requests : call'[r].kind = "OK" => call'[r].at # 0,
         reversals' \subseteq Requests,
         run' \in [Runs -> Run],
         \A u \in Runs : run'[u].busy => run'[u].since \in 1 .. Version,
         mishaps' \in Nat
  PROVE  RowTypeOK'
BY DEF RowTypeOK, Version

LEMMA MishapNat ==
  ASSUME mishaps \in Nat, NEW happens, Mishap(happens)
  PROVE  mishaps' \in Nat
BY DEF Mishap

LEMMA RowFields ==
  ASSUME RowTypeOK
  PROVE  /\ row \in Row
         /\ row.total \in Nat /\ row.used \in Nat /\ row.pending \in Nat
         /\ row.at \in Nat /\ row.at <= Version
BY DEF RowTypeOK, Row

LEMMA ApplyFetchTypes ==
  ASSUME RowTypeOK, NEW v \in 1 .. Version, ApplyFetch(v)
  PROVE  RowTypeOK'
<1>1. history[v].total \in Nat /\ history[v].used \in Nat /\ v \in Nat /\ v <= Version
      BY VersionFigures DEF RowTypeOK
<1>2. row' \in Row /\ row'.at <= Version
      BY <1>1 DEF RowTypeOK, Row, ApplyFetch
<1>3. mishaps' \in Nat
      BY MishapNat DEF RowTypeOK, ApplyFetch
<1> QED
    BY <1>2, <1>3, ServiceTypes DEF RowTypeOK, ApplyFetch

LEMMA InStateRequests ==
  ASSUME NEW S
  PROVE  InState(S) \subseteq Requests
BY DEF InState

LEMMA DaysOfNat ==
  ASSUME NEW S \in SUBSET Requests
  PROVE  daysOf[S] \in Nat
BY DaysAssumption

LEMMA ApplyRecordTypes ==
  ASSUME RowTypeOK, NEW v \in 1 .. Version, ApplyRecord(v)
  PROVE  RowTypeOK'
<1>1. history[v].total \in Nat /\ history[v].used \in Nat /\ v \in Nat /\ v <= Version
      BY VersionFigures DEF RowTypeOK
<1>2. daysOf[PendingInBatch] \in Nat
      BY InStateRequests, DaysOfNat DEF PendingInBatch
<1>3. row' \in Row /\ row'.at <= Version
      BY <1>1, <1>2 DEF Row, ApplyRecord
<1> QED
    BY <1>3, ServiceTypes DEF RowTypeOK, ApplyRecord

LEMMA createRequestTypes ==
  ASSUME RowTypeOK, NEW r \in Requests, createRequest(r)
  PROVE  RowTypeOK'
<1>1. row.pending + daysRequested[r] \in Nat
      BY RowFields, RowAssumption
<1>2. row' \in Row /\ row'.at <= Version
      BY <1>1, RowFields DEF createRequest, Row
<1> QED
    BY <1>2, ServiceTypes DEF RowTypeOK, createRequest, RequestState

LEMMA cancelApprovedTypes ==
  ASSUME RowTypeOK, NEW r \in Requests, cancelApproved(r)
  PROVE  RowTypeOK'
BY ServiceTypes DEF RowTypeOK, cancelApproved, RequestState

LEMMA SendTypes ==
  ASSUME RowTypeOK, NEW r \in Requests, Send(r)
  PROVE  RowTypeOK'
<1>1. call[r] \in Call
      BY DEF RowTypeOK
<1>2. [call[r] EXCEPT !.kind = "SENT", !.attempts = @ + 1] \in Call
  <2>1. call[r].attempts + 1 \in Nat
        BY <1>1 DEF Call
  <2> QED BY <1>1, <2>1 DEF Call, CallKind
<1>3. call' = [call EXCEPT ![r] = [call[r] EXCEPT !.kind = "SENT", !.attempts = @ + 1]]
      BY <1>1 DEF RowTypeOK, Send, Call
<1>4. /\ call' \in [Requests -> Call]
      /\ \A q \in Requests : call'[q].at = call[q].at
      /\ \A q \in Requests : call'[q].kind = "OK" => call[q].kind = "OK"
      BY <1>1, <1>2, <1>3 DEF RowTypeOK, Call
<1>5. request' \in [Requests -> RequestState \cup {NotCreated}]
      BY DEF RowTypeOK, Send, RequestState
<1> QED
    BY <1>4, <1>5, ServiceTypes DEF RowTypeOK, Send

\* What every settlement writes besides the row.
LEMMA SettleTypes ==
  ASSUME RowTypeOK, NEW r \in Requests, NEW state \in RequestState, Settle(r, state),
         row' \in Row, row'.at <= Version, mishaps' \in Nat
  PROVE  RowTypeOK'
<1>1. /\ call' \in [Requests -> Call]
      /\ \A q \in Requests : q # r => call'[q] = call[q]
      /\ call'[r].at = 0 /\ call'[r].kind = "NONE"
      BY DEF RowTypeOK, Settle, Call, NoCall, CallKind
<1>2. request' \in [Requests -> RequestState \cup {NotCreated}]
      BY DEF RowTypeOK, Settle
<1>3. /\ \A q \in Requests : call'[q].at <= Version
      /\ \A q \in Requests : call'[q].kind = "OK" => call'[q].at # 0
      BY <1>1 DEF RowTypeOK
<1> QED
    BY <1>1, <1>2, <1>3, ServiceTypes DEF RowTypeOK, Settle

\* The figures of an answered call.
LEMMA AnswerFigures ==
  ASSUME RowTypeOK, NEW r \in Requests, call[r].kind = "OK"
  PROVE  /\ call[r].at \in 1 .. Version
         /\ history[call[r].at].used \in Nat
<1>1. call[r].at \in 1 .. Version
      BY DEF RowTypeOK, Call
<1> QED
    BY <1>1, VersionFigures DEF RowTypeOK

LEMMA ApproveTypes ==
  ASSUME RowTypeOK, NEW r \in Requests, Approve(r)
  PROVE  RowTypeOK'
<1>1. daysRequested[r] \in Nat /\ Minus(row.pending, daysRequested[r]) \in Nat
      BY RowAssumption, MinusNat DEF RowTypeOK, Row
<1>2. row' \in Row /\ row'.at <= Version
  <2>1. CASE call[r].kind = "OK"
    <3>1. /\ call[r].at \in Nat /\ call[r].at <= Version
          /\ history[call[r].at].used \in Nat
          BY <2>1, AnswerFigures
    <3>2. row' = [row EXCEPT !.used = history[call[r].at].used, !.at = call[r].at,
                             !.pending = Minus(@, daysRequested[r])]
          BY <2>1 DEF Approve
    <3> QED BY <1>1, <3>1, <3>2, RowFields DEF Row
  <2>2. CASE call[r].kind = "DUPLICATE"
    <3>1. row.used + daysRequested[r] \in Nat
          BY <1>1, RowFields
    <3>2. row' = [row EXCEPT !.used = @ + daysRequested[r],
                             !.pending = Minus(@, daysRequested[r])]
          BY <2>2 DEF Approve
    <3> QED BY <1>1, <3>1, <3>2, RowFields DEF Row
  <2> QED BY <2>1, <2>2 DEF Approve
<1>3. mishaps' \in Nat
      BY MishapNat DEF Approve, RowTypeOK
<1> QED
    BY <1>2, <1>3, SettleTypes DEF Approve, RequestState

LEMMA RejectTypes ==
  ASSUME RowTypeOK, NEW r \in Requests, Reject(r)
  PROVE  RowTypeOK'
<1>1. daysRequested[r] \in Nat /\ Minus(row.pending, daysRequested[r]) \in Nat
      BY RowAssumption, MinusNat DEF RowTypeOK, Row
<1>2. row' \in Row /\ row'.at <= Version /\ mishaps' \in Nat
      BY <1>1 DEF Reject, RowTypeOK, Row
<1> QED
    BY <1>2, SettleTypes DEF Reject, RequestState

LEMMA ConfirmReversalTypes ==
  ASSUME RowTypeOK, NEW r \in Requests, ConfirmReversal(r)
  PROVE  RowTypeOK'
<1>1. daysRequested[r] \in Nat /\ Minus(row.used, daysRequested[r]) \in Nat
      BY RowAssumption, MinusNat DEF RowTypeOK, Row
<1>2. row' \in Row /\ row'.at <= Version
  <2>1. CASE call[r].kind = "OK"
    <3>1. /\ call[r].at \in Nat /\ call[r].at <= Version
          /\ history[call[r].at].used \in Nat
          BY <2>1, AnswerFigures
    <3>2. row' = [row EXCEPT !.used = history[call[r].at].used, !.at = call[r].at]
          BY <2>1 DEF ConfirmReversal
    <3> QED BY <1>1, <3>1, <3>2, RowFields DEF Row
  <2>2. CASE call[r].kind = "DUPLICATE"
    <3>1. row' = [row EXCEPT !.used = Minus(@, daysRequested[r])]
          BY <2>2 DEF ConfirmReversal
    <3> QED BY <1>1, <3>1, RowFields DEF Row
  <2> QED BY <2>1, <2>2 DEF ConfirmReversal
<1>3. mishaps' \in Nat
      BY MishapNat DEF ConfirmReversal, RowTypeOK
<1> QED
    BY <1>2, <1>3, SettleTypes DEF ConfirmReversal, RequestState

LEMMA MarkFailedTypes ==
  ASSUME RowTypeOK, NEW r \in Requests, MarkFailed(r)
  PROVE  RowTypeOK'
<1>1. daysRequested[r] \in Nat /\ Minus(row.pending, daysRequested[r]) \in Nat
      BY RowAssumption, MinusNat DEF RowTypeOK, Row
<1>2. row' \in Row /\ row'.at <= Version
      BY <1>1 DEF MarkFailed, RowTypeOK, Row
<1>3. mishaps' \in Nat
      BY MishapNat DEF MarkFailed, RowTypeOK
<1> QED
    BY <1>2, <1>3, SettleTypes DEF MarkFailed, RequestState

LEMMA ScheduleRetryTypes ==
  ASSUME RowTypeOK, NEW r \in Requests, ScheduleRetry(r)
  PROVE  RowTypeOK'
<1>1. call[r] \in Call
      BY DEF RowTypeOK
<1>2. [call[r] EXCEPT !.kind = "NONE", !.at = 0] \in Call
      BY <1>1 DEF Call, CallKind
<1>3. call' = [call EXCEPT ![r] = [call[r] EXCEPT !.kind = "NONE", !.at = 0]]
      BY <1>1 DEF RowTypeOK, ScheduleRetry, Call
<1>4. /\ call' \in [Requests -> Call]
      /\ \A q \in Requests : q # r => call'[q] = call[q]
      /\ call'[r].at = 0 /\ call'[r].kind = "NONE"
      BY <1>1, <1>2, <1>3 DEF RowTypeOK, Call
<1>5. /\ \A q \in Requests : call'[q].at <= Version
      /\ \A q \in Requests : call'[q].kind = "OK" => call'[q].at # 0
      BY <1>4 DEF RowTypeOK
<1> QED
    BY <1>4, <1>5, ServiceTypes DEF RowTypeOK, ScheduleRetry

LEMMA StartRunTypes ==
  ASSUME RowTypeOK, NEW u \in Runs, StartRun(u)
  PROVE  RowTypeOK'
<1>1. [busy |-> TRUE, snapshot |-> row, since |-> Version] \in Run
      BY DEF RowTypeOK, Run
<1>2. run' \in [Runs -> Run]
      BY <1>1 DEF RowTypeOK, StartRun
<1>3. \A w \in Runs : run'[w].busy => run'[w].since \in 1 .. Version
      BY DEF RowTypeOK, StartRun
<1> QED
    BY <1>2, <1>3, ServiceTypes DEF RowTypeOK, StartRun

LEMMA DecideTypes ==
  ASSUME RowTypeOK, NEW u \in Runs, NEW v \in run[u].since .. Version,
         NEW old \in BOOLEAN, Decide(u, v, old)
  PROVE  RowTypeOK'
<1>1. v \in 1 .. Version /\ history[v].total \in Nat
  <2>1. v \in 1 .. Version
        BY DEF RowTypeOK, Decide
  <2> QED BY <2>1, VersionFigures DEF RowTypeOK
<1>2. row' \in Row /\ row'.at <= Version /\ mishaps' \in Nat
  <2>1. CASE row' = Corrected(v) /\ Mishap(Overtaken(v))
    <3>1. v \in Nat /\ v <= Version
          BY <1>1
    <3>2. mishaps' \in Nat
          BY <2>1, MishapNat DEF RowTypeOK
    <3>3. row' = [row EXCEPT !.total = history[v].total, !.at = v]
          BY <2>1 DEF Corrected
    <3> QED BY <1>1, <3>1, <3>2, <3>3, RowFields DEF Row
  <2>2. CASE UNCHANGED <<row, mishaps>>
        BY <2>2 DEF RowTypeOK
  <2> QED BY <2>1, <2>2 DEF Decide
<1>3. /\ run' \in [Runs -> Run]
      /\ \A w \in Runs : run'[w].busy => run'[w].since \in 1 .. Version
      BY DEF RowTypeOK, Decide, Run, NoRun, Row, NoRow
<1> QED
    BY <1>2, <1>3, ServiceTypes DEF RowTypeOK, Decide

LEMMA CrashTypes == RowTypeOK /\ Crash => RowTypeOK'
<1> SUFFICES ASSUME RowTypeOK, Crash PROVE RowTypeOK'
    OBVIOUS
<1>1. \A r \in Requests : [call[r] EXCEPT !.kind = "NONE", !.at = 0] \in Call
      BY DEF RowTypeOK, Call, CallKind
<1>2. /\ call' \in [Requests -> Call]
      /\ \A r \in Requests : call'[r].at = 0 /\ call'[r].kind = "NONE"
      BY <1>1 DEF RowTypeOK, Crash, Call
<1>3. /\ run' \in [Runs -> Run]
      /\ \A u \in Runs : ~run'[u].busy
      BY DEF Crash, Run, NoRun, Row, NoRow
<1>4. \A r \in Requests : call'[r].at <= Version
      BY <1>2 DEF RowTypeOK
<1> QED
    BY <1>2, <1>3, <1>4, ServiceTypes DEF RowTypeOK, Crash

LEMMA StepTypes == RowTypeOK /\ [Next]_vars => RowTypeOK'
<1> SUFFICES ASSUME RowTypeOK, [Next]_vars PROVE RowTypeOK'
    OBVIOUS
<1>1. CASE HrChange
      BY <1>1, HrChangeTypes
<1>2. CASE \E r \in Requests :
             \/ HcmDeduct(r) \/ HcmReverse(r)
             \/ createRequest(r) \/ cancelApproved(r)
             \/ Send(r) \/ Approve(r) \/ Reject(r) \/ ConfirmReversal(r)
             \/ ScheduleRetry(r) \/ MarkFailed(r)
      BY <1>2, HcmDeductTypes, HcmReverseTypes, createRequestTypes, cancelApprovedTypes,
         SendTypes, ApproveTypes, RejectTypes, ConfirmReversalTypes, ScheduleRetryTypes,
         MarkFailedTypes
<1>3. CASE \E v \in 1 .. Version : ApplyFetch(v) \/ ApplyRecord(v)
      BY <1>3, ApplyFetchTypes, ApplyRecordTypes
<1>4. CASE \E u \in Runs :
             \/ StartRun(u)
             \/ \E v \in run[u].since .. Version, old \in BOOLEAN : Decide(u, v, old)
      BY <1>4, StartRunTypes, DecideTypes
<1>5. CASE Crash
      BY <1>5, CrashTypes
<1>6. CASE UNCHANGED vars
      BY <1>6 DEF vars, RowTypeOK, Version
<1> QED
    BY <1>1, <1>2, <1>3, <1>4, <1>5, <1>6 DEF Next

\* Every variable of the row, its writers and the HCM keeps its type: among
\* others, no subtraction of days leaves the naturals (Math.max in
\* outbox.processor.ts) and no row or call carries a version that never was.
THEOREM RowTypeCorrect == Spec => []RowTypeOK
BY InitTypes, StepTypes, PTL DEF Spec

(***************************************************************************)
(* The inductive invariant.                                                *)
(***************************************************************************)
Approved == InState({"APPROVED"})
InFlight == InState({"SUBMITTED", "PENDING_HCM"})
Applied == {r \in Requests : tx[r] = "APPLIED"}

\* The deductions whose answer, of version v or earlier, is still to be written.
Answers(v) == {r \in Requests \ reversals : call[r].kind = "OK" /\ call[r].at <= v}

\* The outbox row of r has been tried and is not done.
Outstanding(r) == call[r].kind # "NONE" \/ call[r].attempts # 0

\* Where a request is tells which of its outbox rows there have been and what
\* the HCM knows of it.
Flow ==
  /\ row.at = 0 => \A r \in Requests : request[r] = NotCreated
  /\ \A r \in Requests : request[r] \in {"CANCELLING", "CANCELLED"} => r \in reversals
  /\ \A r \in reversals : request[r] \in {"CANCELLING", "CANCELLED", "FAILED"}
  /\ \A r \in Requests : tx[r] = "REVERSED" => r \in reversals
  /\ \A r \in Requests \ reversals :
       \/ call[r].kind \in {"OK", "DUPLICATE"}
       \/ request[r] = "APPROVED"
       => tx[r] # "NONE"
  /\ \A r \in Requests : Outstanding(r) =>
       request[r] = IF r \in reversals THEN "CANCELLING" ELSE "PENDING_HCM"

\* The HCM's present figure has every day that is booked.
Booked == Present.used >= daysOf[Applied]

\* So has every version that may still be written, of what is or may be
\* approved by then.
Dated ==
  mishaps = 0 =>
    \A v \in 1 .. Version :
      row.at <= v => history[v].used >= daysOf[Approved \cup Answers(v)]

LEMMA InitFlow == Init => Flow
BY DEF Init, Flow, Outstanding, NoCall, NotCreated

\* A settlement comes from where the outbox row says.
LEMMA SettledFrom ==
  ASSUME RowTypeOK, Flow, NEW r \in Requests, NEW state, Settle(r, state), Outstanding(r)
  PROVE  /\ r \notin reversals => request[r] = "PENDING_HCM"
         /\ r \in reversals => request[r] = "CANCELLING"
         /\ request' = [request EXCEPT ![r] = state]
         /\ call' = [call EXCEPT ![r] = NoCall]
         /\ UNCHANGED <<history, tx, reversals, run>>
BY DEF Flow, Settle

\* Which settlements there are, and that they are of an outstanding row.
LEMMA Settlements ==
  ASSUME RowTypeOK, NEW r \in Requests,
         Approve(r) \/ Reject(r) \/ ConfirmReversal(r) \/ MarkFailed(r)
  PROVE  /\ Outstanding(r)
         /\ \/ Settle(r, "APPROVED") /\ r \notin reversals /\ call[r].kind \in {"OK", "DUPLICATE"}
            \/ Settle(r, "REJECTED") /\ r \notin reversals
            \/ Settle(r, "CANCELLED") /\ r \in reversals
            \/ Settle(r, "FAILED")
         /\ row'.at # 0 \/ row.at = row'.at
<1>1. call[r].attempts \in Nat /\ MaxCalls # 0 /\ MaxCalls \in Nat
      BY RowAssumption DEF RowTypeOK, Call
<1>2. row \in Row /\ (call[r].kind = "OK" => call[r].at # 0)
      BY DEF RowTypeOK
<1>3. CASE Approve(r)
      BY <1>2, <1>3 DEF Approve, Outstanding, Row
<1>4. CASE Reject(r)
      BY <1>2, <1>4 DEF Reject, Outstanding, Row
<1>5. CASE ConfirmReversal(r)
      BY <1>2, <1>5 DEF ConfirmReversal, Outstanding, Row
<1>6. CASE MarkFailed(r)
      BY <1>1, <1>2, <1>6 DEF MarkFailed, Outstanding, Row
<1> QED
    BY <1>3, <1>4, <1>5, <1>6

LEMMA SettleFlow ==
  ASSUME RowTypeOK, Flow, NEW r \in Requests,
         Approve(r) \/ Reject(r) \/ ConfirmReversal(r) \/ MarkFailed(r)
  PROVE  Flow'
<1>1. Outstanding(r)
      BY Settlements
<1>2. PICK state \in {"APPROVED", "REJECTED", "CANCELLED", "FAILED"} :
        /\ Settle(r, state)
        /\ state = "APPROVED" => r \notin reversals /\ call[r].kind \in {"OK", "DUPLICATE"}
        /\ state = "REJECTED" => r \notin reversals
        /\ state = "CANCELLED" => r \in reversals
      BY Settlements
<1>3. /\ r \notin reversals => request[r] = "PENDING_HCM"
      /\ r \in reversals => request[r] = "CANCELLING"
      /\ request' = [request EXCEPT ![r] = state]
      /\ call' = [call EXCEPT ![r] = NoCall]
      /\ UNCHANGED <<history, tx, reversals, run>>
      BY <1>1, <1>2, SettledFrom
<1>4. /\ request'[r] = state
      /\ \A q \in Requests : q # r => request'[q] = request[q]
      /\ call'[r] = NoCall
      /\ \A q \in Requests : q # r => call'[q] = call[q]
      BY <1>3 DEF RowTypeOK
<1>5. row'.at # 0
      BY <1>3, Settlements DEF Flow, NotCreated
<1>6. \A q \in Requests : q # r => (Outstanding(q)' <=> Outstanding(q))
      BY <1>4 DEF Outstanding
<1>7. ~Outstanding(r)'
      BY <1>4 DEF Outstanding, NoCall
<1>8. \A q \in reversals : q \in Requests
      BY DEF RowTypeOK
<1>9. state = "APPROVED" => tx[r] # "NONE"
      BY <1>2 DEF Flow
<1> QED
    BY <1>2, <1>3, <1>4, <1>5, <1>6, <1>7, <1>8, <1>9 DEF Flow, NoCall

\* The steps of one request that settle nothing.
LEMMA RequestFlow ==
  ASSUME RowTypeOK, Flow, NEW r \in Requests,
         \/ HcmDeduct(r) \/ HcmReverse(r)
         \/ createRequest(r) \/ cancelApproved(r)
         \/ Send(r) \/ ScheduleRetry(r)
  PROVE  Flow'
<1>0. /\ \A q \in Requests : call[q] \in Call
      /\ call[r].attempts \in Nat
      /\ \A q \in reversals : q \in Requests
      BY DEF RowTypeOK, Call
<1>1. CASE HcmDeduct(r) \/ HcmReverse(r)
  <2>1. /\ UNCHANGED <<row, request, reversals>>
        /\ call[r].kind = "SENT"
        /\ \A q \in Requests : q # r => call'[q] = call[q]
        /\ \A q \in Requests : q # r => tx'[q] = tx[q]
        /\ call'[r].kind \in {"OK", "DUPLICATE"} /\ r \notin reversals => tx'[r] # "NONE"
        /\ tx'[r] = "REVERSED" => r \in reversals
        /\ tx[r] # "NONE" => tx'[r] # "NONE"
    <3>1. CASE HcmDeduct(r)
          BY <1>0, <3>1 DEF HcmDeduct, Answered, RowTypeOK, Call, Flow
    <3>2. CASE HcmReverse(r)
          BY <1>0, <3>2 DEF HcmReverse, Answered, RowTypeOK, Call, Flow
    <3> QED BY <1>1, <3>1, <3>2
  <2>2. Outstanding(r)
        BY <2>1 DEF Outstanding
  <2>3. \A q \in Requests : Outstanding(q)' => Outstanding(q)
        BY <2>1, <2>2 DEF Outstanding
  <2> QED
      BY <1>0, <2>1, <2>3 DEF Flow
<1>2. CASE createRequest(r)
  <2>1. /\ row.at # 0 /\ row'.at = row.at
        /\ request'[r] = "SUBMITTED" /\ request[r] = NotCreated
        /\ \A q \in Requests : q # r => request'[q] = request[q]
        /\ UNCHANGED <<tx, call, reversals>>
        BY <1>2 DEF createRequest, RowTypeOK, Row
  <2>2. ~Outstanding(r)
        BY <2>1 DEF Flow, NotCreated
  <2> QED
      BY <1>0, <2>1, <2>2 DEF Flow, Outstanding, NotCreated
<1>3. CASE cancelApproved(r)
  <2>1. /\ request[r] = "APPROVED" /\ request'[r] = "CANCELLING"
        /\ \A q \in Requests : q # r => request'[q] = request[q]
        /\ reversals' = reversals \cup {r}
        /\ UNCHANGED <<tx, call, row>>
        BY <1>3 DEF cancelApproved, RowTypeOK
  <2>2. ~Outstanding(r)
        BY <2>1 DEF Flow
  <2>3. \A q \in Requests : q # r => (q \in reversals' <=> q \in reversals)
        BY <2>1
  <2> QED
      BY <1>0, <2>1, <2>2, <2>3 DEF Flow, Outstanding, NotCreated
<1>4. CASE Send(r)
  <2>1. /\ request[r] \in {"SUBMITTED", "PENDING_HCM", "CANCELLING"}
        /\ request'[r] = IF request[r] = "SUBMITTED" THEN "PENDING_HCM" ELSE request[r]
        /\ \A q \in Requests : q # r => request'[q] = request[q]
        /\ call'[r].kind = "SENT"
        /\ \A q \in Requests : q # r => call'[q] = call[q]
        /\ UNCHANGED <<tx, row, reversals>>
        BY <1>0, <1>4 DEF Send, RowTypeOK, Call
  <2>2. /\ request[r] = "CANCELLING" <=> r \in reversals
        /\ request'[r] = IF r \in reversals THEN "CANCELLING" ELSE "PENDING_HCM"
        BY <2>1 DEF Flow
  <2> QED
      BY <1>0, <2>1, <2>2 DEF Flow, Outstanding, NotCreated
<1>5. CASE ScheduleRetry(r)
  <2>1. /\ call[r].kind # "NONE" /\ call'[r].kind = "NONE"
        /\ \A q \in Requests : q # r => call'[q] = call[q]
        /\ UNCHANGED <<tx, row, request, reversals>>
        BY <1>0, <1>5 DEF ScheduleRetry, RowTypeOK, Call
  <2>2. \A q \in Requests : Outstanding(q)' => Outstanding(q)
        BY <2>1 DEF Outstanding
  <2> QED
      BY <1>0, <2>1, <2>2 DEF Flow
<1> QED
    BY <1>1, <1>2, <1>3, <1>4, <1>5

\* A fetch and a record write the figures and the date of their version.
LEMMA SyncWrites ==
  ASSUME RowTypeOK, NEW v \in 1 .. Version, ApplyFetch(v) \/ ApplyRecord(v)
  PROVE  /\ v # 0
         /\ row'.at = v
         /\ row'.total = history[v].total
         /\ row'.used = history[v].used
<1>1. CASE ApplyFetch(v)
  <2>1. row' = [row EXCEPT !.total = history[v].total, !.used = history[v].used, !.at = v]
        BY <1>1 DEF ApplyFetch
  <2>2. row \in [total : Nat, used : Nat, pending : Nat, at : Nat]
        BY DEF RowTypeOK, Row
  <2> QED BY <2>1, <2>2
<1>2. CASE ApplyRecord(v)
      BY <1>2 DEF ApplyRecord
<1> QED
    BY <1>1, <1>2

\* Writing the row of a balance that there is, or creating it.
LEMMA RowFlow ==
  ASSUME Flow, row'.at # 0 \/ row'.at = row.at, UNCHANGED <<tx, request, call, reversals>>
  PROVE  Flow'
BY DEF Flow, Outstanding

LEMMA StepFlow == RowTypeOK /\ Flow /\ [Next]_vars => Flow'
<1> SUFFICES ASSUME RowTypeOK, Flow, [Next]_vars PROVE Flow'
    OBVIOUS
<1>1. CASE HrChange
      BY <1>1, RowFlow DEF HrChange
<1>2. CASE \E r \in Requests :
             \/ HcmDeduct(r) \/ HcmReverse(r)
             \/ createRequest(r) \/ cancelApproved(r)
             \/ Send(r) \/ Approve(r) \/ Reject(r) \/ ConfirmReversal(r)
             \/ ScheduleRetry(r) \/ MarkFailed(r)
      BY <1>2, RequestFlow, SettleFlow
<1>3. CASE \E v \in 1 .. Version : ApplyFetch(v) \/ ApplyRecord(v)
  <2>1. PICK v \in 1 .. Version : ApplyFetch(v) \/ ApplyRecord(v)
        BY <1>3
  <2>2. v # 0 /\ row'.at = v
        BY <2>1, SyncWrites
  <2> QED BY <2>1, <2>2, RowFlow DEF ApplyFetch, ApplyRecord
<1>4. CASE \E u \in Runs :
             \/ StartRun(u)
             \/ \E v \in run[u].since .. Version, old \in BOOLEAN : Decide(u, v, old)
  <2>1. CASE \E u \in Runs : StartRun(u)
        BY <2>1, RowFlow DEF StartRun
  <2>2. ASSUME NEW u \in Runs, NEW v \in run[u].since .. Version, NEW old \in BOOLEAN,
               Decide(u, v, old)
        PROVE  Flow'
    <3>1. v # 0
          BY <2>2 DEF RowTypeOK, Decide
    <3>2. row'.at = v \/ UNCHANGED row
          BY <2>2 DEF Decide, Corrected, RowTypeOK, Row
    <3> QED BY <2>2, <3>1, <3>2, RowFlow DEF Decide
  <2> QED BY <1>4, <2>1, <2>2
<1>5. CASE Crash
  <2>1. /\ UNCHANGED <<tx, row, request, reversals>>
        /\ \A r \in Requests : call'[r].kind = "NONE" /\ call'[r].attempts = call[r].attempts
        BY <1>5 DEF Crash, RowTypeOK, Call
  <2>2. \A r \in Requests : Outstanding(r)' => Outstanding(r)
        BY <2>1 DEF Outstanding
  <2> QED BY <2>1, <2>2 DEF Flow
<1>6. CASE UNCHANGED vars
      BY <1>6, RowFlow DEF vars
<1> QED
    BY <1>1, <1>2, <1>3, <1>4, <1>5, <1>6 DEF Next

(***************************************************************************)
(* The total's date.                                                       *)
(***************************************************************************)
\* The figures and their date are not written, and nothing is settled away.
LEMMA DateKept ==
  ASSUME RowTypeOK, TotalMatchesDate, NothingSettled' => NothingSettled,
         \A v \in 1 .. Version : history'[v] = history[v],
         row'.total = row.total, row'.at = row.at
  PROVE  TotalMatchesDate'
<1>1. row.at # 0 => row.at \in 1 .. Version
      BY RowFields DEF RowTypeOK
<1> QED
    BY <1>1 DEF TotalMatchesDate

\* They are written from one version.
LEMMA DateWritten ==
  ASSUME NEW v, UNCHANGED history, row'.total = history[v].total, row'.at = v
  PROVE  TotalMatchesDate'
BY DEF TotalMatchesDate

\* The HCM's moves leave the row alone and the versions as they are.
LEMMA HcmLeavesRow ==
  ASSUME RowTypeOK,
         HrChange \/ \E r \in Requests : HcmDeduct(r) \/ HcmReverse(r)
  PROVE  /\ \A v \in 1 .. Version : history'[v] = history[v]
         /\ UNCHANGED <<row, request, reversals, run, mishaps>>
<1>1. \/ UNCHANGED history
      \/ \E f \in Figures : HcmMoves(f)
  <2>0. \A r \in Requests : daysRequested[r] \in Nat
        BY RowAssumption
  <2>1. Present \in Figures /\ Present.used \in Nat /\ Present.total \in Nat
        BY PresentFigures
  <2>2. CASE HrChange
    <3>1. CASE \E t \in Totals \ {Present.total} : HcmMoves([Present EXCEPT !.total = t])
      <4>1. \A t \in Totals : [Present EXCEPT !.total = t] \in Figures
            BY <2>1, RowAssumption DEF Figures
      <4> QED BY <3>1, <4>1
    <3>2. CASE HcmMoves([Present EXCEPT !.used = @ + 1])
      <4>1. [Present EXCEPT !.used = @ + 1] \in Figures
            BY <2>1 DEF Figures
      <4> QED BY <3>2, <4>1
    <3> QED BY <2>2, <3>1, <3>2 DEF HrChange
  <2>3. ASSUME NEW r \in Requests, HcmDeduct(r)
        PROVE  UNCHANGED history \/ \E f \in Figures : HcmMoves(f)
    <3>1. [Present EXCEPT !.used = @ + daysRequested[r]] \in Figures
          BY <2>0, <2>1 DEF Figures
    <3> QED BY <2>3, <3>1 DEF HcmDeduct
  <2>4. ASSUME NEW r \in Requests, HcmReverse(r)
        PROVE  UNCHANGED history \/ \E f \in Figures : HcmMoves(f)
    <3>1. [Present EXCEPT !.used = Minus(@, daysRequested[r])] \in Figures
          BY <2>0, <2>1, MinusNat DEF Figures
    <3> QED BY <2>4, <3>1 DEF HcmReverse
  <2> QED BY <2>2, <2>3, <2>4
<1>2. \A v \in 1 .. Version : history'[v] = history[v]
      BY <1>1, HistoryGrows DEF RowTypeOK
<1>3. UNCHANGED <<row, request, reversals, run, mishaps>>
      BY DEF HrChange, HcmDeduct, HcmReverse, Answered
<1> QED
    BY <1>2, <1>3

LEMMA SettleDate ==
  ASSUME RowTypeOK, Flow, TotalMatchesDate, NEW r \in Requests,
         Approve(r) \/ Reject(r) \/ ConfirmReversal(r) \/ MarkFailed(r)
  PROVE  TotalMatchesDate'
<1>1. Outstanding(r)
      BY Settlements
<1>2. CASE Approve(r)
  <2>1. request'[r] = "APPROVED"
        BY <1>1, <1>2, SettledFrom DEF Approve, RowTypeOK
  <2> QED BY <2>1 DEF TotalMatchesDate, NothingSettled, InState
<1>3. CASE ConfirmReversal(r)
      BY <1>1, <1>3, SettledFrom DEF ConfirmReversal, TotalMatchesDate, NothingSettled
<1>4. CASE Reject(r) \/ MarkFailed(r)
  <2>1. PICK state \in {"REJECTED", "FAILED"} : Settle(r, state)
        BY <1>4 DEF Reject, MarkFailed
  <2>2. /\ request[r] # "APPROVED"
        /\ request' = [request EXCEPT ![r] = state]
        /\ UNCHANGED <<history, reversals>>
        BY <1>1, <2>1, SettledFrom
  <2>3. NothingSettled' => NothingSettled
    <3>1. \A q \in Requests : request[q] = "APPROVED" => request'[q] = "APPROVED"
          BY <2>2 DEF RowTypeOK
    <3> QED BY <2>2, <3>1 DEF NothingSettled, InState
  <2>4. row'.total = row.total /\ row'.at = row.at
        BY <1>4, RowFields DEF Reject, MarkFailed, Row
  <2> QED BY <2>2, <2>3, <2>4, DateKept
<1> QED
    BY <1>2, <1>3, <1>4

LEMMA RequestDate ==
  ASSUME RowTypeOK, Flow, TotalMatchesDate, NEW r \in Requests,
         createRequest(r) \/ cancelApproved(r) \/ Send(r) \/ ScheduleRetry(r)
  PROVE  TotalMatchesDate'
<1>1. CASE cancelApproved(r)
      BY <1>1 DEF cancelApproved, TotalMatchesDate, NothingSettled
<1>2. CASE createRequest(r) \/ Send(r) \/ ScheduleRetry(r)
  <2>1. UNCHANGED <<history, reversals>>
        BY <1>2 DEF createRequest, Send, ScheduleRetry
  <2>2. row'.total = row.total /\ row'.at = row.at
        BY <1>2, RowFields DEF createRequest, Send, ScheduleRetry, Row
  <2>3. \A q \in Requests : request[q] = "APPROVED" => request'[q] = "APPROVED"
        BY <1>2 DEF createRequest, Send, ScheduleRetry, RowTypeOK, NotCreated
  <2>4. NothingSettled' => NothingSettled
        BY <2>1, <2>3 DEF NothingSettled, InState
  <2> QED BY <2>1, <2>2, <2>4, DateKept
<1> QED
    BY <1>1, <1>2

LEMMA StepDate == RowTypeOK /\ Flow /\ TotalMatchesDate /\ [Next]_vars => TotalMatchesDate'
<1> SUFFICES ASSUME RowTypeOK, Flow, TotalMatchesDate, [Next]_vars
             PROVE  TotalMatchesDate'
    OBVIOUS
<1>1. CASE HrChange \/ \E r \in Requests : HcmDeduct(r) \/ HcmReverse(r)
      BY <1>1, HcmLeavesRow, DateKept DEF NothingSettled, InState
<1>2. CASE \E r \in Requests :
             \/ createRequest(r) \/ cancelApproved(r)
             \/ Send(r) \/ Approve(r) \/ Reject(r) \/ ConfirmReversal(r)
             \/ ScheduleRetry(r) \/ MarkFailed(r)
      BY <1>2, RequestDate, SettleDate
<1>3. CASE \E v \in 1 .. Version : ApplyFetch(v) \/ ApplyRecord(v)
  <2>1. PICK v \in 1 .. Version : ApplyFetch(v) \/ ApplyRecord(v)
        BY <1>3
  <2>2. UNCHANGED history /\ row'.total = history[v].total /\ row'.at = v
        BY <2>1, SyncWrites DEF ApplyFetch, ApplyRecord
  <2> QED BY <2>2, DateWritten
<1>4. CASE \E u \in Runs :
             \/ StartRun(u)
             \/ \E v \in run[u].since .. Version, old \in BOOLEAN : Decide(u, v, old)
  <2>1. CASE \E u \in Runs : StartRun(u)
        BY <2>1, DateKept DEF StartRun, NothingSettled, InState
  <2>2. ASSUME NEW u \in Runs, NEW v \in run[u].since .. Version, NEW old \in BOOLEAN,
               Decide(u, v, old)
        PROVE  TotalMatchesDate'
    <3>1. CASE row' = Corrected(v)
      <4>1. UNCHANGED history /\ row'.total = history[v].total /\ row'.at = v
            BY <2>2, <3>1, RowFields DEF Decide, Corrected, Row
      <4> QED BY <4>1, DateWritten
    <3>2. CASE UNCHANGED row
          BY <2>2, <3>2, DateKept DEF Decide, NothingSettled, InState
    <3> QED BY <2>2, <3>1, <3>2 DEF Decide
  <2> QED BY <1>4, <2>1, <2>2
<1>5. CASE Crash \/ UNCHANGED vars
      BY <1>5, DateKept DEF Crash, vars, NothingSettled, InState
<1> QED
    BY <1>1, <1>2, <1>3, <1>4, <1>5 DEF Next

LEMMA InitDate == Init => TotalMatchesDate
BY DEF Init, TotalMatchesDate, NoRow

\* Until the first settlement a row's total is the HCM's of the row's own date,
\* for any number of writers, runs and versions (batch-sync.service.ts:115,
\* reconciliation.worker.ts:74, balance.service.ts:57).
THEOREM TotalsDated == Spec => []TotalMatchesDate
<1>1. Init => RowTypeOK /\ Flow /\ TotalMatchesDate
      BY InitTypes, InitFlow, InitDate
<1>2. RowTypeOK /\ Flow /\ TotalMatchesDate /\ [Next]_vars
        => (RowTypeOK /\ Flow /\ TotalMatchesDate)'
      BY StepTypes, StepFlow, StepDate
<1> QED
    BY <1>1, <1>2, PTL DEF Spec

(***************************************************************************)
(* Days of sets of requests.                                               *)
(***************************************************************************)
LEMMA DaysEmpty == daysOf[{}] = 0
<1>1. {} \in SUBSET Requests /\ {} \cap {} = {} /\ {} \cup {} = {}
      OBVIOUS
<1>2. daysOf[{} \cup {}] = daysOf[{}] + daysOf[{}]
      BY <1>1, DaysAssumption
<1> QED
    BY <1>1, <1>2, DaysOfNat

LEMMA DaysAdd ==
  ASSUME NEW S \in SUBSET Requests, NEW r \in Requests, r \notin S
  PROVE  daysOf[S \cup {r}] = daysOf[S] + daysRequested[r]
<1>1. {r} \in SUBSET Requests /\ S \cap {r} = {}
      OBVIOUS
<1> QED
    BY <1>1, DaysAssumption

LEMMA DaysMonotone ==
  ASSUME NEW S \in SUBSET Requests, NEW T \in SUBSET Requests, S \subseteq T
  PROVE  daysOf[S] <= daysOf[T]
<1>1. T \ S \in SUBSET Requests /\ S \cap (T \ S) = {} /\ S \cup (T \ S) = T
      OBVIOUS
<1>2. daysOf[T] = daysOf[S] + daysOf[T \ S]
      BY <1>1, DaysAssumption
<1> QED
    BY <1>1, <1>2, DaysOfNat

LEMMA DaysRemove ==
  ASSUME NEW S \in SUBSET Requests, NEW r \in S
  PROVE  daysOf[S] = daysOf[S \ {r}] + daysRequested[r]
<1>1. S \ {r} \in SUBSET Requests /\ r \notin S \ {r} /\ (S \ {r}) \cup {r} = S
      OBVIOUS
<1> QED
    BY <1>1, DaysAdd

\* What is taken with the clamp still covers what is left.
LEMMA MinusDays ==
  ASSUME NEW S \in SUBSET Requests, NEW r \in S, NEW n \in Nat
  PROVE  /\ n >= daysOf[S] => Minus(n, daysRequested[r]) >= daysOf[S \ {r}]
         /\ n = daysOf[S] => Minus(n, daysRequested[r]) = daysOf[S \ {r}]
<1>1. /\ daysRequested[r] \in Nat
      /\ daysOf[S \ {r}] \in Nat
      /\ daysOf[S] \in Nat
      /\ daysOf[S] = daysOf[S \ {r}] + daysRequested[r]
      BY RowAssumption, DaysOfNat, DaysRemove
<1> QED
    BY <1>1 DEF Minus

LEMMA StateSets ==
  /\ Approved \in SUBSET Requests
  /\ InFlight \in SUBSET Requests
  /\ PendingInBatch \in SUBSET Requests
  /\ Applied \in SUBSET Requests
  /\ \A v : Answers(v) \in SUBSET Requests
BY DEF Approved, InFlight, PendingInBatch, Applied, Answers, InState

(***************************************************************************)
(* The days reserved.                                                      *)
(***************************************************************************)
Reserved == mishaps = 0 => row.pending >= daysOf[InFlight]

\* Nothing is reserved or released.
LEMMA PendingKept ==
  ASSUME PendingCountsInFlight, Reserved,
         row'.pending = row.pending, InFlight' = InFlight,
         reversals \subseteq reversals', mishaps' = 0 => mishaps = 0
  PROVE  PendingCountsInFlight' /\ Reserved'
BY DEF PendingCountsInFlight, Reserved, InFlight

LEMMA MishapKept ==
  ASSUME mishaps \in Nat, NEW happens \in BOOLEAN, Mishap(happens)
  PROVE  mishaps' = 0 => mishaps = 0 /\ ~happens
BY DEF Mishap

LEMMA CreatePending ==
  ASSUME RowTypeOK, PendingCountsInFlight, Reserved, NEW r \in Requests, createRequest(r)
  PROVE  PendingCountsInFlight' /\ Reserved'
<1>1. InFlight' = InFlight \cup {r} /\ r \notin InFlight
      BY DEF createRequest, InFlight, InState, RowTypeOK, NotCreated
<1>2. daysOf[InFlight'] = daysOf[InFlight] + daysRequested[r]
      BY <1>1, StateSets, DaysAdd
<1>3. row'.pending = row.pending + daysRequested[r]
      BY RowFields DEF createRequest, Row
<1>4. daysOf[InFlight] \in Nat /\ daysRequested[r] \in Nat /\ row.pending \in Nat
      BY StateSets, DaysOfNat, RowAssumption, RowFields
<1>5. UNCHANGED <<reversals, mishaps>>
      BY DEF createRequest
<1> QED
    BY <1>2, <1>3, <1>4, <1>5 DEF PendingCountsInFlight, Reserved, InFlight

\* A request leaves the set with its days.
LEMMA ReleasePending ==
  ASSUME RowTypeOK, PendingCountsInFlight, Reserved, NEW r \in InFlight,
         InFlight' = InFlight \ {r}, row'.pending = Minus(row.pending, daysRequested[r]),
         reversals' = reversals, mishaps' = 0 => mishaps = 0
  PROVE  PendingCountsInFlight' /\ Reserved'
<1>1. row.pending \in Nat
      BY RowFields
<1>2. /\ row.pending >= daysOf[InFlight]
           => Minus(row.pending, daysRequested[r]) >= daysOf[InFlight \ {r}]
      /\ row.pending = daysOf[InFlight]
           => Minus(row.pending, daysRequested[r]) = daysOf[InFlight \ {r}]
      BY <1>1, StateSets, MinusDays
<1> QED
    BY <1>2 DEF PendingCountsInFlight, Reserved, InFlight

\* What a settlement writes of pending_days, and what becomes of the request.
LEMMA SettlePending ==
  ASSUME RowTypeOK, Flow, PendingCountsInFlight, Reserved, NEW r \in Requests,
         Approve(r) \/ Reject(r) \/ ConfirmReversal(r) \/ MarkFailed(r)
  PROVE  PendingCountsInFlight' /\ Reserved'
<1>1. Outstanding(r)
      BY Settlements
<1>2. PICK state \in {"APPROVED", "REJECTED", "CANCELLED", "FAILED"} : Settle(r, state)
      BY Settlements
<1>3. /\ r \notin reversals => request[r] = "PENDING_HCM"
      /\ r \in reversals => request[r] = "CANCELLING"
      /\ request' = [request EXCEPT ![r] = state]
      /\ UNCHANGED reversals
      BY <1>1, <1>2, SettledFrom
<1>4. mishaps \in Nat
      BY DEF RowTypeOK
<1>5. mishaps' = 0 => mishaps = 0
      BY <1>4 DEF Approve, Reject, ConfirmReversal, MarkFailed, Mishap
<1>6. CASE r \notin reversals
  <2>1. r \in InFlight /\ InFlight' = InFlight \ {r}
        BY <1>3, <1>6 DEF InFlight, InState, RowTypeOK
  <2>2. row'.pending = Minus(row.pending, daysRequested[r])
    <3>1. CASE Approve(r)
          BY <3>1, RowFields DEF Approve, Row
    <3>2. CASE Reject(r) \/ MarkFailed(r)
          BY <3>2, RowFields DEF Reject, MarkFailed, Row
    <3> QED BY <1>6, <3>1, <3>2 DEF ConfirmReversal
  <2> QED BY <1>3, <1>5, <2>1, <2>2, ReleasePending
<1>7. CASE r \in reversals
  <2>1. InFlight' = InFlight
        BY <1>3, <1>7 DEF InFlight, InState, RowTypeOK
  <2>2. CASE ConfirmReversal(r)
    <3>1. row'.pending = row.pending
          BY <2>2, RowFields DEF ConfirmReversal, Row
    <3> QED BY <1>3, <1>5, <2>1, <3>1, PendingKept
  <2>3. CASE MarkFailed(r)
    <3>1. mishaps' # 0
          BY <1>4, <1>7, <2>3 DEF MarkFailed, Mishap
    <3> QED BY <1>3, <1>7, <3>1 DEF PendingCountsInFlight, Reserved
  <2> QED BY <1>7, <2>2, <2>3 DEF Approve, Reject
<1> QED
    BY <1>6, <1>7

LEMMA SyncPending ==
  ASSUME RowTypeOK, Flow, PendingCountsInFlight, Reserved,
         NEW v \in 1 .. Version, ApplyFetch(v) \/ ApplyRecord(v)
  PROVE  PendingCountsInFlight' /\ Reserved'
<1>1. UNCHANGED <<request, reversals>> /\ InFlight' = InFlight
      BY DEF ApplyFetch, ApplyRecord, InFlight, InState
<1>2. CASE ApplyFetch(v)
  <2>1. row'.pending = row.pending
        BY <1>2, RowFields DEF ApplyFetch, Row
  <2>2. mishaps' = 0 => mishaps = 0
        BY <1>2 DEF ApplyFetch, Mishap, RowTypeOK
  <2> QED BY <1>1, <2>1, <2>2, PendingKept
<1>3. CASE ApplyRecord(v)
  <2>1. UNCHANGED mishaps
        BY <1>3 DEF ApplyRecord
  <2>2. CASE row.at = 0
    <3>1. InFlight = {}
          BY <2>2 DEF Flow, InFlight, InState, NotCreated
    <3>2. row'.pending = 0
          BY <1>3, <2>2 DEF ApplyRecord
    <3> QED BY <1>1, <3>1, <3>2, DaysEmpty DEF PendingCountsInFlight, Reserved, InFlight
  <2>3. CASE row.at # 0
    <3>1. row'.pending = daysOf[PendingInBatch]
          BY <1>3, <2>3 DEF ApplyRecord
    <3>2. InFlight \subseteq PendingInBatch /\ (reversals = {} => PendingInBatch = InFlight)
          BY DEF Flow, InFlight, PendingInBatch, InState
    <3>3. daysOf[InFlight] <= daysOf[PendingInBatch]
          BY <3>2, StateSets, DaysMonotone
    <3>4. daysOf[InFlight] \in Nat /\ daysOf[PendingInBatch] \in Nat
          BY StateSets, DaysOfNat
    <3> QED
        BY <1>1, <2>1, <3>1, <3>2, <3>3, <3>4 DEF PendingCountsInFlight, Reserved, InFlight
  <2> QED BY <2>2, <2>3
<1> QED
    BY <1>2, <1>3

LEMMA StepPending ==
  RowTypeOK /\ Flow /\ PendingCountsInFlight /\ Reserved /\ [Next]_vars
    => PendingCountsInFlight' /\ Reserved'
<1> SUFFICES ASSUME RowTypeOK, Flow, PendingCountsInFlight, Reserved, [Next]_vars
             PROVE  PendingCountsInFlight' /\ Reserved'
    OBVIOUS
<1>1. CASE HrChange \/ \E r \in Requests : HcmDeduct(r) \/ HcmReverse(r)
      BY <1>1, HcmLeavesRow, PendingKept DEF InFlight, InState
<1>2. CASE \E r \in Requests : createRequest(r)
      BY <1>2, CreatePending
<1>3. CASE \E r \in Requests : cancelApproved(r) \/ Send(r) \/ ScheduleRetry(r)
  <2>1. UNCHANGED <<row, mishaps>> /\ reversals \subseteq reversals'
        BY <1>3 DEF cancelApproved, Send, ScheduleRetry
  <2>2. InFlight' = InFlight
        BY <1>3 DEF cancelApproved, Send, ScheduleRetry, InFlight, InState, RowTypeOK
  <2> QED BY <2>1, <2>2, PendingKept
<1>4. CASE \E r \in Requests :
             Approve(r) \/ Reject(r) \/ ConfirmReversal(r) \/ MarkFailed(r)
      BY <1>4, SettlePending
<1>5. CASE \E v \in 1 .. Version : ApplyFetch(v) \/ ApplyRecord(v)
      BY <1>5, SyncPending
<1>6. CASE \E u \in Runs :
             \/ StartRun(u)
             \/ \E v \in run[u].since .. Version, old \in BOOLEAN : Decide(u, v, old)
  <2>1. CASE \E u \in Runs : StartRun(u)
        BY <2>1, PendingKept DEF StartRun, InFlight, InState
  <2>2. ASSUME NEW u \in Runs, NEW v \in run[u].since .. Version, NEW old \in BOOLEAN,
               Decide(u, v, old)
        PROVE  PendingCountsInFlight' /\ Reserved'
    <3>1. row'.pending = row.pending
          BY <2>2, RowFields DEF Decide, Corrected, Row
    <3>2. mishaps' = 0 => mishaps = 0
          BY <2>2 DEF Decide, Mishap, RowTypeOK
    <3>3. UNCHANGED reversals /\ InFlight' = InFlight
          BY <2>2 DEF Decide, InFlight, InState
    <3> QED BY <3>1, <3>2, <3>3, PendingKept
  <2> QED BY <1>6, <2>1, <2>2
<1>7. CASE Crash \/ UNCHANGED vars
      BY <1>7, PendingKept DEF Crash, vars, InFlight, InState
<1> QED
    BY <1>1, <1>2, <1>3, <1>4, <1>5, <1>6, <1>7 DEF Next

LEMMA InitPending == Init => PendingCountsInFlight /\ Reserved
<1> SUFFICES ASSUME Init PROVE PendingCountsInFlight /\ Reserved
    OBVIOUS
<1>1. InFlight = {}
      BY DEF Init, InFlight, InState, NotCreated
<1> QED
    BY <1>1, DaysEmpty DEF Init, NoRow, PendingCountsInFlight, Reserved, InFlight

\* Until the first cancellation pending_days is exactly the days of the requests
\* in flight, whoever wrote it last: createRequest adds, settlements subtract,
\* batches recompute (batch-sync.service.ts:127, outbox.processor.ts:180).
THEOREM PendingCorrect == Spec => []PendingCountsInFlight
<1>1. Init => RowTypeOK /\ Flow /\ PendingCountsInFlight /\ Reserved
      BY InitTypes, InitFlow, InitPending
<1>2. RowTypeOK /\ Flow /\ PendingCountsInFlight /\ Reserved /\ [Next]_vars
        => (RowTypeOK /\ Flow /\ PendingCountsInFlight /\ Reserved)'
      BY StepTypes, StepFlow, StepPending
<1> QED
    BY <1>1, <1>2, PTL DEF Spec

(***************************************************************************)
(* The days used.                                                          *)
(***************************************************************************)
Counted == mishaps = 0 => row.used >= daysOf[Approved]

Promises == Booked /\ Dated /\ Counted

\* The HCM's balance and what it has booked stay.
LEMMA BookedKept ==
  ASSUME Booked, UNCHANGED <<history, tx>>
  PROVE  Booked'
BY DEF Booked, Present, Version, Applied

\* No row of an older version, no approval and no answer is new.
LEMMA DatedKept ==
  ASSUME RowTypeOK, Dated, UNCHANGED history,
         mishaps' = 0 => mishaps = 0 /\ row.at <= row'.at,
         row'.at \in Nat,
         \A v \in 1 .. Version :
           row'.at <= v => Approved' \cup Answers(v)' \subseteq Approved \cup Answers(v)
  PROVE  Dated'
<1> SUFFICES ASSUME mishaps' = 0, NEW v \in 1 .. Version, row'.at <= v
             PROVE  history[v].used >= daysOf[Approved' \cup Answers(v)']
    BY DEF Dated, Version, Approved, Answers
<1>1. row.at <= v
      BY RowFields
<1>2. history[v].used >= daysOf[Approved \cup Answers(v)]
      BY <1>1 DEF Dated
<1>3. Approved' \cup Answers(v)' \in SUBSET Requests
      BY StateSets
<1>4. daysOf[Approved' \cup Answers(v)'] <= daysOf[Approved \cup Answers(v)]
      BY <1>3, StateSets, DaysMonotone
<1>5. /\ daysOf[Approved' \cup Answers(v)'] \in Nat
      /\ daysOf[Approved \cup Answers(v)] \in Nat
      /\ history[v].used \in Nat
      BY <1>3, StateSets, DaysOfNat, VersionFigures DEF RowTypeOK
<1> QED
    BY <1>2, <1>4, <1>5

LEMMA CountedKept ==
  ASSUME RowTypeOK, Counted, row'.used = row.used, Approved' \subseteq Approved,
         mishaps' = 0 => mishaps = 0
  PROVE  Counted'
<1>1. daysOf[Approved'] <= daysOf[Approved]
      BY StateSets, DaysMonotone
<1>2. daysOf[Approved'] \in Nat /\ daysOf[Approved] \in Nat /\ row.used \in Nat
      BY <1>1, StateSets, DaysOfNat, RowFields
<1> QED
    BY <1>1, <1>2 DEF Counted, Approved

\* used_days of a version that is not older than the row's.
LEMMA CountedWritten ==
  ASSUME RowTypeOK, Dated, NEW v \in 1 .. Version, row'.used = history[v].used,
         mishaps' = 0 =>
           mishaps = 0 /\ row.at <= v /\ Approved' \subseteq Approved \cup Answers(v)
  PROVE  Counted'
<1> SUFFICES ASSUME mishaps' = 0 PROVE history[v].used >= daysOf[Approved']
    BY DEF Counted, Approved
<1>1. history[v].used >= daysOf[Approved \cup Answers(v)]
      BY DEF Dated
<1>2. Approved' \in SUBSET Requests
      BY StateSets
<1>3. daysOf[Approved'] <= daysOf[Approved \cup Answers(v)]
      BY <1>2, StateSets, DaysMonotone
<1>4. /\ daysOf[Approved'] \in Nat
      /\ daysOf[Approved \cup Answers(v)] \in Nat
      /\ history[v].used \in Nat
      BY <1>2, StateSets, DaysOfNat, VersionFigures DEF RowTypeOK
<1> QED
    BY <1>1, <1>3, <1>4

\* What is approved, or will be by an answer of this version, is booked.
LEMMA AnswersApplied ==
  ASSUME RowTypeOK, Flow, NEW v
  PROVE  Approved \cup Answers(v) \subseteq Applied
BY DEF RowTypeOK, Flow, Approved, Answers, Applied, InState

(***************************************************************************)
(* The HCM's steps.                                                        *)
(***************************************************************************)
\* A move of the HCM that leaves used days enough: of the old versions nothing
\* more is asked, and of the new one what is booked.
LEMMA MovePromises ==
  ASSUME RowTypeOK, RowTypeOK', Flow', Promises, NEW f \in Figures, HcmMoves(f),
         f.used >= daysOf[Applied'], UNCHANGED <<row, request, reversals, mishaps>>,
         \A v \in 1 .. Version : Answers(v)' = Answers(v)
  PROVE  Promises'
<1>1. /\ Version' = Version + 1
      /\ \A v \in 1 .. Version : history'[v] = history[v]
      /\ history'[Version + 1] = f
      BY HistoryGrows DEF RowTypeOK
<1>2. Version \in Nat /\ Approved' = Approved
      BY DEF RowTypeOK, Approved, InState
<1>3. Booked'
      BY <1>1 DEF Booked, Present
<1>4. Dated'
  <2> SUFFICES ASSUME mishaps = 0, NEW v \in 1 .. Version + 1, row.at <= v
               PROVE  history'[v].used >= daysOf[Approved' \cup Answers(v)']
      BY <1>1 DEF Dated
  <2>1. CASE v \in 1 .. Version
        BY <1>1, <1>2, <2>1 DEF Promises, Dated
  <2>2. CASE v = Version + 1
    <3>1. Approved' \cup Answers(v)' \subseteq Applied'
          BY DEF RowTypeOK, Flow, Approved, Answers, Applied, InState
    <3>2. Applied' \in SUBSET Requests /\ Approved' \cup Answers(v)' \in SUBSET Requests
          BY <3>1 DEF Applied
    <3>3. daysOf[Approved' \cup Answers(v)'] <= daysOf[Applied']
          BY <3>1, <3>2, DaysMonotone
    <3>4. /\ daysOf[Approved' \cup Answers(v)'] \in Nat
          /\ daysOf[Applied'] \in Nat
          /\ f.used \in Nat
          BY <3>2, DaysOfNat DEF Figures
    <3> QED BY <1>1, <2>2, <3>3, <3>4
  <2> QED BY <1>2, <2>1, <2>2
<1>5. Counted'
      BY <1>2 DEF Promises, Counted
<1> QED
    BY <1>3, <1>4, <1>5 DEF Promises

LEMMA HrPromises ==
  ASSUME RowTypeOK, RowTypeOK', Flow', Promises, HrChange
  PROVE  Promises'
<1>1. UNCHANGED <<tx, row, request, call, reversals, mishaps>>
      BY DEF HrChange
<1>2. /\ Applied' = Applied
      /\ \A v \in 1 .. Version : Answers(v)' = Answers(v)
      BY <1>1 DEF Applied, Answers
<1>3. Present.used >= daysOf[Applied] /\ daysOf[Applied] \in Nat
      BY StateSets, DaysOfNat DEF Promises, Booked
<1>4. ASSUME NEW t \in Totals, HcmMoves([Present EXCEPT !.total = t])
      PROVE  Promises'
  <2> DEFINE f == [Present EXCEPT !.total = t]
  <2>1. f \in Figures /\ f.used = Present.used
        BY PresentFigures, RowAssumption DEF Figures
  <2>2. HcmMoves(f)
        BY <1>4
  <2>3. f.used >= daysOf[Applied']
        BY <1>2, <1>3, <2>1
  <2> HIDE DEF f
  <2> QED BY <1>1, <1>2, <2>1, <2>2, <2>3, MovePromises
<1>5. CASE HcmMoves([Present EXCEPT !.used = @ + 1])
  <2> DEFINE f == [Present EXCEPT !.used = @ + 1]
  <2>1. f \in Figures /\ f.used = Present.used + 1
        BY PresentFigures DEF Figures
  <2>2. HcmMoves(f)
        BY <1>5
  <2>3. f.used >= daysOf[Applied']
        BY <1>2, <1>3, <2>1, PresentFigures
  <2> HIDE DEF f
  <2> QED BY <1>1, <1>2, <2>1, <2>2, <2>3, MovePromises
<1> QED
    BY <1>4, <1>5 DEF HrChange

\* The answers that there were are the answers that there are, but for a new
\* one, which is of the newest version.
LEMMA AnsweredOthers ==
  ASSUME RowTypeOK, NEW r \in Requests, NEW kind, NEW at \in Nat, Answered(r, kind, at),
         kind = "OK" => at = Version + 1 \/ r \in reversals
  PROVE  \A v \in 1 .. Version : Answers(v)' = Answers(v)
<1>1. /\ call[r].kind = "SENT"
      /\ call' = [call EXCEPT ![r] = [call[r] EXCEPT !.kind = kind, !.at = at]]
      /\ UNCHANGED reversals
      BY DEF Answered, RowTypeOK
<1>2. /\ call'[r].kind = kind /\ call'[r].at = at
      /\ \A q \in Requests : q # r => call'[q] = call[q]
      BY <1>1 DEF RowTypeOK, Call
<1> QED
    BY <1>1, <1>2 DEF Answers, RowTypeOK

LEMMA DeductPromises ==
  ASSUME RowTypeOK, RowTypeOK', Flow', Promises, NEW r \in Requests, HcmDeduct(r)
  PROVE  Promises'
<1>1. UNCHANGED <<row, request, reversals, mishaps>>
      BY DEF HcmDeduct, Answered
<1>2. Version \in Nat
      BY DEF RowTypeOK
<1>3. \A v \in 1 .. Version : Answers(v)' = Answers(v)
      BY <1>2, AnsweredOthers DEF HcmDeduct
<1>4. CASE UNCHANGED <<history, tx>>
  <2>1. Dated'
        BY <1>1, <1>3, <1>4, RowFields, DatedKept DEF Promises, Approved, InState
  <2> QED BY <1>1, <1>4, <2>1, BookedKept DEF Promises, Counted, Approved, InState
<1>5. CASE /\ tx[r] = "NONE"
           /\ HcmMoves([Present EXCEPT !.used = @ + daysRequested[r]])
           /\ tx' = [tx EXCEPT ![r] = "APPLIED"]
  <2> DEFINE f == [Present EXCEPT !.used = @ + daysRequested[r]]
  <2>1. f \in Figures /\ f.used = Present.used + daysRequested[r]
        BY PresentFigures, RowAssumption DEF Figures
  <2>2. HcmMoves(f)
        BY <1>5
  <2>3. Applied' = Applied \cup {r} /\ r \notin Applied
        BY <1>5 DEF Applied, RowTypeOK
  <2>4. daysOf[Applied'] = daysOf[Applied] + daysRequested[r]
        BY <2>3, StateSets, DaysAdd
  <2>5. f.used >= daysOf[Applied']
        BY <2>1, <2>4, PresentFigures, StateSets, DaysOfNat, RowAssumption DEF Promises, Booked
  <2> HIDE DEF f
  <2> QED BY <1>1, <1>3, <2>1, <2>2, <2>5, MovePromises
<1> QED
    BY <1>4, <1>5 DEF HcmDeduct

LEMMA ReversePromises ==
  ASSUME RowTypeOK, RowTypeOK', Flow', Promises, NEW r \in Requests, HcmReverse(r)
  PROVE  Promises'
<1>1. UNCHANGED <<row, request, reversals, mishaps>>
      BY DEF HcmReverse, Answered
<1>2. Version \in Nat
      BY DEF RowTypeOK
<1>3. \A v \in 1 .. Version : Answers(v)' = Answers(v)
      BY <1>2, AnsweredOthers DEF HcmReverse
<1>4. CASE UNCHANGED <<history, tx>>
  <2>1. Dated'
        BY <1>1, <1>3, <1>4, RowFields, DatedKept DEF Promises, Approved, InState
  <2> QED BY <1>1, <1>4, <2>1, BookedKept DEF Promises, Counted, Approved, InState
<1>5. CASE /\ tx[r] = "APPLIED"
           /\ HcmMoves([Present EXCEPT !.used = Minus(@, daysRequested[r])])
           /\ tx' = [tx EXCEPT ![r] = "REVERSED"]
  <2> DEFINE f == [Present EXCEPT !.used = Minus(@, daysRequested[r])]
  <2>1. f \in Figures /\ f.used = Minus(Present.used, daysRequested[r])
        BY PresentFigures, RowAssumption, MinusNat DEF Figures
  <2>2. HcmMoves(f)
        BY <1>5
  <2>3. Applied' = Applied \ {r} /\ r \in Applied
        BY <1>5 DEF Applied, RowTypeOK
  <2>4. Minus(Present.used, daysRequested[r]) >= daysOf[Applied \ {r}]
        BY <2>3, PresentFigures, StateSets, MinusDays DEF Promises, Booked
  <2>5. f.used >= daysOf[Applied']
        BY <2>1, <2>3, <2>4
  <2> HIDE DEF f
  <2> QED BY <1>1, <1>3, <2>1, <2>2, <2>5, MovePromises
<1> QED
    BY <1>4, <1>5 DEF HcmReverse

(***************************************************************************)
(* The service's steps.                                                    *)
(***************************************************************************)
\* The settlement by an answer writes used_days of the answer's version.
LEMMA SettlePromises ==
  ASSUME RowTypeOK, RowTypeOK', Flow, Promises, NEW r \in Requests,
         Approve(r) \/ Reject(r) \/ ConfirmReversal(r) \/ MarkFailed(r)
  PROVE  Promises'
<1>1. Outstanding(r)
      BY Settlements
<1>2. PICK state \in {"APPROVED", "REJECTED", "CANCELLED", "FAILED"} :
        /\ Settle(r, state)
        /\ state = "APPROVED" => Approve(r)
      BY DEF Approve, Reject, ConfirmReversal, MarkFailed
<1>3. /\ request[r] # "APPROVED"
      /\ request' = [request EXCEPT ![r] = state]
      /\ call' = [call EXCEPT ![r] = NoCall]
      /\ UNCHANGED <<history, tx, reversals>>
      BY <1>1, <1>2, SettledFrom
<1>4. /\ Approved' = IF state = "APPROVED" THEN Approved \cup {r} ELSE Approved
      /\ \A v : Answers(v)' = Answers(v) \ {r}
      BY <1>3 DEF Approved, Answers, InState, RowTypeOK, NoCall
<1>5. Booked'
      BY <1>3, BookedKept DEF Promises
<1>6. /\ mishaps \in Nat /\ row'.at \in Nat /\ row.at \in Nat
      /\ call[r].at \in Nat /\ call[r].at <= Version /\ Version \in Nat
      /\ call[r].kind = "OK" => call[r].at \in 1 .. Version
  <2>1. call[r].at \in Nat
        BY DEF RowTypeOK, Call
  <2>2. /\ call[r].at <= Version /\ Version \in Nat
        /\ call[r].kind = "OK" => call[r].at # 0
        BY DEF RowTypeOK
  <2>3. mishaps \in Nat /\ row'.at \in Nat /\ row.at \in Nat
        BY DEF RowTypeOK, Row
  <2> QED BY <2>1, <2>2, <2>3
<1>7. CASE call[r].kind = "OK" /\ (Approve(r) \/ ConfirmReversal(r))
  <2>1. row'.used = history[call[r].at].used /\ row'.at = call[r].at
    <3>1. CASE Approve(r)
      <4>1. row' = [row EXCEPT !.used = history[call[r].at].used, !.at = call[r].at,
                               !.pending = Minus(@, daysRequested[r])]
            BY <1>7, <3>1 DEF Approve
      <4> QED BY <4>1, RowFields DEF Row
    <3>2. CASE ConfirmReversal(r)
      <4>1. row' = [row EXCEPT !.used = history[call[r].at].used, !.at = call[r].at]
            BY <1>7, <3>2 DEF ConfirmReversal
      <4> QED BY <4>1, RowFields DEF Row
    <3> QED BY <1>7, <3>1, <3>2
  <2>2. mishaps' = 0 => mishaps = 0 /\ row.at <= call[r].at
        BY <1>6, <1>7 DEF Approve, ConfirmReversal, Mishap, Overtaken
  <2>3. /\ state = "APPROVED" => r \notin reversals
        /\ \A v \in 1 .. Version :
             call[r].at <= v /\ r \notin reversals => r \in Answers(v)
        BY <1>2, <1>7 DEF Approve, Answers
  <2>4. \A v \in 1 .. Version :
          call[r].at <= v => Approved' \subseteq Approved \cup Answers(v)
        BY <1>4, <2>3
  <2>5. Dated'
        BY <1>3, <1>4, <1>6, <2>1, <2>2, <2>4, DatedKept DEF Promises
  <2>6. Counted'
    <3>1. call[r].at \in 1 .. Version /\ call[r].at <= call[r].at
          BY <1>6, <1>7
    <3> QED BY <2>1, <2>2, <2>4, <3>1, CountedWritten DEF Promises
  <2> QED BY <1>5, <2>5, <2>6 DEF Promises
<1>8. CASE Reject(r) \/ MarkFailed(r)
  <2>1. row'.used = row.used /\ row'.at = row.at
        BY <1>8, RowFields DEF Reject, MarkFailed, Row
  <2>2. mishaps' = 0 => mishaps = 0
        BY <1>6, <1>8 DEF Reject, MarkFailed, Mishap
  <2>3. Approved' = Approved
    <3>1. PICK s \in {"REJECTED", "FAILED"} : Settle(r, s)
          BY <1>8 DEF Reject, MarkFailed
    <3>2. request' = [request EXCEPT ![r] = s]
          BY <3>1 DEF Settle
    <3> QED BY <1>3, <3>2 DEF Approved, InState, RowTypeOK
  <2>4. Dated'
        BY <1>3, <1>4, <1>6, <2>1, <2>2, <2>3, DatedKept DEF Promises
  <2>5. Counted'
        BY <2>1, <2>2, <2>3, CountedKept DEF Promises
  <2> QED BY <1>5, <2>4, <2>5 DEF Promises
<1>9. CASE call[r].kind = "DUPLICATE" /\ (Approve(r) \/ ConfirmReversal(r))
  <2>1. mishaps' # 0
        BY <1>6, <1>9 DEF Approve, ConfirmReversal, Mishap
  <2> QED BY <1>5, <2>1 DEF Promises, Dated, Counted
<1> QED
    BY <1>7, <1>8, <1>9 DEF Approve, ConfirmReversal

LEMMA SyncPromises ==
  ASSUME RowTypeOK, RowTypeOK', Promises, NEW v \in 1 .. Version,
         ApplyFetch(v) \/ ApplyRecord(v)
  PROVE  Promises'
<1>1. UNCHANGED <<history, tx, request, call, reversals>>
      BY DEF ApplyFetch, ApplyRecord
<1>2. Approved' = Approved /\ \A w : Answers(w)' = Answers(w)
      BY <1>1 DEF Approved, Answers, InState
<1>3. row'.at = v /\ row'.used = history[v].used
      BY SyncWrites
<1>4. mishaps' = 0 => mishaps = 0 /\ row.at <= v
      BY RowFields DEF RowTypeOK, ApplyFetch, ApplyRecord, Mishap, Overtaken
<1>5. Dated'
      BY <1>1, <1>2, <1>3, <1>4, DatedKept DEF Promises
<1>6. Counted'
      BY <1>2, <1>3, <1>4, CountedWritten DEF Promises
<1> QED
    BY <1>1, <1>5, <1>6, BookedKept DEF Promises

\* Steps that write neither used_days nor an answer.
LEMMA RequestPromises ==
  ASSUME RowTypeOK, RowTypeOK', Promises, NEW r \in Requests,
         createRequest(r) \/ cancelApproved(r) \/ Send(r) \/ ScheduleRetry(r)
  PROVE  Promises'
<1>1. UNCHANGED <<history, tx, mishaps>> /\ row'.used = row.used /\ row'.at = row.at
      BY RowFields DEF createRequest, cancelApproved, Send, ScheduleRetry, Row
<1>2. Approved' \subseteq Approved
      BY DEF createRequest, cancelApproved, Send, ScheduleRetry, Approved, InState, RowTypeOK
<1>3. \A q \in Requests \ reversals' :
        /\ q \notin reversals
        /\ call'[q].kind = "OK" => call[q] = call'[q]
  <2>1. CASE createRequest(r) \/ cancelApproved(r)
        BY <2>1 DEF createRequest, cancelApproved
  <2>2. CASE Send(r)
    <3>1. call' = [call EXCEPT ![r] = [call[r] EXCEPT !.kind = "SENT", !.attempts = @ + 1]]
          BY <2>2 DEF Send, RowTypeOK
    <3> QED BY <2>2, <3>1 DEF Send, RowTypeOK, Call
  <2>3. CASE ScheduleRetry(r)
    <3>1. call' = [call EXCEPT ![r] = [call[r] EXCEPT !.kind = "NONE", !.at = 0]]
          BY <2>3 DEF ScheduleRetry, RowTypeOK
    <3> QED BY <2>3, <3>1 DEF ScheduleRetry, RowTypeOK, Call
  <2> QED BY <2>1, <2>2, <2>3
<1>4. \A v : Answers(v)' \subseteq Answers(v)
      BY <1>3 DEF Answers
<1>5. Dated'
      BY <1>1, <1>2, <1>4, RowFields, DatedKept DEF Promises
<1>6. Counted'
      BY <1>1, <1>2, CountedKept DEF Promises
<1> QED
    BY <1>1, <1>5, <1>6, BookedKept DEF Promises

LEMMA RunPromises ==
  ASSUME RowTypeOK, RowTypeOK', Promises,
         \E u \in Runs :
           \/ StartRun(u)
           \/ \E v \in run[u].since .. Version, old \in BOOLEAN : Decide(u, v, old)
  PROVE  Promises'
<1>1. UNCHANGED <<history, tx, request, call, reversals>>
      BY DEF StartRun, Decide
<1>2. Approved' = Approved /\ \A w : Answers(w)' = Answers(w)
      BY <1>1 DEF Approved, Answers, InState
<1>3. /\ row'.used = row.used
      /\ row'.at \in Nat
      /\ mishaps' = 0 => mishaps = 0 /\ row.at <= row'.at
  <2>1. CASE \E u \in Runs : StartRun(u)
        BY <2>1, RowFields DEF StartRun
  <2>2. ASSUME NEW u \in Runs, NEW v \in run[u].since .. Version, NEW old \in BOOLEAN,
               Decide(u, v, old)
        PROVE  /\ row'.used = row.used
               /\ row'.at \in Nat
               /\ mishaps' = 0 => mishaps = 0 /\ row.at <= row'.at
    <3>1. CASE row' = Corrected(v) /\ Mishap(Overtaken(v))
      <4>1. row'.used = row.used /\ row'.at = v
            BY <3>1, RowFields DEF Corrected, Row
      <4>2. mishaps' = 0 => mishaps = 0 /\ row.at <= v
            BY <2>2, <3>1, RowFields DEF RowTypeOK, Decide, Mishap, Overtaken
      <4> QED BY <4>1, <4>2, RowFields DEF RowTypeOK, Row
    <3>2. CASE UNCHANGED <<row, mishaps>>
          BY <3>2, RowFields
    <3> QED BY <2>2, <3>1, <3>2 DEF Decide
  <2> QED BY <2>1, <2>2
<1>4. Dated'
      BY <1>1, <1>2, <1>3, DatedKept DEF Promises
<1>5. Counted'
      BY <1>2, <1>3, CountedKept DEF Promises
<1> QED
    BY <1>1, <1>4, <1>5, BookedKept DEF Promises

LEMMA CrashPromises ==
  ASSUME RowTypeOK, RowTypeOK', Promises, Crash
  PROVE  Promises'
<1>1. UNCHANGED <<history, tx, row, request, reversals, mishaps>>
      BY DEF Crash
<1>2. \A r \in Requests : call'[r].kind = "NONE"
  <2>1. \A r \in Requests : call[r] \in Call
        BY DEF RowTypeOK
  <2> QED BY <2>1 DEF Crash, Call
<1>3. Approved' = Approved /\ \A v : Answers(v)' = {}
      BY <1>1, <1>2 DEF Approved, Answers, InState
<1>4. Dated'
      BY <1>1, <1>3, RowFields, DatedKept DEF Promises
<1>5. Counted'
      BY <1>1, <1>3, CountedKept DEF Promises
<1> QED
    BY <1>1, <1>4, <1>5, BookedKept DEF Promises

LEMMA StepPromises ==
  RowTypeOK /\ RowTypeOK' /\ Flow /\ Flow' /\ Promises /\ [Next]_vars => Promises'
<1> SUFFICES ASSUME RowTypeOK, RowTypeOK', Flow, Flow', Promises, [Next]_vars
             PROVE  Promises'
    OBVIOUS
<1>1. CASE HrChange
      BY <1>1, HrPromises
<1>2. CASE \E r \in Requests :
             \/ HcmDeduct(r) \/ HcmReverse(r)
             \/ createRequest(r) \/ cancelApproved(r)
             \/ Send(r) \/ Approve(r) \/ Reject(r) \/ ConfirmReversal(r)
             \/ ScheduleRetry(r) \/ MarkFailed(r)
      BY <1>2, DeductPromises, ReversePromises, RequestPromises, SettlePromises
<1>3. CASE \E v \in 1 .. Version : ApplyFetch(v) \/ ApplyRecord(v)
      BY <1>3, SyncPromises
<1>4. CASE \E u \in Runs :
             \/ StartRun(u)
             \/ \E v \in run[u].since .. Version, old \in BOOLEAN : Decide(u, v, old)
      BY <1>4, RunPromises
<1>5. CASE Crash
      BY <1>5, CrashPromises
<1>6. CASE UNCHANGED vars
  <2>1. UNCHANGED <<history, tx, row, request, call, reversals, mishaps>>
        BY <1>6 DEF vars
  <2> QED
      BY <2>1 DEF Promises, Booked, Dated, Counted, Present, Version, Applied, Approved,
         Answers, InState
<1> QED
    BY <1>1, <1>2, <1>3, <1>4, <1>5, <1>6 DEF Next

LEMMA InitPromises == Init => Promises
<1> SUFFICES ASSUME Init PROVE Promises
    OBVIOUS
<1>1. RowTypeOK
      BY InitTypes
<1>2. Approved = {} /\ Applied = {} /\ \A v : Answers(v) = {}
      BY DEF Init, Approved, Applied, Answers, InState, NotCreated, NoCall
<1>3. Booked
      BY <1>1, <1>2, DaysEmpty, PresentFigures DEF Booked
<1>4. Dated
  <2> SUFFICES ASSUME NEW v \in 1 .. Version
               PROVE  history[v].used >= daysOf[Approved \cup Answers(v)]
      BY DEF Dated
  <2>1. Approved \cup Answers(v) = {}
        BY <1>2
  <2>2. history[v].used \in Nat
        BY <1>1, VersionFigures DEF RowTypeOK
  <2> QED BY <2>1, <2>2, DaysEmpty
<1>5. Counted
      BY <1>2, DaysEmpty DEF Init, NoRow, Counted
<1> QED
    BY <1>3, <1>4, <1>5 DEF Promises

\* Until the first mishap the row counts every day that is promised: an approval
\* writes used_days of the answer's version, and no fetch, record or late answer
\* of a version that the row is not ahead of takes a booked day away again
\* (balance.service.ts:50, outbox.processor.ts:184, time-off.service.ts:66).
THEOREM PromisesCounted == Spec => []PromisedDaysAreCounted
<1> DEFINE Inv == RowTypeOK /\ Flow /\ PendingCountsInFlight /\ Reserved /\ Promises
<1>1. Init => Inv
      BY InitTypes, InitFlow, InitPending, InitPromises
<1>2. Inv /\ [Next]_vars => Inv'
      BY StepTypes, StepFlow, StepPending, StepPromises
<1>3. Inv => PromisedDaysAreCounted
      BY DEF Promises, Counted, Reserved, PromisedDaysAreCounted, Approved, InFlight
<1> QED
    BY <1>1, <1>2, <1>3, PTL DEF Spec
=============================================================================
