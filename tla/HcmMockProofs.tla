--------------------------- MODULE HcmMockProofs ---------------------------
(***************************************************************************)
(* Theorems about HcmMock, for any requests, calls, rules and bounds.      *)
(***************************************************************************)
EXTENDS HcmMockProperties, TLAPS

LEMMA IdleHandler ==
  /\ Idle \in Handler
  /\ Idle.stage = "IDLE"
BY MockAssumption DEF Idle, Handler, Endpoint

LEMMA DaysNat == \A r \in Requests : daysRequested[r] \in Nat
BY LedgerAssumption

LEMMA RuleLeft ==
  ASSUME NEW rule \in Rule
  PROVE  Left(rule) \in Rule /\ Applied(rule) \in Behaviors \cup {"none"}
<1>1. rule.remaining \in Int /\ rule.behavior \in Behaviors \cup {"none"} /\ NoRule \in Rule
      BY DEF Rule, NoRule
<1>2. [rule EXCEPT !.remaining = @ - 1] \in Rule
      BY <1>1 DEF Rule
<1> QED
    BY <1>1, <1>2 DEF Left, Applied

LEMMA NoReplyType == NoReply \in [kind : ReplyKind, used : Int]
BY DEF NoReply, Reply, ReplyKind, Absent

LEMMA Replies ==
  /\ \A kind \in ReplyKind, used \in Int : Reply(kind, used) \in [kind : ReplyKind, used : Int]
  /\ NoAnswer = Reply("NO_ANSWER", Absent)
  /\ Absent \in Int
BY DEF NoAnswer, Reply, ReplyKind, Absent

(***************************************************************************)
(* Types.                                                                  *)
(***************************************************************************)
LEMMA InitTypes == Init => HcmTypeOK
<1> SUFFICES ASSUME Init PROVE HcmTypeOK
    OBVIOUS
<1>1. hcmUsed \in Nat
      BY LedgerAssumption DEF Init
<1>2. chaos \in [Endpoint -> Rule]
      BY DEF Init, NoRule, Rule
<1>3. call \in [Calls -> Handler] /\ \A c \in Calls : call[c].stage # "SLOW"
      BY IdleHandler DEF Init
<1> QED
    BY <1>1, <1>2, <1>3, NoReplyType DEF Init, HcmTypeOK

LEMMA ControlTypes ==
  ASSUME HcmTypeOK,
         \/ \E e \in Endpoint, behavior \in Behaviors, count \in Counts :
              setBehavior(e, behavior, count)
         \/ \E used \in 0 .. totalDays : setBalance(used)
         \/ reset
  PROVE  HcmTypeOK'
<1>1. ASSUME NEW e \in Endpoint, NEW behavior \in Behaviors, NEW count \in Counts,
             setBehavior(e, behavior, count)
      PROVE  HcmTypeOK'
  <2>1. [behavior |-> behavior, remaining |-> count] \in Rule
        BY MockAssumption DEF Rule
  <2> QED BY <1>1, <2>1, NoReplyType DEF setBehavior, HcmTypeOK
<1>2. ASSUME NEW used \in 0 .. totalDays, setBalance(used)
      PROVE  HcmTypeOK'
      BY <1>2, NoReplyType, LedgerAssumption DEF setBalance, HcmTypeOK
<1>3. CASE reset
  <2>1. chaos' \in [Endpoint -> Rule]
        BY <1>3 DEF reset, NoRule, Rule
  <2>2. hcmTx' \in [Requests -> {"NONE", "APPLIED", "SILENT_FAILED", "REVERSED"}]
        BY <1>3 DEF reset
  <2>3. \A r \in Requests : hcmTx'[r] = "NONE"
        BY <1>3 DEF reset
  <2> QED BY <1>3, <2>1, <2>2, <2>3, NoReplyType DEF reset, HcmTypeOK
<1> QED
    BY <1>1, <1>2, <1>3

LEMMA ArriveTypes ==
  ASSUME HcmTypeOK, NEW c \in Calls, NEW e \in Endpoint, NEW r \in Requests, Arrive(c, e, r)
  PROVE  HcmTypeOK'
<1>1. chaos[e] \in Rule
      BY DEF HcmTypeOK
<1>2. chaos' \in [Endpoint -> Rule]
      BY <1>1, RuleLeft DEF Arrive, HcmTypeOK
<1> DEFINE handler == [stage |-> "LATENCY", endpoint |-> e, ref |-> r,
                       behavior |-> Applied(chaos[e])]
<1>3. handler \in Handler /\ handler.stage # "SLOW"
      BY <1>1, RuleLeft DEF Handler
<1>4. call' = [call EXCEPT ![c] = handler]
      BY DEF Arrive
<1> HIDE DEF handler
<1> QED
    BY <1>2, <1>3, <1>4, NoReplyType DEF Arrive, HcmTypeOK

\* What a handler that ends leaves, but for the ledger.
LEMMA FinishTypes ==
  ASSUME HcmTypeOK, NEW c \in Calls, NEW kind \in ReplyKind, NEW used \in Int,
         Finish(c, Reply(kind, used)),
         hcmTx' \in [Requests -> {"NONE", "APPLIED", "SILENT_FAILED", "REVERSED"}],
         hcmUsed' \in Nat,
         UNCHANGED hcmTx \/ listed
  PROVE  HcmTypeOK'
BY IdleHandler, Replies DEF Finish, HcmTypeOK

LEMMA ServeTypes ==
  ASSUME HcmTypeOK, NEW c \in Calls, Serve(c)
  PROVE  HcmTypeOK'
<1>1. /\ call[c] \in Handler
      /\ call[c].ref \in Requests
      /\ hcmUsed \in Nat
      /\ daysRequested[call[c].ref] \in Nat
      /\ Restored(call[c].ref) \in Nat
      /\ {"NO_ANSWER", "DUPLICATE", "REFUSED", "OK"} \subseteq ReplyKind
      BY DaysNat DEF HcmTypeOK, Handler, Restored, ReplyKind
<1>2. CASE Close(c) \/ DeductKnown(c) \/ Forced(c)
  <2>1. PICK kind \in {"NO_ANSWER", "DUPLICATE"} :
          Finish(c, Reply(kind, Absent)) /\ UNCHANGED ledgerVars
        BY <1>2, Replies DEF Close, DeductKnown, Forced
  <2> QED BY <1>1, <2>1, Replies, FinishTypes DEF HcmTypeOK, ledgerVars
<1>3. CASE Slow(c)
  <2>1. call' = [call EXCEPT ![c] = [call[c] EXCEPT !.stage = "SLOW"]]
        BY <1>3 DEF Slow, HcmTypeOK
  <2>2. [call[c] EXCEPT !.stage = "SLOW"] \in Handler
        BY <1>1 DEF Handler
  <2>3. call[c].behavior = "slow"
        BY <1>3 DEF Slow
  <2>4. /\ call' \in [Calls -> Handler]
        /\ \A d \in Calls : call'[d].stage = "SLOW" => call'[d].behavior = "slow"
        BY <1>1, <2>1, <2>2, <2>3 DEF HcmTypeOK, Handler
  <2> QED BY <1>3, <2>4, NoReplyType DEF Slow, HcmTypeOK
<1>4. CASE DeductUnknown(c)
  <2>1. ASSUME UNCHANGED ledgerVars, NEW kind \in {"NO_ANSWER", "REFUSED"},
               Finish(c, Reply(kind, Absent))
        PROVE  HcmTypeOK'
        BY <1>1, <2>1, Replies, FinishTypes DEF HcmTypeOK, ledgerVars
  <2>2. CASE /\ listed
             /\ Finish(c, Reply("OK", hcmUsed + daysRequested[call[c].ref]))
             /\ Book(call[c].ref, call[c].behavior = "silent_success")
    <3>1. /\ hcmTx' \in [Requests -> {"NONE", "APPLIED", "SILENT_FAILED", "REVERSED"}]
          /\ hcmUsed' \in Nat
          BY <1>1, <2>2 DEF Book, HcmTypeOK
    <3> QED BY <1>1, <2>2, <3>1, FinishTypes
  <2> QED BY <1>4, <2>1, <2>2, Replies DEF DeductUnknown
<1>5. CASE ReverseLedger(c)
  <2>1. ASSUME UNCHANGED ledgerVars, NEW kind \in {"REFUSED", "DUPLICATE"},
               Finish(c, Reply(kind, Absent))
        PROVE  HcmTypeOK'
        BY <1>1, <2>1, Replies, FinishTypes DEF HcmTypeOK, ledgerVars
  <2>2. CASE /\ hcmTx[call[c].ref] \in {"APPLIED", "SILENT_FAILED"}
             /\ Finish(c, Reply("OK", GivenBack(call[c].ref)))
             /\ hcmTx' = [hcmTx EXCEPT ![call[c].ref] = "REVERSED"]
             /\ hcmUsed' = GivenBack(call[c].ref)
    <3>1. GivenBack(call[c].ref) \in Nat
          BY <1>1 DEF GivenBack
    <3>2. listed
          BY <1>1, <2>2 DEF HcmTypeOK
    <3>3. hcmTx' \in [Requests -> {"NONE", "APPLIED", "SILENT_FAILED", "REVERSED"}]
          BY <2>2 DEF HcmTypeOK
    <3> QED BY <1>1, <2>2, <3>1, <3>2, <3>3, FinishTypes
  <2> QED BY <1>5, <2>1, <2>2 DEF ReverseLedger
<1> QED
    BY <1>2, <1>3, <1>4, <1>5 DEF Serve

LEMMA StepTypes == HcmTypeOK /\ [Next]_vars => HcmTypeOK'
<1>1. HcmTypeOK /\ UNCHANGED vars => HcmTypeOK'
      BY DEF vars, HcmTypeOK
<1> QED
    BY <1>1, ControlTypes, ArriveTypes, ServeTypes DEF Next

\* Every variable of the mock keeps its type under any rules and calls: used_days
\* stays a natural number through resets in mid-call and reversals of what a year
\* reset took away (hcm-reverse.controller.ts:127), and transactions are always
\* of a balance that is there.
THEOREM HcmTypeCorrect == Spec => []HcmTypeOK
BY InitTypes, StepTypes, PTL DEF Spec

(***************************************************************************)
(* Answers.                                                                *)
(***************************************************************************)
\* Whoever is answered in a step is the call that the step serves.
LEMMA AnsweredServes ==
  ASSUME HcmTypeOK, Next, NEW c \in Calls, Answered(c)
  PROVE  Close(c) \/ DeductKnown(c) \/ Forced(c) \/ DeductUnknown(c) \/ ReverseLedger(c)
<1>1. call'[c] # call[c] /\ call'[c].stage = "IDLE"
      BY DEF Answered
<1>2. PICK d \in Calls :
        \/ \E e \in Endpoint, r \in Requests : Arrive(d, e, r)
        \/ Serve(d)
      BY <1>1 DEF Next, setBehavior, setBalance, reset
<1>3. \A q \in Calls : q # d => call'[q] = call[q]
      BY <1>2 DEF HcmTypeOK, Arrive, Serve, Close, DeductKnown, Forced, Slow, DeductUnknown,
         ReverseLedger, Finish
<1>4. c = d
      BY <1>1, <1>3
<1>5. ASSUME NEW e \in Endpoint, NEW r \in Requests, Arrive(c, e, r)
      PROVE  FALSE
      BY <1>1, <1>5 DEF Arrive, HcmTypeOK
<1>6. ~Slow(c)
  <2>1. SUFFICES ASSUME Slow(c) PROVE FALSE
        OBVIOUS
  <2>2. call[c] \in Handler /\ call' = [call EXCEPT ![c] = [call[c] EXCEPT !.stage = "SLOW"]]
        BY <2>1 DEF Slow, HcmTypeOK
  <2> QED BY <1>1, <2>2 DEF HcmTypeOK, Handler
<1> QED
    BY <1>2, <1>4, <1>5, <1>6 DEF Serve

LEMMA ServedEffects ==
  ASSUME HcmTypeOK, NEW c \in Calls,
         Close(c) \/ DeductKnown(c) \/ Forced(c) \/ DeductUnknown(c) \/ ReverseLedger(c)
  PROVE  LET r == call[c].ref IN
         \/ answer'.kind # "OK" /\ UNCHANGED ledgerVars
         \/ hcmTx[r] = "NONE" /\ hcmTx'[r] = "APPLIED" /\ hcmUsed' = hcmUsed + daysRequested[r]
         \/ hcmTx[r] = "NONE" /\ hcmTx'[r] = "SILENT_FAILED" /\ UNCHANGED hcmUsed
         \/ hcmTx[r] = "APPLIED" /\ hcmTx'[r] = "REVERSED" /\ hcmUsed' = Restored(r)
         \/ hcmTx[r] = "SILENT_FAILED" /\ hcmTx'[r] = "REVERSED" /\ UNCHANGED hcmUsed
<1>1. call[c].ref \in Requests
      BY DEF HcmTypeOK, Handler
<1>2. CASE UNCHANGED ledgerVars /\ \E kind \in {"NO_ANSWER", "DUPLICATE", "REFUSED"} :
             answer' = Reply(kind, Absent)
      BY <1>2 DEF Reply
<1>3. CASE Close(c) \/ DeductKnown(c) \/ Forced(c)
      BY <1>2, <1>3, Replies DEF Close, DeductKnown, Forced, Finish
<1>4. CASE DeductUnknown(c)
  <2>1. CASE Insertable(call[c].ref) /\ Book(call[c].ref, call[c].behavior = "silent_success")
        BY <1>1, <2>1 DEF Insertable, Book, HcmTypeOK
  <2> QED BY <1>2, <1>4, <2>1, Replies DEF DeductUnknown, Finish
<1>5. CASE ReverseLedger(c)
  <2>1. CASE /\ hcmTx[call[c].ref] \in {"APPLIED", "SILENT_FAILED"}
             /\ hcmTx' = [hcmTx EXCEPT ![call[c].ref] = "REVERSED"]
             /\ hcmUsed' = GivenBack(call[c].ref)
        BY <1>1, <2>1 DEF GivenBack, HcmTypeOK
  <2> QED BY <1>2, <1>5, <2>1 DEF ReverseLedger, Finish
<1> QED
    BY <1>3, <1>4, <1>5

\* However many calls with one externalRef are in progress, and whichever sleep,
\* it is booked once and given back once, and only by a call that is answered 200
\* (hcm-transaction.entity.ts:13, hcm-deduct.controller.ts:144).
THEOREM EffectsOnce == Spec => EffectsHappenOnce
<1>1. HcmTypeOK /\ [Next]_vars
        => [\A c \in Calls : Answered(c) =>
              LET r == call[c].ref IN
              \/ answer'.kind # "OK" /\ UNCHANGED ledgerVars
              \/ hcmTx[r] = "NONE" /\ hcmTx'[r] = "APPLIED"
                 /\ hcmUsed' = hcmUsed + daysRequested[r]
              \/ hcmTx[r] = "NONE" /\ hcmTx'[r] = "SILENT_FAILED" /\ UNCHANGED hcmUsed
              \/ hcmTx[r] = "APPLIED" /\ hcmTx'[r] = "REVERSED" /\ hcmUsed' = Restored(r)
              \/ hcmTx[r] = "SILENT_FAILED" /\ hcmTx'[r] = "REVERSED" /\ UNCHANGED hcmUsed]_vars
      BY AnsweredServes, ServedEffects
<1> QED
    BY <1>1, HcmTypeCorrect, PTL DEF Spec, EffectsHappenOnce

\* A call that took no dishonest rule is answered as HcmLedger says.
LEMMA ServedContract ==
  ASSUME HcmTypeOK, NEW c \in Calls, listed, hcmTx[call[c].ref] # "SILENT_FAILED",
         call[c].behavior \in Dishonest
           => call[c].behavior = "409" /\ call[c].endpoint = "deduct",
         Close(c) \/ DeductKnown(c) \/ Forced(c) \/ DeductUnknown(c) \/ ReverseLedger(c)
  PROVE  \/ answer' = NoAnswer /\ UNCHANGED ledgerVars
         \/ call[c].endpoint = "deduct" /\ Deduct(call[c].ref, answer')
         \/ call[c].endpoint = "reverse" /\ Reverse(call[c].ref, answer')
<1>1. /\ call[c].ref \in Requests /\ call[c].behavior # "slow" /\ call[c].stage # "SLOW"
      /\ call[c].behavior \notin {"silent_success", "invalid_validation"}
      /\ call[c].endpoint \in {"deduct", "reverse"}
      BY DEF HcmTypeOK, Handler, Dishonest, Endpoint
<1>2. CASE Close(c)
      BY <1>2 DEF Close, Finish
<1>3. CASE DeductKnown(c)
      BY <1>3 DEF DeductKnown, InLatency, Finish, Deduct
<1>4. CASE Forced(c)
  <2>1. ~(call[c].behavior = "409" /\ call[c].endpoint = "reverse")
        BY DEF Dishonest
  <2> QED BY <1>4, <2>1 DEF Forced, Finish
<1>5. CASE DeductUnknown(c)
  <2>1. hcmTx[call[c].ref] = "NONE" /\ call[c].endpoint = "deduct"
        BY <1>1, <1>5 DEF DeductUnknown, Proceeds, Injects
  <2>2. Room(c) <=> daysRequested[call[c].ref] <= totalDays - hcmUsed
        BY <1>1 DEF Room
  <2>3. \/ /\ daysRequested[call[c].ref] > totalDays - hcmUsed
           /\ answer' = Reply("REFUSED", Absent)
           /\ UNCHANGED ledgerVars
        \/ /\ daysRequested[call[c].ref] <= totalDays - hcmUsed
           /\ answer' = Reply("OK", hcmUsed + daysRequested[call[c].ref])
           /\ hcmTx' = [hcmTx EXCEPT ![call[c].ref] = "APPLIED"]
           /\ hcmUsed' = hcmUsed + daysRequested[call[c].ref]
    <3>1. /\ daysRequested[call[c].ref] \in Int /\ totalDays \in Int /\ hcmUsed \in Int
          BY <1>1, DaysNat, LedgerAssumption DEF HcmTypeOK
    <3>2. CASE Room(c)
          BY <1>1, <1>5, <2>1, <2>2, <3>1, <3>2 DEF DeductUnknown, Insertable, Finish, Book
    <3>3. CASE ~Room(c)
      <4>1. answer' = Reply("REFUSED", Absent) /\ UNCHANGED ledgerVars
            BY <1>5, <3>3 DEF DeductUnknown, Finish
      <4> QED BY <2>2, <3>1, <3>3, <4>1
    <3> QED BY <3>2, <3>3
  <2> QED BY <2>1, <2>3 DEF Deduct
<1>6. CASE ReverseLedger(c)
      BY <1>6 DEF ReverseLedger, GivenBack, Finish, Reverse
<1> QED
    BY <1>2, <1>3, <1>4, <1>5, <1>6

\* The operators that OutboxProcessing takes for the HCM are what the mock does,
\* for every call that no dishonest rule is for (hcm-deduct.controller.ts:53,
\* hcm-reverse.controller.ts:66).
THEOREM ContractKept == Spec => AnswersKeepContract
<1>1. HcmTypeOK /\ [Next]_vars
        => [\A c \in Calls :
              LET r == call[c].ref
                  reply == answer' IN
              /\ Answered(c)
              /\ listed
              /\ hcmTx[r] # "SILENT_FAILED"
              /\ call[c].behavior \in Dishonest
                   => call[c].behavior = "409" /\ call[c].endpoint = "deduct"
              => \/ reply = NoAnswer /\ UNCHANGED ledgerVars
                 \/ call[c].endpoint = "deduct" /\ Deduct(r, reply)
                 \/ call[c].endpoint = "reverse" /\ Reverse(r, reply)]_vars
      BY AnsweredServes, ServedContract
<1> QED
    BY <1>1, HcmTypeCorrect, PTL DEF Spec, AnswersKeepContract

(***************************************************************************)
(* The balance.                                                            *)
(***************************************************************************)
LEMMA ServedWithin ==
  ASSUME HcmTypeOK, NEW c \in Calls, call[c].endpoint = "deduct",
         Close(c) \/ DeductKnown(c) \/ Forced(c) \/ DeductUnknown(c) \/ ReverseLedger(c)
  PROVE  \/ hcmUsed' = hcmUsed
         \/ hcmUsed' <= totalDays
         \/ call[c].behavior = "invalid_validation"
<1>1. /\ daysRequested[call[c].ref] \in Int
      /\ totalDays \in Int
      /\ hcmUsed \in Int
      BY DaysNat, LedgerAssumption DEF HcmTypeOK, Handler
<1>2. CASE Close(c) \/ DeductKnown(c) \/ Forced(c)
      BY <1>2 DEF Close, DeductKnown, Forced, ledgerVars
<1>3. CASE DeductUnknown(c)
  <2>1. CASE Room(c) /\ Book(call[c].ref, call[c].behavior = "silent_success")
        BY <1>1, <2>1 DEF Room, Book
  <2> QED BY <1>3, <2>1 DEF DeductUnknown, ledgerVars
<1> QED
    BY <1>2, <1>3 DEF ReverseLedger

\* No rule but invalid_validation makes the HCM book more than there is: a slow
\* call asks for room after its sleep (hcm-deduct.controller.ts:107).
THEOREM OverdrawsInvalid == Spec => OnlyInvalidOverdraws
<1>1. HcmTypeOK /\ HcmTypeOK' /\ [Next]_vars
        => [\A c \in Calls :
              Answered(c) /\ call[c].endpoint = "deduct" /\ hcmUsed' > totalDays
                => \/ hcmUsed' = hcmUsed
                   \/ call[c].behavior = "invalid_validation"]_vars
  <2>1. HcmTypeOK' /\ hcmUsed' <= totalDays => ~(hcmUsed' > totalDays)
        BY LedgerAssumption DEF HcmTypeOK
  <2> QED BY <2>1, AnsweredServes, ServedWithin
<1> QED
    BY <1>1, HcmTypeCorrect, PTL DEF Spec, OnlyInvalidOverdraws
=============================================================================
