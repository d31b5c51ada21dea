------------------------------ MODULE HcmMock ------------------------------
(***************************************************************************)
(* How apps/hcm-mock serves /deduct and /reverse under the chaos rules     *)
(* that /__control/behavior sets: the ledger of HcmLedger, and calls that  *)
(* are served side by side.  A handler gives up control where it sleeps:   *)
(* for its latency, before anything is looked up, and under "slow" once    *)
(* more, between the lookup of the externalRef and the booking.  Between   *)
(* two sleeps it runs alone (SQLite's driver is synchronous).              *)
(***************************************************************************)
EXTENDS HcmLedger

CONSTANTS
  Calls,        \* calls that may be in progress together
  Behaviors,    \* the behaviors a rule may have
  Counts,       \* the remaining_count a rule may be set with; < 0: for ever
  MaxRules      \* bound: rules that are set

Endpoint == {"deduct", "reverse"}

\* "none" is a call's behavior when no rule applies to it.
ASSUME MockAssumption ==
  /\ Requests # {}
  /\ Behaviors \subseteq {"timeout", "500", "409", "slow", "silent_success", "invalid_validation"}
  /\ Counts \subseteq Int
  /\ MaxRules \in Nat

VARIABLES
  listed,    \* whether the HCM has the balance at all
  chaos,     \* chaos[e]: the rule for endpoint e
  rules,     \* how many have been set
  call,      \* call[c]: the handler of call c
  answer     \* what a call is answered in this step

vars == <<hcmTx, hcmUsed, listed, chaos, rules, call, answer>>

Rule == [behavior : Behaviors \cup {"none"}, remaining : Int]
NoRule == [behavior |-> "none", remaining |-> 0]

\* stage: IDLE; LATENCY asleep before the handler looks at anything; SLOW asleep
\* again after the lookup.
Handler == [stage : {"IDLE", "LATENCY", "SLOW"}, endpoint : Endpoint, ref : Requests,
            behavior : Behaviors \cup {"none"}]
Idle == [stage |-> "IDLE", endpoint |-> "deduct", ref |-> CHOOSE r \in Requests : TRUE,
         behavior |-> "none"]

Init ==
  /\ hcmTx = [r \in Requests |-> "NONE"]
  /\ hcmUsed \in 0 .. HrUsedDays
  /\ listed = TRUE
  /\ chaos = [e \in Endpoint |-> NoRule]
  /\ rules = 0
  /\ call = [c \in Calls |-> Idle]
  /\ answer = NoReply

-----------------------------------------------------------------------------
(* /__control *)

\* setRule: the endpoint's earlier rule is forgotten with what it had left.
setBehavior(e, behavior, count) ==
  /\ rules < MaxRules
  /\ rules' = rules + 1
  /\ chaos' = [chaos EXCEPT ![e] = [behavior |-> behavior, remaining |-> count]]
  /\ answer' = NoReply
  /\ UNCHANGED <<hcmTx, hcmUsed, listed, call>>

\* setBalance, drift and the drift job: HR writes used_days.  total_days stays
\* as it is here.
setBalance(used) ==
  /\ listed' = TRUE
  /\ hcmUsed' = used
  /\ answer' = NoReply
  /\ UNCHANGED <<hcmTx, chaos, rules, call>>

\* Ledger, balances and rules go; the calls in progress do not.
reset ==
  /\ hcmTx' = [r \in Requests |-> "NONE"]
  /\ hcmUsed' = 0
  /\ listed' = FALSE
  /\ chaos' = [e \in Endpoint |-> NoRule]
  /\ answer' = NoReply
  /\ UNCHANGED <<rules, call>>

-----------------------------------------------------------------------------
(* chaos.service.ts *)

\* shouldApplyChaos: the rule's behavior, and what is left of it.  A rule set
\* with 0 is deleted unused, one below 0 never ends.
Applied(rule) == IF rule.remaining = 0 THEN "none" ELSE rule.behavior
Left(rule) ==
  IF rule.remaining < 0 THEN rule
  ELSE IF rule.remaining <= 1 THEN NoRule
  ELSE [rule EXCEPT !.remaining = @ - 1]

-----------------------------------------------------------------------------
(* The handlers *)

\* A call arrives and takes its rule.
Arrive(c, e, r) ==
  /\ call[c].stage = "IDLE"
  /\ chaos' = [chaos EXCEPT ![e] = Left(@)]
  /\ call' = [call EXCEPT ![c] = [stage |-> "LATENCY", endpoint |-> e, ref |-> r,
                                  behavior |-> Applied(chaos[e])]]
  /\ answer' = NoReply
  /\ UNCHANGED <<hcmTx, hcmUsed, listed, rules>>

Finish(c, reply) ==
  /\ call' = [call EXCEPT ![c] = Idle]
  /\ answer' = reply
  /\ UNCHANGED <<listed, chaos, rules>>

InLatency(c, e) == call[c].stage = "LATENCY" /\ call[c].endpoint = e

\* "timeout": the connection is closed after ten seconds, and nothing is done.
Close(c) ==
  /\ call[c].stage = "LATENCY"
  /\ call[c].behavior = "timeout"
  /\ Finish(c, NoAnswer)
  /\ UNCHANGED ledgerVars

\* D1.  Every rule but "timeout" comes after it.
DeductKnown(c) ==
  /\ InLatency(c, "deduct")
  /\ call[c].behavior # "timeout"
  /\ hcmTx[call[c].ref] # "NONE"
  /\ Finish(c, Reply("DUPLICATE", Absent))
  /\ UNCHANGED ledgerVars

\* Where injectBehavior is asked: a deduction whose externalRef is not known, a
\* reversal before anything is looked up.  Mutant: so is a deduction.
InjectsFirst(c) ==
  /\ call[c].stage = "LATENCY"
  /\ call[c].behavior # "timeout"
Injects(c) ==
  /\ call[c].stage = "LATENCY"
  /\ call[c].behavior # "timeout"
  /\ call[c].endpoint = "deduct" => hcmTx[call[c].ref] = "NONE"

Slow(c) ==
  /\ Injects(c)
  /\ call[c].behavior = "slow"
  /\ call' = [call EXCEPT ![c].stage = "SLOW"]
  /\ answer' = NoReply
  /\ UNCHANGED <<hcmTx, hcmUsed, listed, chaos, rules>>

\* A forced 409 is for reversals; a deduction goes on.
Forced(c) ==
  /\ Injects(c)
  /\ \/ call[c].behavior = "500" /\ Finish(c, NoAnswer)
     \/ /\ call[c].behavior = "409"
        /\ call[c].endpoint = "reverse"
        /\ Finish(c, Reply("DUPLICATE", Absent))
  /\ UNCHANGED ledgerVars

\* The handler gets as far as the balance and the ledger.  Mutant: a forced 409
\* stops a deduction too.
ProceedsUnlessForced(c) ==
  \/ call[c].stage = "SLOW"
  \/ Injects(c) /\ call[c].behavior \notin {"slow", "500", "409"}
Proceeds(c) ==
  \/ call[c].stage = "SLOW"
  \/ /\ Injects(c)
     /\ call[c].behavior \notin {"slow", "500"}
     /\ call[c].behavior = "409" => call[c].endpoint = "deduct"

\* D2: room for the days.  Mutant: never asked.
RoomUnasked(c) == TRUE
Room(c) ==
  \/ call[c].behavior = "invalid_validation"
  \/ daysRequested[call[c].ref] <= totalDays - hcmUsed

\* external_ref is UNIQUE: the transaction of a call that slept while its
\* externalRef was booked fails as a whole.  Mutant: it is not UNIQUE.
InsertableTwice(r) == TRUE
Insertable(r) == hcmTx[r] = "NONE"

\* D3.  The answer has the used_days the deduction makes or would make.
Book(r, silent) ==
  IF silent THEN hcmTx' = [hcmTx EXCEPT ![r] = "SILENT_FAILED"] /\ UNCHANGED hcmUsed
  ELSE /\ hcmTx' = [hcmTx EXCEPT ![r] = "APPLIED"]
       /\ hcmUsed' = hcmUsed + daysRequested[r]

DeductUnknown(c) ==
  /\ call[c].endpoint = "deduct"
  /\ Proceeds(c)
  /\ LET r == call[c].ref IN
     \/ /\ ~listed \/ ~Room(c)
        /\ Finish(c, Reply("REFUSED", Absent))
        /\ UNCHANGED ledgerVars
     \/ /\ listed /\ Room(c) /\ ~Insertable(r)
        /\ Finish(c, NoAnswer)
        /\ UNCHANGED ledgerVars
     \/ /\ listed /\ Room(c) /\ Insertable(r)
        /\ Finish(c, Reply("OK", hcmUsed + daysRequested[r]))
        /\ Book(r, call[c].behavior = "silent_success")

\* R3 and R4.  Mutant: without the clamp.
GivenBackUnclamped(r) ==
  IF hcmTx[r] = "SILENT_FAILED" THEN hcmUsed ELSE hcmUsed - daysRequested[r]
GivenBack(r) == IF hcmTx[r] = "SILENT_FAILED" THEN hcmUsed ELSE Restored(r)

ReverseLedger(c) ==
  /\ call[c].endpoint = "reverse"
  /\ Proceeds(c)
  /\ LET r == call[c].ref IN
     \/ /\ ~HcmFindsByRef \/ hcmTx[r] = "NONE"
        /\ Finish(c, Reply("REFUSED", Absent))
        /\ UNCHANGED ledgerVars
     \/ /\ HcmFindsByRef
        /\ hcmTx[r] = "REVERSED"
        /\ Finish(c, Reply("DUPLICATE", Absent))
        /\ UNCHANGED ledgerVars
     \/ /\ HcmFindsByRef
        /\ hcmTx[r] \in {"APPLIED", "SILENT_FAILED"}
        /\ Finish(c, Reply("OK", GivenBack(r)))
        /\ hcmTx' = [hcmTx EXCEPT ![r] = "REVERSED"]
        /\ hcmUsed' = GivenBack(r)

Serve(c) ==
  \/ Close(c) \/ DeductKnown(c) \/ Slow(c) \/ Forced(c)
  \/ DeductUnknown(c) \/ ReverseLedger(c)

Next ==
  \/ \E e \in Endpoint, behavior \in Behaviors, count \in Counts :
       setBehavior(e, behavior, count)
  \/ \E used \in 0 .. totalDays : setBalance(used)
  \/ reset
  \/ \E c \in Calls :
       \/ \E e \in Endpoint, r \in Requests : Arrive(c, e, r)
       \/ Serve(c)

\* A sleep ends.
Spec == Init /\ [][Next]_vars /\ \A c \in Calls : WF_vars(Serve(c))
=============================================================================
