------------------------- MODULE HcmMockProperties -------------------------
(***************************************************************************)
(* What the mock's answers are worth, and what its ledger keeps to under   *)
(* any rules and any calls side by side.                                   *)
(***************************************************************************)
EXTENDS HcmMock

Answered(c) == call[c].stage # "IDLE" /\ call'[c].stage = "IDLE"

\* Every variable has its type, a call that is SLOW was asked to be, and a ledger
\* that has transactions has the balance they are on.
HcmTypeOK ==
  /\ hcmTx \in [Requests -> {"NONE", "APPLIED", "SILENT_FAILED", "REVERSED"}]
  /\ hcmUsed \in Nat
  /\ listed \in BOOLEAN
  /\ chaos \in [Endpoint -> Rule]
  /\ call \in [Calls -> Handler]
  /\ \A c \in Calls : call[c].stage = "SLOW" => call[c].behavior = "slow"
  /\ rules \in Nat
  /\ answer \in [kind : ReplyKind, used : Int]
  /\ ~listed => \A r \in Requests : hcmTx[r] = "NONE"

\* A rule that makes the mock do or say something other than its ledger.
Dishonest == {"slow", "409", "silent_success", "invalid_validation"}

\* What OutboxProcessing takes the HCM for is what the mock is, call by call and
\* however many are in progress: an answer is HcmLedger's for the ledger as it is
\* when the answer is given, or none, with nothing done.  Excepted are calls under
\* a rule that is meant to break it, transactions that such a call left, balances
\* that the HCM does not have, and the calls that "slow" divides in two.  Calls under
\* no rule are not: none is answered 200 and not booked, where
\* docs/hcm-mock/01-api-spec.md:103 has 5% of them so.
AnswersKeepContract ==
  [][\A c \in Calls :
       LET r == call[c].ref
           reply == answer' IN
       /\ Answered(c)
       /\ listed
       /\ hcmTx[r] # "SILENT_FAILED"
       /\ call[c].behavior \in Dishonest => call[c].behavior = "409" /\ call[c].endpoint = "deduct"
       => \/ reply = NoAnswer /\ UNCHANGED ledgerVars
          \/ call[c].endpoint = "deduct" /\ Deduct(r, reply)
          \/ call[c].endpoint = "reverse" /\ Reverse(r, reply)]_vars

\* Under any rules, "slow" among them, an externalRef is booked once and given
\* back once, by what was booked, and an answer that is not 200 has done nothing:
\* what makes it safe to call again (hcm-deduct.controller.ts:83 and :144).
EffectsHappenOnce ==
  [][\A c \in Calls : Answered(c) =>
       LET r == call[c].ref IN
       \/ answer'.kind # "OK" /\ UNCHANGED ledgerVars
       \/ hcmTx[r] = "NONE" /\ hcmTx'[r] = "APPLIED" /\ hcmUsed' = hcmUsed + daysRequested[r]
       \/ hcmTx[r] = "NONE" /\ hcmTx'[r] = "SILENT_FAILED" /\ UNCHANGED hcmUsed
       \/ hcmTx[r] = "APPLIED" /\ hcmTx'[r] = "REVERSED" /\ hcmUsed' = Restored(r)
       \/ hcmTx[r] = "SILENT_FAILED" /\ hcmTx'[r] = "REVERSED" /\ UNCHANGED hcmUsed]_vars

\* No call books more than there is but one that is told to, though a slow call
\* finds another ledger after its sleep than before.
OnlyInvalidOverdraws ==
  [][\A c \in Calls :
       Answered(c) /\ call[c].endpoint = "deduct" /\ hcmUsed' > totalDays
         => \/ hcmUsed' = hcmUsed
            \/ call[c].behavior = "invalid_validation"]_vars

\* Every call ends, whatever rule it took and whatever is set or reset meanwhile.
EveryCallEnds == \A c \in Calls : call[c].stage # "IDLE" ~> call[c].stage = "IDLE"
=============================================================================
