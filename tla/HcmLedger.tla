----------------------------- MODULE HcmLedger -----------------------------
(***************************************************************************)
(* The HCM's side of the outbox protocol, as the repository's own HCM      *)
(* (apps/hcm-mock) implements it: one balance, and one transaction per     *)
(* externalRef.  The service uses the request id as externalRef, so the    *)
(* ledger is indexed by request.                                           *)
(***************************************************************************)
EXTENDS Integers

CONSTANTS
  Requests,        \* the requests the users may create
  daysRequested,   \* days of each request, fixed when it is created
  totalDays,       \* the entitlement, the same on both sides
  HrUsedDays,      \* most days HR booked in the HCM behind the service's back
  HcmFindsByRef    \* whether a reversal may name its deduction by externalRef

ASSUME LedgerAssumption ==
  /\ daysRequested \in [Requests -> Nat \ {0}]
  /\ totalDays \in Nat
  /\ HrUsedDays \in Nat
  /\ HcmFindsByRef \in BOOLEAN

VARIABLES
  hcmTx,     \* hcmTx[r]: status of the transaction with externalRef r
  hcmUsed    \* used_days of the HCM's balance

ledgerVars == <<hcmTx, hcmUsed>>

\* A body without newUsedDays: the 409 bodies have none.
Absent == -1

Reply(kind, used) == [kind |-> kind, used |-> used]

\* kind: NONE no call is out; SENT unanswered; OK 200; DUPLICATE 409;
\* REFUSED any other 4xx; NO_ANSWER timeout, network error or 5xx.
ReplyKind == {"NONE", "SENT", "OK", "DUPLICATE", "REFUSED", "NO_ANSWER"}
NoReply == Reply("NONE", Absent)
Sent == Reply("SENT", Absent)
NoAnswer == Reply("NO_ANSWER", Absent)

LedgerInit ==
  /\ hcmTx = [r \in Requests |-> "NONE"]
  /\ hcmUsed \in 0 .. HrUsedDays

LedgerTypeOK ==
  /\ hcmTx \in [Requests -> {"NONE", "APPLIED", "REVERSED"}]
  /\ hcmUsed \in Nat

\* Wrong variant: the externalRef is not looked up first.
DeductRepeatable(r, reply) ==
  \/ /\ daysRequested[r] > totalDays - hcmUsed
     /\ reply = Reply("REFUSED", Absent)
     /\ UNCHANGED ledgerVars
  \/ /\ daysRequested[r] <= totalDays - hcmUsed
     /\ hcmTx' = [hcmTx EXCEPT ![r] = "APPLIED"]
     /\ hcmUsed' = hcmUsed + daysRequested[r]
     /\ reply = Reply("OK", hcmUsed + daysRequested[r])

\* POST /deduct: a known externalRef is answered 409 whatever became of it,
\* before the balance is looked at.
Deduct(r, reply) ==
  \/ /\ hcmTx[r] # "NONE"
     /\ reply = Reply("DUPLICATE", Absent)
     /\ UNCHANGED ledgerVars
  \/ /\ hcmTx[r] = "NONE"
     /\ daysRequested[r] > totalDays - hcmUsed
     /\ reply = Reply("REFUSED", Absent)
     /\ UNCHANGED ledgerVars
  \/ /\ hcmTx[r] = "NONE"
     /\ daysRequested[r] <= totalDays - hcmUsed
     /\ hcmTx' = [hcmTx EXCEPT ![r] = "APPLIED"]
     /\ hcmUsed' = hcmUsed + daysRequested[r]
     /\ reply = Reply("OK", hcmUsed + daysRequested[r])

Restored(r) ==
  IF hcmUsed >= daysRequested[r] THEN hcmUsed - daysRequested[r] ELSE 0

\* POST /reverse: the deduction is looked up by the id it is given, which the
\* service fills with the externalRef; the mock's ids are its own, so it finds
\* nothing (HcmFindsByRef = FALSE).
Reverse(r, reply) ==
  \/ /\ ~HcmFindsByRef \/ hcmTx[r] = "NONE"
     /\ reply = Reply("REFUSED", Absent)
     /\ UNCHANGED ledgerVars
  \/ /\ HcmFindsByRef
     /\ hcmTx[r] = "REVERSED"
     /\ reply = Reply("DUPLICATE", Absent)
     /\ UNCHANGED ledgerVars
  \/ /\ HcmFindsByRef
     /\ hcmTx[r] = "APPLIED"
     /\ hcmTx' = [hcmTx EXCEPT ![r] = "REVERSED"]
     /\ hcmUsed' = Restored(r)
     /\ reply = Reply("OK", Restored(r))
=============================================================================
