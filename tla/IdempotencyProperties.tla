------------------------- MODULE IdempotencyProperties -------------------------
(***************************************************************************)
(* What the idempotency interceptor must and must not do.                  *)
(***************************************************************************)
EXTENDS Idempotency

\* Every variable holds a value of its type.
IdemTypeOK ==
  /\ record \in Record
  /\ inFlight \in Calls \cup {Nobody}
  /\ pc \in [Calls -> CallPc]
  /\ waitsFor \in [Calls -> Calls \cup {Nobody}]
  /\ result \in [Calls -> Calls \cup {Nobody}]
  /\ effects \subseteq Calls
  /\ crashes \in Nat

\* Calls answered with success report one and the same execution, which
\* committed, and which was asked for with the body the call itself carries:
\* a repeated key returns the same result without a second effect
\* (IdempotencyInterceptor over createRequest, whose key column is UNIQUE).
\* The last conjunct is what the interceptor does and docs/03-api-contracts.md:94 says;
\* docs/06-concurrency-and-idempotency.md:260 denies it: "The idempotency interceptor
\* does NOT compare bodies".
AnswersAgree ==
  \A c, d \in Calls :
    pc[c] = "ok" /\ pc[d] = "ok" =>
      result[c] = result[d] /\ result[c] \in effects /\ body[result[c]] = body[c]

\* A claim that is not yet COMPLETE belongs to the call in flight, or to a
\* process that died: no call ends and leaves its key claimed.
ClaimHasOwner ==
  record.status = "IN_PROGRESS" =>
    \/ inFlight = record.by /\ pc[record.by] \in {"run", "complete", "release"}
    \/ pc[record.by] = "lost"

\* The handler runs as primary only under this call's own claim.
ClaimBeforeRun ==
  \A c \in Calls : pc[c] \in {"run", "complete", "release"} =>
    record.status = "IN_PROGRESS" /\ record.by = c

\* A stored response is final: no later call, failure or crash changes or
\* removes it; only its expiry does.
ResponseIsFinal ==
  [][record.status = "COMPLETE" =>
       \/ record'.status = "COMPLETE" /\ record'.by = record.by
       \/ record.age = "EXPIRED"]_vars

\* Callbacks run and a handler returns or throws in the end (its HCM call is
\* cut off after 8 s).  Nothing is assumed of which it does, of new calls, of
\* the age of claims or of crashes.
IdemFairSpec == Spec /\ \A c \in Calls : WF_vars(Step(c))

\* Every call that got in is answered or dies with the process: no call waits
\* for ever for a primary that failed, was refused or found a conflict.
CallsEnd == \A c \in Calls : pc[c] # "new" ~> pc[c] \in Ended
=============================================================================
