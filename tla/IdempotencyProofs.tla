--------------------------- MODULE IdempotencyProofs ---------------------------
(***************************************************************************)
(* Proofs about Idempotency, for any set of calls with any bodies, any     *)
(* number of crashes, and whatever the handler does.                       *)
(*                                                                         *)
(* None of the properties is inductive alone.  What carries them is that a *)
(* call is the primary of its key from its first look at the table to its  *)
(* last statement there, so the claim it finds, inserts, completes or      *)
(* releases is nobody else's.                                              *)
(***************************************************************************)
EXTENDS IdempotencyProperties, TLAPS

\* The statements of a primary.
Primary(c) == pc[c] \in {"find", "claim", "run", "complete", "release"}

PrimaryInFlight == \A c \in Calls : Primary(c) => inFlight = c

ClaimAfterNone == \A c \in Calls : pc[c] = "claim" => record.status = "ABSENT"

\* A row has an owner among the calls, and an expired one is in nobody's hands.
RowOwned ==
  /\ record.status # "ABSENT" => record.by \in Calls
  /\ record.age = "EXPIRED" =>
       \A c \in Calls : pc[c] \notin {"run", "complete", "release"}

\* A stored response, an answer and a call about to store one are backed by an
\* execution that committed.
ResponsesBacked ==
  /\ record.status = "COMPLETE" => record.by \in effects
  /\ \A c \in Calls : pc[c] = "complete" => c \in effects /\ result[c] = c
  /\ \A c \in Calls : pc[c] = "ok" => result[c] \in effects /\ body[result[c]] = body[c]

OneEffect == \A c, d \in effects : c = d

Backed == ResponsesBacked /\ (KeyUnique => OneEffect)

Claims ==
  /\ IdemTypeOK
  /\ PrimaryInFlight
  /\ ClaimAfterNone
  /\ ClaimBeforeRun
  /\ ClaimHasOwner
  /\ RowOwned

\* End(c, how): the statement of c is over and it is no longer the primary; no
\* other call changes its place except from wait to resume.
LEMMA EndFacts ==
  ASSUME NEW c \in Calls, NEW how \in CallPc, IdemTypeOK, End(c, how)
  PROVE  /\ pc' \in [Calls -> CallPc]
         /\ inFlight' \in Calls \cup {Nobody}
         /\ pc'[c] = how
         /\ \A d \in Calls : d # c => pc'[d] = pc[d] \/ (pc[d] = "wait" /\ pc'[d] = "resume")
         /\ inFlight # c => inFlight' = inFlight
  BY DEF End, IdemTypeOK, CallPc

\* Goto(c, where) moves c alone.
LEMMA GotoFacts ==
  ASSUME NEW c \in Calls, NEW where \in CallPc, IdemTypeOK, Goto(c, where)
  PROVE  /\ pc' \in [Calls -> CallPc]
         /\ pc'[c] = where
         /\ \A d \in Calls : d # c => pc'[d] = pc[d]
         /\ inFlight' = inFlight
  BY DEF Goto, IdemTypeOK, CallPc

\* The initial state.
LEMMA InitClaims == Init => Claims
  BY CallAssumption DEF Init, Claims, IdemTypeOK, PrimaryInFlight, Primary, ClaimAfterNone,
     ClaimBeforeRun, ClaimHasOwner, RowOwned, NoRecord, Record, Status, Age, CallPc

\* No step disturbs the ownership of claims.
LEMMA StepClaims == Claims /\ [Next]_vars => Claims'
<1> SUFFICES ASSUME Claims, [Next]_vars PROVE Claims'
  OBVIOUS
<1> USE DEF Claims, PrimaryInFlight, Primary, ClaimAfterNone, ClaimBeforeRun, ClaimHasOwner, RowOwned
<1>a. Nobody \notin Calls /\ NoRecord \in Record /\ Record = [status: Status, by: Calls \cup {Nobody}, age: Age]
  BY CallAssumption DEF NoRecord, Record, Status, Age
<1> CallPc = {"new", "find", "claim", "run", "complete", "release",
           "wait", "resume", "rerun", "ok", "conflict", "error", "lost"}
  BY DEF CallPc
<1>1. ASSUME NEW c \in Calls, BecomePrimary(c) PROVE Claims'
  BY <1>1, <1>a DEF BecomePrimary, IdemTypeOK
<1>2. ASSUME NEW c \in Calls, AwaitPrimary(c) PROVE Claims'
  <2>1. Goto(c, "wait")
    BY <1>2 DEF AwaitPrimary
  <2>2. /\ pc' \in [Calls -> CallPc] /\ pc'[c] = "wait"
        /\ \A d \in Calls : d # c => pc'[d] = pc[d]
        /\ inFlight' = inFlight
    BY <2>1, GotoFacts
  <2>3. IdemTypeOK'
    BY <1>2, <2>2, <1>a DEF AwaitPrimary, IdemTypeOK, Record, Status, Age
  <2> QED
    BY <1>2, <2>2, <2>3, <1>a DEF AwaitPrimary, NoRecord, IdemTypeOK, Record
<1>3. ASSUME NEW c \in Calls, PrepareClaim(c) PROVE Claims'
  <2>1. Goto(c, "claim")
    BY <1>3 DEF PrepareClaim
  <2>2. /\ pc' \in [Calls -> CallPc] /\ pc'[c] = "claim"
        /\ \A d \in Calls : d # c => pc'[d] = pc[d]
        /\ inFlight' = inFlight
    BY <2>1, GotoFacts
  <2>3. IdemTypeOK'
    BY <1>3, <2>2, <1>a DEF PrepareClaim, IdemTypeOK, Record, Status, Age
  <2> QED
    BY <1>3, <2>2, <2>3, <1>a DEF PrepareClaim, NoRecord, IdemTypeOK, Record
<1>4. ASSUME NEW c \in Calls, InsertClaim(c) PROVE Claims'
  <2>1. Goto(c, "run")
    BY <1>4 DEF InsertClaim
  <2>2. /\ pc' \in [Calls -> CallPc] /\ pc'[c] = "run"
        /\ \A d \in Calls : d # c => pc'[d] = pc[d]
        /\ inFlight' = inFlight
    BY <2>1, GotoFacts
  <2>3. IdemTypeOK'
    BY <1>4, <2>2, <1>a DEF InsertClaim, IdemTypeOK, Record, Status, Age
  <2> QED
    BY <1>4, <2>2, <2>3, <1>a DEF InsertClaim, NoRecord, IdemTypeOK, Record
<1>5. ASSUME NEW c \in Calls, RunUnclaimed(c) PROVE Claims'
  <2>1. Goto(c, "rerun")
    BY <1>5 DEF RunUnclaimed
  <2>2. /\ pc' \in [Calls -> CallPc] /\ pc'[c] = "rerun"
        /\ \A d \in Calls : d # c => pc'[d] = pc[d]
        /\ inFlight' = inFlight
    BY <2>1, GotoFacts
  <2>3. IdemTypeOK'
    BY <1>5, <2>2, <1>a DEF RunUnclaimed, IdemTypeOK, Record, Status, Age
  <2> QED
    BY <1>5, <2>2, <2>3, <1>a DEF RunUnclaimed, NoRecord, IdemTypeOK, Record
<1>6. ASSUME NEW c \in Calls, Replay(c) PROVE Claims'
  <2>1. End(c, "ok")
    BY <1>6 DEF Replay
  <2>2. /\ pc' \in [Calls -> CallPc] /\ inFlight' \in Calls \cup {Nobody} /\ pc'[c] = "ok"
        /\ \A d \in Calls : d # c => pc'[d] = pc[d] \/ (pc[d] = "wait" /\ pc'[d] = "resume")
        /\ inFlight # c => inFlight' = inFlight
    BY <2>1, EndFacts
  <2>3. IdemTypeOK'
    BY <1>6, <2>2, <1>a DEF Replay, IdemTypeOK, Record, Status, Age
  <2> QED
    BY <1>6, <2>2, <2>3, <1>a DEF Replay, NoRecord, IdemTypeOK, Record
<1>7. ASSUME NEW c \in Calls, Conflict(c) PROVE Claims'
  <2>1. End(c, "conflict")
    BY <1>7 DEF Conflict
  <2>2. /\ pc' \in [Calls -> CallPc] /\ inFlight' \in Calls \cup {Nobody} /\ pc'[c] = "conflict"
        /\ \A d \in Calls : d # c => pc'[d] = pc[d] \/ (pc[d] = "wait" /\ pc'[d] = "resume")
        /\ inFlight # c => inFlight' = inFlight
    BY <2>1, EndFacts
  <2>3. IdemTypeOK'
    BY <1>7, <2>2, <1>a DEF Conflict, IdemTypeOK, Record, Status, Age
  <2> QED
    BY <1>7, <2>2, <2>3, <1>a DEF Conflict, NoRecord, IdemTypeOK, Record
<1>8. ASSUME NEW c \in Calls, ClaimRefused(c) PROVE Claims'
  <2>1. End(c, "error")
    BY <1>8 DEF ClaimRefused
  <2>2. /\ pc' \in [Calls -> CallPc] /\ inFlight' \in Calls \cup {Nobody} /\ pc'[c] = "error"
        /\ \A d \in Calls : d # c => pc'[d] = pc[d] \/ (pc[d] = "wait" /\ pc'[d] = "resume")
        /\ inFlight # c => inFlight' = inFlight
    BY <2>1, EndFacts
  <2>3. IdemTypeOK'
    BY <1>8, <2>2, <1>a DEF ClaimRefused, IdemTypeOK, Record, Status, Age
  <2> QED
    BY <1>8, <2>2, <2>3, <1>a DEF ClaimRefused, NoRecord, IdemTypeOK, Record
<1>9. ASSUME NEW c \in Calls, MarkComplete(c) PROVE Claims'
  <2>1. End(c, "ok")
    BY <1>9 DEF MarkComplete
  <2>2. /\ pc' \in [Calls -> CallPc] /\ inFlight' \in Calls \cup {Nobody} /\ pc'[c] = "ok"
        /\ \A d \in Calls : d # c => pc'[d] = pc[d] \/ (pc[d] = "wait" /\ pc'[d] = "resume")
        /\ inFlight # c => inFlight' = inFlight
    BY <2>1, EndFacts
  <2>3. IdemTypeOK'
    BY <1>9, <2>2, <1>a DEF MarkComplete, IdemTypeOK, Record, Status, Age
  <2> QED
    BY <1>9, <2>2, <2>3, <1>a DEF MarkComplete, NoRecord, IdemTypeOK, Record
<1>10. ASSUME NEW c \in Calls, ReleaseClaim(c) PROVE Claims'
  <2>1. End(c, "error")
    BY <1>10 DEF ReleaseClaim
  <2>2. /\ pc' \in [Calls -> CallPc] /\ inFlight' \in Calls \cup {Nobody} /\ pc'[c] = "error"
        /\ \A d \in Calls : d # c => pc'[d] = pc[d] \/ (pc[d] = "wait" /\ pc'[d] = "resume")
        /\ inFlight # c => inFlight' = inFlight
    BY <2>1, EndFacts
  <2>3. IdemTypeOK'
    BY <1>10, <2>2, <1>a DEF ReleaseClaim, IdemTypeOK, Record, Status, Age
  <2> QED
    BY <1>10, <2>2, <2>3, <1>a DEF ReleaseClaim, NoRecord, IdemTypeOK, Record
<1>11. ASSUME NEW c \in Calls, HandlerCommits(c) PROVE Claims'
  <2>1. CASE pc[c] = "run" /\ Goto(c, "complete")
    <3>1. /\ pc' \in [Calls -> CallPc] /\ pc'[c] = "complete"
          /\ \A d \in Calls : d # c => pc'[d] = pc[d]
          /\ inFlight' = inFlight
      BY <2>1, GotoFacts
    <3>2. IdemTypeOK'
      BY <1>11, <3>1 DEF HandlerCommits, Commit, IdemTypeOK
    <3> QED
      BY <1>11, <2>1, <3>1, <3>2 DEF HandlerCommits
  <2>2. CASE pc[c] = "rerun" /\ End(c, "ok")
    <3>1. /\ pc' \in [Calls -> CallPc] /\ inFlight' \in Calls \cup {Nobody} /\ pc'[c] = "ok"
          /\ \A d \in Calls : d # c => pc'[d] = pc[d] \/ (pc[d] = "wait" /\ pc'[d] = "resume")
          /\ inFlight # c => inFlight' = inFlight
      BY <2>2, EndFacts
    <3>2. IdemTypeOK'
      BY <1>11, <3>1 DEF HandlerCommits, Commit, IdemTypeOK
    <3> QED
      BY <1>11, <2>2, <3>1, <3>2 DEF HandlerCommits
  <2> QED
    BY <1>11, <2>1, <2>2 DEF HandlerCommits
<1>12. ASSUME NEW c \in Calls, HandlerFails(c) PROVE Claims'
  <2>1. CASE pc[c] = "run" /\ Goto(c, "release")
    <3>1. /\ pc' \in [Calls -> CallPc] /\ pc'[c] = "release"
          /\ \A d \in Calls : d # c => pc'[d] = pc[d]
          /\ inFlight' = inFlight
      BY <2>1, GotoFacts
    <3>2. IdemTypeOK'
      BY <1>12, <3>1 DEF HandlerFails, Commit, IdemTypeOK
    <3> QED
      BY <1>12, <2>1, <3>1, <3>2 DEF HandlerFails
  <2>2. CASE pc[c] = "rerun" /\ End(c, "error")
    <3>1. /\ pc' \in [Calls -> CallPc] /\ inFlight' \in Calls \cup {Nobody} /\ pc'[c] = "error"
          /\ \A d \in Calls : d # c => pc'[d] = pc[d] \/ (pc[d] = "wait" /\ pc'[d] = "resume")
          /\ inFlight # c => inFlight' = inFlight
      BY <2>2, EndFacts
    <3>2. IdemTypeOK'
      BY <1>12, <3>1 DEF HandlerFails, Commit, IdemTypeOK
    <3> QED
      BY <1>12, <2>2, <3>1, <3>2 DEF HandlerFails
  <2> QED
    BY <1>12, <2>1, <2>2 DEF HandlerFails
<1>13. ASSUME GrowOld PROVE Claims'
  BY <1>13, <1>a DEF GrowOld, Idle, Ended, NoRecord, IdemTypeOK, Record, Status, Age
<1>14. ASSUME cleanup PROVE Claims'
  BY <1>14, <1>a DEF cleanup, Idle, Ended, NoRecord, IdemTypeOK, Record, Status, Age
<1>15. ASSUME Crash PROVE Claims'
  BY <1>15, <1>a DEF Crash, Idle, Ended, NoRecord, IdemTypeOK, Record, Status, Age
<1>16. ASSUME UNCHANGED vars PROVE Claims'
  BY <1>16 DEF vars, IdemTypeOK
<1> QED
  BY <1>1, <1>2, <1>3, <1>4, <1>5, <1>6, <1>7, <1>8, <1>9, <1>10, <1>11, <1>12, <1>13, <1>14, <1>15, <1>16 DEF Next, Step

\* What is stored and answered stays backed.  The row a primary completes is
\* its own (ClaimBeforeRun), so the response stored there is of its execution.
LEMMA StepBacked == Claims /\ Backed /\ [Next]_vars => Backed'
<1> SUFFICES ASSUME Claims, Backed, [Next]_vars PROVE Backed'
  OBVIOUS
<1> USE DEF Backed, ResponsesBacked, OneEffect
<1>t. IdemTypeOK
  BY DEF Claims
<1> CallPc = {"new", "find", "claim", "run", "complete", "release",
           "wait", "resume", "rerun", "ok", "conflict", "error", "lost"}
  BY DEF CallPc
<1>1. ASSUME NEW c \in Calls, BecomePrimary(c) PROVE Backed'
  BY <1>1, <1>t DEF BecomePrimary, IdemTypeOK
<1>2. ASSUME NEW c \in Calls, AwaitPrimary(c) PROVE Backed'
  <2>1. Goto(c, "wait")
    BY <1>2 DEF AwaitPrimary
  <2>2. /\ pc' \in [Calls -> CallPc] /\ pc'[c] = "wait"
        /\ \A d \in Calls : d # c => pc'[d] = pc[d]
    BY <2>1, <1>t, GotoFacts
  <2> QED
    BY <1>2, <2>2 DEF AwaitPrimary, NoRecord
<1>3. ASSUME NEW c \in Calls, PrepareClaim(c) PROVE Backed'
  <2>1. Goto(c, "claim")
    BY <1>3 DEF PrepareClaim
  <2>2. /\ pc' \in [Calls -> CallPc] /\ pc'[c] = "claim"
        /\ \A d \in Calls : d # c => pc'[d] = pc[d]
    BY <2>1, <1>t, GotoFacts
  <2> QED
    BY <1>3, <2>2 DEF PrepareClaim, NoRecord
<1>4. ASSUME NEW c \in Calls, InsertClaim(c) PROVE Backed'
  <2>1. Goto(c, "run")
    BY <1>4 DEF InsertClaim
  <2>2. /\ pc' \in [Calls -> CallPc] /\ pc'[c] = "run"
        /\ \A d \in Calls : d # c => pc'[d] = pc[d]
    BY <2>1, <1>t, GotoFacts
  <2> QED
    BY <1>4, <2>2 DEF InsertClaim, NoRecord
<1>5. ASSUME NEW c \in Calls, RunUnclaimed(c) PROVE Backed'
  <2>1. Goto(c, "rerun")
    BY <1>5 DEF RunUnclaimed
  <2>2. /\ pc' \in [Calls -> CallPc] /\ pc'[c] = "rerun"
        /\ \A d \in Calls : d # c => pc'[d] = pc[d]
    BY <2>1, <1>t, GotoFacts
  <2> QED
    BY <1>5, <2>2 DEF RunUnclaimed, NoRecord
<1>6. ASSUME NEW c \in Calls, Replay(c) PROVE Backed'
  <2>1. End(c, "ok")
    BY <1>6 DEF Replay
  <2>2. /\ pc' \in [Calls -> CallPc] /\ pc'[c] = "ok"
        /\ \A d \in Calls : d # c => pc'[d] = pc[d] \/ (pc[d] = "wait" /\ pc'[d] = "resume")
    BY <2>1, <1>t, EndFacts
  <2> QED
    BY <1>6, <2>2, <1>t DEF Replay, NoRecord, Claims, IdemTypeOK, Record
<1>7. ASSUME NEW c \in Calls, Conflict(c) PROVE Backed'
  <2>1. End(c, "conflict")
    BY <1>7 DEF Conflict
  <2>2. /\ pc' \in [Calls -> CallPc] /\ pc'[c] = "conflict"
        /\ \A d \in Calls : d # c => pc'[d] = pc[d] \/ (pc[d] = "wait" /\ pc'[d] = "resume")
    BY <2>1, <1>t, EndFacts
  <2> QED
    BY <1>7, <2>2, <1>t DEF Conflict, NoRecord, Claims, IdemTypeOK
<1>8. ASSUME NEW c \in Calls, ClaimRefused(c) PROVE Backed'
  <2>1. End(c, "error")
    BY <1>8 DEF ClaimRefused
  <2>2. /\ pc' \in [Calls -> CallPc] /\ pc'[c] = "error"
        /\ \A d \in Calls : d # c => pc'[d] = pc[d] \/ (pc[d] = "wait" /\ pc'[d] = "resume")
    BY <2>1, <1>t, EndFacts
  <2> QED
    BY <1>8, <2>2, <1>t DEF ClaimRefused, NoRecord, Claims, IdemTypeOK
<1>9. ASSUME NEW c \in Calls, MarkComplete(c) PROVE Backed'
  <2>1. End(c, "ok")
    BY <1>9 DEF MarkComplete
  <2>2. /\ pc' \in [Calls -> CallPc] /\ pc'[c] = "ok"
        /\ \A d \in Calls : d # c => pc'[d] = pc[d] \/ (pc[d] = "wait" /\ pc'[d] = "resume")
    BY <2>1, <1>t, EndFacts
  <2> QED
    BY <1>9, <2>2, <1>t DEF MarkComplete, NoRecord, Claims, IdemTypeOK, ClaimBeforeRun, Record
<1>10. ASSUME NEW c \in Calls, ReleaseClaim(c) PROVE Backed'
  <2>1. End(c, "error")
    BY <1>10 DEF ReleaseClaim
  <2>2. /\ pc' \in [Calls -> CallPc] /\ pc'[c] = "error"
        /\ \A d \in Calls : d # c => pc'[d] = pc[d] \/ (pc[d] = "wait" /\ pc'[d] = "resume")
    BY <2>1, <1>t, EndFacts
  <2> QED
    BY <1>10, <2>2, <1>t DEF ReleaseClaim, NoRecord, Claims, IdemTypeOK
<1>11. ASSUME NEW c \in Calls, HandlerCommits(c) PROVE Backed'
  <2>1. CASE pc[c] = "run" /\ Goto(c, "complete")
    <3>1. /\ pc' \in [Calls -> CallPc] /\ pc'[c] = "complete"
          /\ \A d \in Calls : d # c => pc'[d] = pc[d]
      BY <2>1, <1>t, GotoFacts
    <3> QED
      BY <1>11, <2>1, <3>1, <1>t DEF HandlerCommits, Commit, IdemTypeOK
  <2>2. CASE pc[c] = "rerun" /\ End(c, "ok")
    <3>1. /\ pc' \in [Calls -> CallPc] /\ pc'[c] = "ok"
          /\ \A d \in Calls : d # c => pc'[d] = pc[d] \/ (pc[d] = "wait" /\ pc'[d] = "resume")
      BY <2>2, <1>t, EndFacts
    <3> QED
      BY <1>11, <2>2, <3>1, <1>t DEF HandlerCommits, Commit, IdemTypeOK
  <2> QED
    BY <1>11, <2>1, <2>2 DEF HandlerCommits
<1>12. ASSUME NEW c \in Calls, HandlerFails(c) PROVE Backed'
  <2>1. CASE pc[c] = "run" /\ Goto(c, "release")
    <3>1. /\ pc' \in [Calls -> CallPc] /\ pc'[c] = "release"
          /\ \A d \in Calls : d # c => pc'[d] = pc[d]
      BY <2>1, <1>t, GotoFacts
    <3> QED
      BY <1>12, <2>1, <3>1, <1>t DEF HandlerFails, IdemTypeOK
  <2>2. CASE pc[c] = "rerun" /\ End(c, "error")
    <3>1. /\ pc' \in [Calls -> CallPc] /\ pc'[c] = "error"
          /\ \A d \in Calls : d # c => pc'[d] = pc[d] \/ (pc[d] = "wait" /\ pc'[d] = "resume")
      BY <2>2, <1>t, EndFacts
    <3> QED
      BY <1>12, <2>2, <3>1, <1>t DEF HandlerFails, IdemTypeOK
  <2> QED
    BY <1>12, <2>1, <2>2 DEF HandlerFails
<1>13. ASSUME GrowOld PROVE Backed'
  BY <1>13, <1>t DEF GrowOld, Ended, NoRecord, IdemTypeOK, Record
<1>14. ASSUME cleanup PROVE Backed'
  BY <1>14, <1>t DEF cleanup, Ended, NoRecord, IdemTypeOK, Record
<1>15. ASSUME Crash PROVE Backed'
  BY <1>15, <1>t DEF Crash, Ended, NoRecord, IdemTypeOK, Record
<1>16. ASSUME UNCHANGED vars PROVE Backed'
  BY <1>16 DEF vars
<1> QED
  BY <1>1, <1>2, <1>3, <1>4, <1>5, <1>6, <1>7, <1>8, <1>9, <1>10, <1>11, <1>12, <1>13, <1>14, <1>15, <1>16 DEF Next, Step

\* A step changes or removes a stored response only when it has expired.
LEMMA StepFinal ==
  Claims /\ [Next]_vars =>
    (record.status = "COMPLETE" =>
       \/ record'.status = "COMPLETE" /\ record'.by = record.by
       \/ record.age = "EXPIRED")
<1> SUFFICES ASSUME Claims, [Next]_vars, record.status = "COMPLETE"
             PROVE  \/ record'.status = "COMPLETE" /\ record'.by = record.by
                    \/ record.age = "EXPIRED"
  OBVIOUS
<1> USE DEF Claims
<1>1. CASE UNCHANGED record
  BY <1>1
<1>2. ASSUME NEW c \in Calls, PrepareClaim(c) PROVE FALSE
  BY <1>2 DEF PrepareClaim
<1>3. ASSUME NEW c \in Calls, InsertClaim(c) PROVE FALSE
  BY <1>3 DEF InsertClaim, ClaimAfterNone
<1>4. ASSUME NEW c \in Calls, MarkComplete(c) \/ ReleaseClaim(c) PROVE FALSE
  BY <1>4 DEF MarkComplete, ReleaseClaim, ClaimBeforeRun
<1>5. CASE GrowOld
  BY <1>5 DEF GrowOld, IdemTypeOK, Record
<1>6. CASE cleanup
  BY <1>6 DEF cleanup
<1> QED
  BY <1>1, <1>2, <1>3, <1>4, <1>5, <1>6
  DEF Next, Step, vars, BecomePrimary, AwaitPrimary, Replay, Conflict, ClaimRefused,
      RunUnclaimed, HandlerCommits, HandlerFails, Crash

LEMMA ClaimsHold == Spec => []Claims
<1>1. Init => Claims
  BY InitClaims
<1>2. Claims /\ [Next]_vars => Claims'
  BY StepClaims
<1> QED
  BY <1>1, <1>2, PTL DEF Spec

\* Every variable of the interceptor always holds a value of its type.
THEOREM IdemTypeCorrect == Spec => []IdemTypeOK
<1>1. Claims => IdemTypeOK
  BY DEF Claims
<1> QED
  BY <1>1, ClaimsHold, PTL

\* A claim in the table belongs to the call in flight or to a process that
\* died: no path through the interceptor leaves its key claimed.
THEOREM ClaimsOwned == Spec => []ClaimHasOwner
<1>1. Claims => ClaimHasOwner
  BY DEF Claims
<1> QED
  BY <1>1, ClaimsHold, PTL

\* The handler runs as primary only under the call's own claim.
THEOREM ClaimsPrecede == Spec => []ClaimBeforeRun
<1>1. Claims => ClaimBeforeRun
  BY DEF Claims
<1> QED
  BY <1>1, ClaimsHold, PTL

\* With a UNIQUE key column under the handler, all calls answered with success
\* report one committed execution, asked for with their own body.
THEOREM AnswersAlwaysAgree == ASSUME KeyUnique PROVE Spec => []AnswersAgree
<1>1. Init => Claims /\ Backed
  <2>1. Init => Backed
    BY DEF Init, Backed, ResponsesBacked, OneEffect, NoRecord
  <2> QED
    BY <2>1, InitClaims
<1>2. (Claims /\ Backed) /\ [Next]_vars => (Claims /\ Backed)'
  BY StepClaims, StepBacked
<1>3. Claims /\ Backed => AnswersAgree
  BY DEF Backed, ResponsesBacked, OneEffect, AnswersAgree
<1> QED
  BY <1>1, <1>2, <1>3, PTL DEF Spec

\* No later call, failure or crash changes or removes a stored response.
THEOREM ResponsesFinal == Spec => ResponseIsFinal
<1>1. Claims /\ [Next]_vars =>
        [record.status = "COMPLETE" =>
           \/ record'.status = "COMPLETE" /\ record'.by = record.by
           \/ record.age = "EXPIRED"]_vars
  BY StepFinal
<1> QED
  BY <1>1, ClaimsHold, PTL DEF Spec, ResponseIsFinal
=============================================================================
