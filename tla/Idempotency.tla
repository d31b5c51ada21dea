----------------------------- MODULE Idempotency -----------------------------
(***************************************************************************)
(* IdempotencyInterceptor and its table for one Idempotency-Key.  Several  *)
(* POSTs carry the key: retries, repeats, and other requests that reuse it *)
(* with another body.  The first to find no flight for the key becomes its *)
(* primary, those that come while it is in flight wait for it.             *)
(*                                                                         *)
(* The handler behind the interceptor may await the HCM and then commits   *)
(* one transaction, or fails and commits nothing; the model does not say   *)
(* which.  Every statement of the interceptor commits by itself.           *)
(***************************************************************************)
EXTENDS Naturals, FiniteSets

CONSTANTS
  Calls,        \* the POSTs that carry the key
  body,         \* body[c]: what c asks for, as stableJson orders it
  Nobody,
  KeyUnique,    \* does the handler's table have a UNIQUE idempotency_key?
  MaxCrashes    \* bound: crashes of the process in a behaviour

ASSUME CallAssumption ==
  /\ Nobody \notin Calls
  /\ KeyUnique \in BOOLEAN
  /\ MaxCrashes \in Nat

VARIABLES
  record,     \* the idempotency_record row of the key
  inFlight,   \* the entry of the key in the static inFlight map: its primary
  pc,         \* pc[c]: where call c stands
  waitsFor,   \* waitsFor[c]: the primary whose promise c awaits
  result,     \* result[c]: the execution that c's answer reports
  effects,    \* the calls whose execution of the handler committed
  crashes

vars == <<record, inFlight, pc, waitsFor, result, effects, crashes>>

\* Where a call stands.  run and rerun are inside the handler, as primary and
\* as a call that waited; ok, conflict (409), error and lost are the ends.
CallPc == {"new", "find", "claim", "run", "complete", "release",
           "wait", "resume", "rerun", "ok", "conflict", "error", "lost"}
Ended == {"ok", "conflict", "error", "lost"}

Status == {"ABSENT", "IN_PROGRESS", "COMPLETE"}

\* YOUNG below 60 s since created_at, STALE from there on, EXPIRED after 24 h.
Age == {"YOUNG", "STALE", "EXPIRED"}

\* by: whose claim it was; its request_body is body[by] and, when COMPLETE, its
\* response is that of by's execution.
Record == [status: Status, by: Calls \cup {Nobody}, age: Age]
NoRecord == [status |-> "ABSENT", by |-> Nobody, age |-> "YOUNG"]

Init ==
  /\ record = NoRecord
  /\ inFlight = Nobody
  /\ pc = [c \in Calls |-> "new"]
  /\ waitsFor = [c \in Calls |-> Nobody]
  /\ result = [c \in Calls |-> Nobody]
  /\ effects = {}
  /\ crashes = 0

\* Wrong variant: only a call that succeeds is finalized.
EndUnfinalized(c, how) ==
  IF how = "ok"
  THEN /\ inFlight' = IF inFlight = c THEN Nobody ELSE inFlight
       /\ pc' = [w \in Calls |-> IF w = c THEN how
                                 ELSE IF pc[w] = "wait" /\ waitsFor[w] = c THEN "resume"
                                 ELSE pc[w]]
  ELSE /\ UNCHANGED inFlight
       /\ pc' = [pc EXCEPT ![c] = how]

\* The call is over.  A primary's finalize takes the key out of the map and
\* wakes the calls that wait; nobody waits for any other call.
End(c, how) ==
  /\ inFlight' = IF inFlight = c THEN Nobody ELSE inFlight
  /\ pc' = [w \in Calls |-> IF w = c THEN how
                            ELSE IF pc[w] = "wait" /\ waitsFor[w] = c THEN "resume"
                            ELSE pc[w]]

Goto(c, where) == pc' = [pc EXCEPT ![c] = where] /\ UNCHANGED inFlight

(***************************************************************************)
(* intercept.                                                              *)
(***************************************************************************)
\* A turn of the event loop goes on until the calls it woke have their answer
\* or are inside the handler; only then the next POST comes in.
EventLoopFree ==
  \A c \in Calls : pc[c] \notin {"find", "claim", "complete", "release", "resume"}

BecomePrimary(c) ==
  /\ EventLoopFree
  /\ pc[c] = "new"
  /\ inFlight = Nobody
  /\ inFlight' = c
  /\ pc' = [pc EXCEPT ![c] = "find"]
  /\ UNCHANGED <<record, waitsFor, result, effects, crashes>>

AwaitPrimary(c) ==
  /\ EventLoopFree
  /\ pc[c] = "new"
  /\ inFlight # Nobody
  /\ waitsFor' = [waitsFor EXCEPT ![c] = inFlight]
  /\ Goto(c, "wait")
  /\ UNCHANGED <<record, result, effects, crashes>>

\* Wrong variant: the stored response is replayed whatever the body.
ReplayAnyBody(c) ==
  /\ pc[c] \in {"find", "resume"}
  /\ record.status = "COMPLETE"
  /\ result' = [result EXCEPT ![c] = record.by]
  /\ End(c, "ok")
  /\ UNCHANGED <<record, waitsFor, effects, crashes>>

\* Both the primary and a woken call first look for a stored response.
Replay(c) ==
  /\ pc[c] \in {"find", "resume"}
  /\ record.status = "COMPLETE"
  /\ body[record.by] = body[c]
  /\ result' = [result EXCEPT ![c] = record.by]
  /\ End(c, "ok")
  /\ UNCHANGED <<record, waitsFor, effects, crashes>>

Conflict(c) ==
  /\ pc[c] \in {"find", "resume"}
  /\ record.status = "COMPLETE"
  /\ body[record.by] # body[c]
  /\ End(c, "conflict")
  /\ UNCHANGED <<record, waitsFor, result, effects, crashes>>

\* Wrong variant: whatever is 60 s old is deleted, a response as well.
PrepareClaimAnyStatus(c) ==
  /\ pc[c] = "find"
  /\ record.status = "ABSENT" \/ record.age # "YOUNG"
  /\ record' = NoRecord
  /\ Goto(c, "claim")
  /\ UNCHANGED <<waitsFor, result, effects, crashes>>

\* There is no claim, or one of a process that died at least 60 s ago, which
\* is deleted.
PrepareClaim(c) ==
  /\ pc[c] = "find"
  /\ \/ record.status = "ABSENT"
     \/ record.status = "IN_PROGRESS" /\ record.age # "YOUNG"
  /\ record' = NoRecord
  /\ Goto(c, "claim")
  /\ UNCHANGED <<waitsFor, result, effects, crashes>>

\* insertInProgress meets the primary key of a younger claim and throws; the
\* claim is not this call's and stays.
ClaimRefused(c) ==
  /\ pc[c] = "find"
  /\ record.status = "IN_PROGRESS"
  /\ record.age = "YOUNG"
  /\ End(c, "error")
  /\ UNCHANGED <<record, waitsFor, result, effects, crashes>>

InsertClaim(c) ==
  /\ pc[c] = "claim"
  /\ record' = [status |-> "IN_PROGRESS", by |-> c, age |-> "YOUNG"]
  /\ Goto(c, "run")
  /\ UNCHANGED <<waitsFor, result, effects, crashes>>

\* A woken call that finds no response runs the handler, without a claim.
RunUnclaimed(c) ==
  /\ pc[c] = "resume"
  /\ record.status # "COMPLETE"
  /\ Goto(c, "rerun")
  /\ UNCHANGED <<record, waitsFor, result, effects, crashes>>

(***************************************************************************)
(* The handler and what the interceptor does with its outcome.             *)
(***************************************************************************)
Commit(c) ==
  /\ KeyUnique => effects = {}
  /\ effects' = effects \cup {c}
  /\ result' = [result EXCEPT ![c] = c]

HandlerCommits(c) ==
  /\ Commit(c)
  /\ \/ pc[c] = "run" /\ Goto(c, "complete")
     \/ pc[c] = "rerun" /\ End(c, "ok")
  /\ UNCHANGED <<record, waitsFor, crashes>>

HandlerFails(c) ==
  /\ \/ pc[c] = "run" /\ Goto(c, "release")
     \/ pc[c] = "rerun" /\ End(c, "error")
  /\ UNCHANGED <<record, waitsFor, result, effects, crashes>>

\* Wrong variant: a status the table does not know.
MarkDone(c) ==
  /\ pc[c] = "complete"
  /\ record' = [record EXCEPT !.status = "DONE"]
  /\ End(c, "ok")
  /\ UNCHANGED <<waitsFor, result, effects, crashes>>

MarkComplete(c) ==
  /\ pc[c] = "complete"
  /\ record' = IF record.status = "ABSENT" THEN record
               ELSE [record EXCEPT !.status = "COMPLETE"]
  /\ End(c, "ok")
  /\ UNCHANGED <<waitsFor, result, effects, crashes>>

\* Wrong variant: a failed call keeps its claim.
ReleaseForgotten(c) ==
  /\ pc[c] = "release"
  /\ End(c, "error")
  /\ UNCHANGED <<record, waitsFor, result, effects, crashes>>

ReleaseClaim(c) ==
  /\ pc[c] = "release"
  /\ record' = NoRecord
  /\ End(c, "error")
  /\ UNCHANGED <<waitsFor, result, effects, crashes>>

(***************************************************************************)
(* Time, the daily cleanup, crashes.                                       *)
(***************************************************************************)
\* No call takes a day.
Idle == \A c \in Calls : pc[c] \in Ended \cup {"new"}

GrowOld ==
  /\ record.status # "ABSENT"
  /\ \/ record.age = "YOUNG" /\ record' = [record EXCEPT !.age = "STALE"]
     \/ record.age = "STALE" /\ Idle /\ record' = [record EXCEPT !.age = "EXPIRED"]
  /\ UNCHANGED <<inFlight, pc, waitsFor, result, effects, crashes>>

\* IdempotencyCleanupJob deletes what is past expires_at, whatever its status.
\* Wrong variant: it deletes what is stale.
cleanupStale ==
  /\ record.status # "ABSENT"
  /\ record.age # "YOUNG"
  /\ record' = NoRecord
  /\ UNCHANGED <<inFlight, pc, waitsFor, result, effects, crashes>>

cleanup ==
  /\ record.status # "ABSENT"
  /\ record.age = "EXPIRED"
  /\ record' = NoRecord
  /\ UNCHANGED <<inFlight, pc, waitsFor, result, effects, crashes>>

Crash ==
  /\ crashes < MaxCrashes
  /\ crashes' = crashes + 1
  /\ inFlight' = Nobody
  /\ pc' = [c \in Calls |-> IF pc[c] \in Ended \cup {"new"} THEN pc[c] ELSE "lost"]
  /\ UNCHANGED <<record, waitsFor, result, effects>>

(***************************************************************************)
(* The specification.                                                      *)
(***************************************************************************)
Step(c) ==
  \/ Replay(c) \/ Conflict(c) \/ PrepareClaim(c) \/ ClaimRefused(c)
  \/ InsertClaim(c) \/ RunUnclaimed(c) \/ HandlerCommits(c) \/ HandlerFails(c)
  \/ MarkComplete(c) \/ ReleaseClaim(c)

Next ==
  \/ \E c \in Calls : BecomePrimary(c) \/ AwaitPrimary(c) \/ Step(c)
  \/ GrowOld \/ cleanup \/ Crash

Spec == Init /\ [][Next]_vars
=============================================================================
