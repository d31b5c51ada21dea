---------------------------- MODULE OutboxHistory ----------------------------
(***************************************************************************)
(* OutboxProcessing with a history of the moments at which its polls get   *)
(* in each other's way.  The history restricts no step; it lets properties *)
(* say exactly what the code keeps, and since which moment it no longer    *)
(* does, in place of assumptions on clocks, loads or the number of polls.  *)
(***************************************************************************)
EXTENDS OutboxProperties

VARIABLES
  lapsed,     \* rows that a poll had waiting or in process and another may have
  counted,    \* counted[p]: what the HCM had booked when it gave p its figure
  overtaken,  \* was a request approved that is not in a figure still to come?
  torn        \* did a crash cut a turn where the balance and rows disagree?

historyVars == <<lapsed, counted, overtaken, torn>>

Booked == {r \in Requests : hcmTx[r] = "APPLIED"}

\* claimPending of p collects a row that another poll stamped in its millisecond.
StampShared(i) ==
  \E p, q \in Polls : p # q /\ StartPoll(p) /\ SameMillisecond /\ i \in stamped \cap Held(q)

\* A row that waits in a poll's batch gets old enough for the watchdog of another.
BatchOutlived(i) ==
  /\ Ripen(i)
  /\ \E p, q \in Polls : p # q /\ \E c \in poll[q].claimed : c.row = i

HasFigure(p) == poll[p].pc = "await" /\ poll[p].reply.kind = "OK"

\* p approves, and the figure that q is going to write leaves the request out.
Overtakes(p, q) == p # q /\ Approve(p) /\ HasFigure(q) /\ Req(p) \notin counted[q]

\* The process dies when a row has an attempt and its request does not show it, or
\* when the balance is settled and the request or the row is not.
TurnTorn == crashes' # crashes /\ \E p \in Polls : poll[p].pc \in {"load", "settle", "close"}

HistoryInit ==
  /\ Init
  /\ lapsed = {}
  /\ counted = [p \in Polls |-> {}]
  /\ overtaken = FALSE
  /\ torn = FALSE

HistoryNext ==
  /\ Next
  /\ lapsed' = lapsed \cup {i \in Rows : StampShared(i) \/ BatchOutlived(i)}
  /\ counted' = [p \in Polls |-> IF ~HasFigure(p)' THEN {}
                                 ELSE IF HasFigure(p) THEN counted[p] ELSE Booked']
  /\ overtaken' = (overtaken \/ \E p, q \in Polls : Overtakes(p, q))
  /\ torn' = (torn \/ TurnTorn)

HistorySpec == HistoryInit /\ [][HistoryNext]_<<vars, historyVars>>

HistoryFairSpec == HistorySpec /\ Fairness

(***************************************************************************)
(* Safety.                                                                 *)
(***************************************************************************)
\* Two polls have a row only after that row was collected by its millisecond or
\* outlived the watchdog in a batch: nothing else that claimPending, the watchdog,
\* retries, late answers and crashes do takes a row from a poll.
SharedOnlyByLapse ==
  \A p, q \in Polls : p # q => Held(p) \cap Held(q) \subseteq lapsed

\* A lapse is about its own row: every other row makes MAX_OUTBOX_ATTEMPTS calls
\* at most,
CallsBoundedButLapsed == \A i \in Rows \ lapsed : outbox[i].calls <= MAX_OUTBOX_ATTEMPTS

\* and once settled is never claimed or executed again.
SettledStayButLapsed ==
  [][\A i \in Rows \ lapsed : outbox[i].status \in {"DONE", "FAILED"} =>
       outbox'[i].status = outbox[i].status]_vars

\* A lapsed row may be settled twice, and a crash between the approval and the
\* closing of its row leaves a deduction that a cancellation does not expect: so far
\* there was neither.
Orderly == lapsed = {} /\ (~torn \/ cancels = 0)

\* Until then a request has one row at work: it is reversed after its deduction is
\* settled and never beside it, whatever polls, retries, late answers and crashes do,
OneRowInOrder == Orderly => OneActiveRow

\* and its row moves along the state machine, although transitions are checked
\* against a copy that was read before the await.
LifecycleInOrder == [][Orderly => [Lifecycle!Next]_request]_vars

\* Outside a turn pending_days is the sum over the requests in flight, through
\* overlapping polls, refusals, exhausted rows and crashes, as long as no row lapsed,
\* no crash tore a settlement and nothing was cancelled.
ReservedInOrder ==
  lapsed = {} /\ ~torn /\ cancels = 0 /\ EventLoopFree =>
    pending = DaysOf(InState({"SUBMITTED", "PENDING_HCM"}))

\* Any number of polls promise no day twice, whatever HR books and whichever calls
\* are lost, late, repeated or refused, and through crashes while calls are out,
\* as long as no row lapsed, no answer was overtaken by an approval, no crash tore
\* a settlement and nothing was cancelled.
NoOverbookingInOrder ==
  lapsed = {} /\ ~overtaken /\ ~torn /\ cancels = 0 => NoOverbooking
=============================================================================
