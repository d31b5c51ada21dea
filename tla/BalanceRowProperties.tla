------------------------ MODULE BalanceRowProperties ------------------------
(***************************************************************************)
(* What the writers of a balance row keep true of it between them.         *)
(***************************************************************************)
EXTENDS BalanceRow

\* Every variable has its type, the row and every call carry a version that the
\* HCM has had, and a call that is out counts as an attempt.
RowTypeOK ==
  /\ history \in Seq(Figures)
  /\ Version \in Nat \ {0}
  /\ tx \in [Requests -> {"NONE", "APPLIED", "REVERSED"}]
  /\ row \in Row
  /\ row.at <= Version
  /\ request \in [Requests -> RequestState \cup {NotCreated}]
  /\ call \in [Requests -> Call]
  /\ \A r \in Requests : call[r].at <= Version
  /\ \A r \in Requests : call[r].kind = "OK" => call[r].at # 0
  /\ reversals \subseteq Requests
  /\ run \in [Runs -> Run]
  /\ \A u \in Runs : run[u].busy => run[u].since \in 1 .. Version
  /\ mishaps \in Nat

\* pending_days is the sum over the requests in flight (docs/02-data-model.md:21)
\* while batches recompute it, requests add to it and settlements take from it,
\* until the first cancellation of an approved request: batches count a request
\* that is CANCELLING and no other writer does.
PendingCountsInFlight ==
  reversals = {} => row.pending = daysOf[InState({"SUBMITTED", "PENDING_HCM"})]

\* The row counts every day that is promised: what createRequest's check needs,
\* whoever wrote the row last (time-off.service.ts:66).  A day approved is in
\* used_days and a day in flight in pending_days until the first mishap, through
\* repeated and reordered batches, slow reconciliations, lost answers that the
\* retry finds REFUSED, and crashes.
PromisedDaysAreCounted ==
  mishaps = 0 =>
    /\ row.used >= daysOf[InState({"APPROVED"})]
    /\ row.pending >= daysOf[InState({"SUBMITTED", "PENDING_HCM"})]

\* The row's total is the HCM's of the row's own timestamp, whichever batches,
\* fetches and corrections wrote it in whatever order, until a settlement dates
\* a total that it did not look at (outbox.processor.ts:187): from then on a
\* batch of that version is skipped and no correction is allowed.
NothingSettled == reversals = {} /\ InState({"APPROVED"}) = {}
TotalMatchesDate == NothingSettled /\ row.at # 0 => row.total = history[row.at].total

\* A run that has been answered with what its snapshot says logs no drift: the
\* days in flight are what the adjustment is for (docs/05-sync-strategy.md:210).
NoFalseDrift ==
  \A u \in Runs :
    /\ run[u].busy
    /\ run[u].snapshot.at = Version
    /\ run[u].snapshot.used = Present.used
    => UsedDrift(run[u].snapshot, Version) = 0

\* Whoever looks at a balance for ever gets an answer in the end, and nothing is
\* assumed of batches, corrections and settlements.
FairSpec == Spec /\ WF_vars(ApplyFetch(Version))

\* Reading repairs the row for good, whatever the other writers left in it: a
\* total dated too new, days counted twice after a 409, an old version.
ReadsHeal ==
  <>[](row.total = Present.total /\ row.used = Present.used)
=============================================================================
