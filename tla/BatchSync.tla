------------------------------ MODULE BatchSync ------------------------------
(***************************************************************************)
(* How the local copies of the HCM's balances are kept up to date: the     *)
(* hourly pull (batch-pull.worker.ts), the batches the HCM pushes          *)
(* (batch-sync.controller.ts), both applied by batch-sync.service.ts, and  *)
(* the real-time fetch of balance.service.ts.                              *)
(*                                                                         *)
(* A version of a balance (total and used days) is identified by the HCM's *)
(* last_updated_at, so that a record, a page or an answer says only which  *)
(* version of which balance it carries.  The HCM's clock is read off the   *)
(* last change.  Turns are atomic: SQLite's driver is synchronous, control *)
(* is given up at HTTP calls only, and a crash may fall anywhere.          *)
(***************************************************************************)
EXTENDS Integers, FiniteSets

CONSTANTS
    Balances,   \* the (employee, location, leave type) triples the HCM has
    PageSize,   \* records of a page; 500 in the code
    MaxClock,   \* bound: changes in the HCM
    MaxPushes,  \* bound: batches the HCM pushes
    Mishaps,    \* the kinds of mishap there may be
    MaxMishaps  \* bound: how many of them

\* What the code meets without making up for it: a pull that ends after some
\* of its pages (the HCM fails or the process dies), a snapshot that expires
\* between two pages, a record whose transaction fails, an answer to a
\* real-time fetch that other turns overtake.
MishapKinds == {"interrupted", "expired", "failed", "overtaken"}

ASSUME SyncAssumption ==
    /\ PageSize \in Nat \ {0}
    /\ MaxClock \in Nat
    /\ MaxPushes \in Nat
    /\ Mishaps \subseteq MishapKinds
    /\ MaxMishaps \in Nat

VARIABLES
    hcm,         \* hcm[b]: last_updated_at of b in the HCM
    clock,       \* the HCM's clock
    local,       \* local[b]: hcm_last_updated_at of b's row, or Never
    checkpoint,  \* sync_checkpoint.last_batch_at, or Never
    pull,        \* the pull in progress
    pushes,      \* batches the HCM has sent
    fetched,     \* answers to real-time fetches that are under way
    mishaps      \* mishaps so far

vars == <<hcm, clock, local, checkpoint, pull, pushes, fetched, mishaps>>

Never == -1
Stamp == Nat \cup {Never}

\* BatchRecord[]: the version of each balance in it, Never for one that is not.
Records == [Balances -> Stamp]
NoRecords == [b \in Balances |-> Never]
Within(records) == {b \in Balances : records[b] # Never}
Only(records, S) == [b \in Balances |-> IF b \in S THEN records[b] ELSE Never]

\* runBatchPull: "asked" and "answered" on either side of the HTTP answer;
\* rest is what the snapshot of this pull has after the present page, moved
\* whether a page of it was applied.
Pull == [pc : {"idle", "asked", "answered"}, since : Stamp, at : Stamp,
         page : Records, rest : Records, moved : BOOLEAN]
NoPull == [pc |-> "idle", since |-> Never, at |-> Never,
           page |-> NoRecords, rest |-> NoRecords, moved |-> FALSE]

Init ==
    /\ hcm = [b \in Balances |-> 0]
    /\ clock = 0
    /\ local = [b \in Balances |-> Never]
    /\ checkpoint = Never
    /\ pull = NoPull
    /\ pushes = {}
    /\ fetched = {}
    /\ mishaps = 0

Mishap(kind) ==
    /\ kind \in Mishaps
    /\ mishaps < MaxMishaps
    /\ mishaps' = mishaps + 1

-----------------------------------------------------------------------------
(* The HCM *)

\* A deduction, a reversal or HR's own change of balance b.
Change(b) ==
    /\ clock < MaxClock
    /\ clock' = clock + 1
    /\ hcm' = [hcm EXCEPT ![b] = clock']
    /\ UNCHANGED <<local, checkpoint, pull, pushes, fetched, mishaps>>

\* createSnapshot: everything changed after since, up to now.  Mutant: the first
\* change after it is left out.
SnapshotLate(since) ==
    [b \in Balances |-> IF hcm[b] > since + 1 THEN hcm[b] ELSE Never]
Snapshot(since) == [b \in Balances |-> IF hcm[b] > since THEN hcm[b] ELSE Never]

\* A page of what is left of a snapshot.
Pages(records) ==
    {S \in SUBSET Within(records) :
        Cardinality(S) = IF Cardinality(Within(records)) < PageSize
                         THEN Cardinality(Within(records)) ELSE PageSize}

\* The push job sends a batch of everything.  It may arrive late, after a
\* later one, again or never.
Push ==
    /\ Cardinality(pushes) < MaxPushes
    /\ pushes' = pushes \cup {[at |-> clock, records |-> Snapshot(Never)]}
    /\ UNCHANGED <<hcm, clock, local, checkpoint, pull, fetched, mishaps>>

-----------------------------------------------------------------------------
(* batch-sync.service.ts *)

\* applyOneRecord for each record but the failed ones: a row that is missing
\* is inserted, one that is as new or newer stays.  Mutants: without the
\* comparison; without the insertion.
AppliedUnchecked(records, failed) ==
    [b \in Balances |-> IF b \in Within(records) \ failed THEN records[b] ELSE local[b]]
AppliedToKnown(records, failed) ==
    [b \in Balances |-> IF b \notin failed /\ local[b] # Never /\ records[b] > local[b]
                        THEN records[b] ELSE local[b]]
Applied(records, failed) ==
    [b \in Balances |-> IF b \notin failed /\ records[b] > local[b]
                        THEN records[b] ELSE local[b]]

\* The batch's generatedAt becomes the checkpoint.  Mutant: the time at which
\* the batch is applied does.
CheckpointNow(at) == clock
Checkpoint(at) == at

\* Records that fail are counted and left behind.
FailedIn(records, failed) ==
    /\ failed \subseteq Within(records)
    /\ IF failed = {} THEN UNCHANGED mishaps ELSE Mishap("failed")

applyBatch(records, at) ==
    /\ \E failed \in SUBSET Within(records) :
           /\ FailedIn(records, failed)
           /\ local' = Applied(records, failed)
    /\ checkpoint' = Checkpoint(at)

\* POST /sync/batch/balances
Deliver(m) ==
    /\ applyBatch(m.records, m.at)
    /\ UNCHANGED <<hcm, clock, pull, pushes, fetched>>

-----------------------------------------------------------------------------
(* batch-pull.worker.ts *)

\* The checkpoint is read, the first page asked for.
StartPull ==
    /\ pull.pc = "idle"
    /\ pull' = [NoPull EXCEPT !.pc = "asked", !.since = checkpoint]
    /\ UNCHANGED <<hcm, clock, local, checkpoint, pushes, fetched, mishaps>>

\* The HCM freezes a snapshot and answers with its first page.  Nothing new:
\* the pull ends.
AnswerFirst ==
    /\ pull.pc = "asked" /\ ~pull.moved
    /\ LET all == Snapshot(pull.since) IN
       IF Within(all) = {}
       THEN pull' = NoPull
       ELSE \E S \in Pages(all) :
                pull' = [pull EXCEPT !.pc = "answered", !.at = clock,
                                     !.page = Only(all, S),
                                     !.rest = Only(all, Balances \ S)]
    /\ UNCHANGED <<hcm, clock, local, checkpoint, pushes, fetched, mishaps>>

\* The page after the cursor.
AnswerNext ==
    /\ pull.pc = "asked" /\ pull.moved
    /\ \E S \in Pages(pull.rest) :
           pull' = [pull EXCEPT !.pc = "answered",
                                !.page = Only(pull.rest, S),
                                !.rest = Only(pull.rest, Balances \ S)]
    /\ UNCHANGED <<hcm, clock, local, checkpoint, pushes, fetched, mishaps>>

\* getPage of a snapshot that was cleaned up: no record, no further page,
\* generated now.
AnswerExpired ==
    /\ pull.pc = "asked" /\ pull.moved
    /\ Mishap("expired")
    /\ pull' = [pull EXCEPT !.pc = "answered", !.at = clock,
                            !.page = NoRecords, !.rest = NoRecords]
    /\ UNCHANGED <<hcm, clock, local, checkpoint, pushes, fetched>>

\* A page is applied; the pull goes on while hasMore.
ApplyPage ==
    /\ pull.pc = "answered"
    /\ applyBatch(pull.page, pull.at)
    /\ pull' = IF Within(pull.rest) = {} THEN NoPull
               ELSE [pull EXCEPT !.pc = "asked", !.page = NoRecords, !.moved = TRUE]
    /\ UNCHANGED <<hcm, clock, pushes, fetched>>

\* A pull that ends early does so without consequences before its first page
\* was applied.
Interrupt == IF pull.moved THEN Mishap("interrupted") ELSE UNCHANGED mishaps

\* The call fails: the pull returns.  Mutant: it keeps its place.
LosePageKeepsPlace ==
    /\ pull.pc = "asked"
    /\ Interrupt
    /\ pull' = [pull EXCEPT !.pc = "idle"]
    /\ UNCHANGED <<hcm, clock, local, checkpoint, pushes, fetched>>
LosePage ==
    /\ pull.pc = "asked"
    /\ Interrupt
    /\ pull' = NoPull
    /\ UNCHANGED <<hcm, clock, local, checkpoint, pushes, fetched>>

\* The process dies during a pull, perhaps between two records of a page or
\* before the checkpoint.  Answers under way die with it.
Crash ==
    /\ pull.pc # "idle"
    /\ Interrupt
    /\ \E left \in SUBSET Within(pull.page) :
           local' = IF pull.pc = "answered" THEN Applied(pull.page, left) ELSE local
    /\ pull' = NoPull
    /\ fetched' = {}
    /\ UNCHANGED <<hcm, clock, checkpoint, pushes>>

-----------------------------------------------------------------------------
(* balance.service.ts, getOrFetchBalance *)

\* A fetch whose answer is applied before anything else happens, for a row that
\* is missing or older than five minutes, which it can be at any time.  The
\* answer is written whatever the row holds.
Fetch(b) ==
    /\ local' = [local EXCEPT ![b] = hcm[b]]
    /\ UNCHANGED <<hcm, clock, checkpoint, pull, pushes, fetched, mishaps>>

\* The HCM answers, and other turns come first.
FetchSlow(b) ==
    /\ Mishap("overtaken")
    /\ fetched' = fetched \cup {[balance |-> b, at |-> hcm[b]]}
    /\ UNCHANGED <<hcm, clock, local, checkpoint, pull, pushes>>

ApplyFetch(m) ==
    /\ local' = [local EXCEPT ![m.balance] = m.at]
    /\ fetched' = fetched \ {m}
    /\ UNCHANGED <<hcm, clock, checkpoint, pull, pushes, mishaps>>

-----------------------------------------------------------------------------
Next ==
    \/ \E b \in Balances : Change(b) \/ Fetch(b) \/ FetchSlow(b)
    \/ Push
    \/ \E m \in pushes : Deliver(m)
    \/ \E m \in fetched : ApplyFetch(m)
    \/ StartPull \/ AnswerFirst \/ AnswerNext \/ AnswerExpired
    \/ ApplyPage \/ LosePage \/ Crash

Spec == Init /\ [][Next]_vars

\* The cron job fires every hour, and neither the HCM's failures nor crashes
\* hit every pull there will ever be.
FairPulls ==
    /\ WF_vars(StartPull)
    /\ SF_vars(AnswerFirst) /\ SF_vars(AnswerNext)
    /\ SF_vars(ApplyPage)

FairSpec == Spec /\ FairPulls

=============================================================================
