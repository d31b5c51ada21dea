------------------------- MODULE BatchSyncProperties -------------------------
(***************************************************************************)
(* What the sync paths promise of the local balances.                      *)
(***************************************************************************)
EXTENDS BatchSync

\* Every variable has its type, a pull that ended leaves nothing of itself to
\* the next (runBatchPull's locals), and one that waits has no page in hand.
SyncTypeOK ==
    /\ hcm \in [Balances -> Nat]
    /\ clock \in Nat
    /\ local \in Records
    /\ checkpoint \in Stamp
    /\ pull \in Pull
    /\ pull.pc = "idle" => pull = NoPull
    /\ pull.pc = "asked" => pull.page = NoRecords
    /\ \A m \in pushes : m.at \in Nat /\ m.records \in Records
    /\ \A m \in fetched : m.balance \in Balances /\ m.at \in Nat
    /\ mishaps \in 0..MaxMishaps

\* Balance b is up to date, or the next pull from the present checkpoint will
\* bring it, or the pull in progress still has it in hand.
Covered(b) ==
    \/ local[b] = hcm[b]
    \/ hcm[b] > checkpoint
    \/ pull.page[b] = hcm[b]
    \/ pull.rest[b] = hcm[b]

\* The checkpoint never passes a change that is not applied
\* (batch-sync.service.ts:47, docs/04-challenges-and-decisions.md:82): with
\* pushes that come late, twice or in the wrong order, failing HCM calls,
\* fetches in between and crashes inside the first page, until the first
\* mishap, no balance is left behind for good.
NothingSkipped == mishaps = 0 => \A b \in Balances : Covered(b)

\* The same with the mishaps the docs call harmless: "The incomplete batch
\* will be retried next interval" (docs/05-sync-strategy.md:170).
PullIsRetried == \A b \in Balances : Covered(b)

\* The sync paths together are a cache that only gets newer, but for the late
\* answers of real-time fetches: each of their steps, the crash in the middle of
\* a page included, is a step of CachedBalances or changes nothing there
\* (applyBatch, runBatchPull, getOrFetchBalance).
Cache == INSTANCE CachedBalances
           WITH source <- hcm, copy <- local, late <- fetched
CacheSpec == Cache!Spec

\* Without mishaps the hourly pull is the safety net it is meant to be
\* (docs/04-challenges-and-decisions.md:29): once the HCM stops changing, every
\* balance gets there to stay, though pushes are lost and pulls fail and crash.
CatchUp == [](mishaps = 0) => <>[](local = hcm)

=============================================================================
