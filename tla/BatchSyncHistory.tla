--------------------------- MODULE BatchSyncHistory ---------------------------
(***************************************************************************)
(* BatchSync with a history of what its mishaps cost: the balances whose   *)
(* present version one of them passed over.  The history restricts no      *)
(* step; it lets a property say what still holds of all other balances     *)
(* after any number of mishaps.                                            *)
(***************************************************************************)
EXTENDS BatchSyncProperties

VARIABLE behind

\* The batch leaves b older than its record: the record failed.
Unapplied(b, records) == local'[b] < records[b]

\* The step passes over b: a pull ends with b's record still to be applied; its
\* snapshot expires, and the end that it is given is dated after whatever changed
\* since; b's record fails; an answer that is older than the row is written.
PassesOver(b) ==
    \/ /\ pull.moved
       /\ LosePage \/ Crash
       /\ b \in Within(pull.page) \cup Within(pull.rest)
    \/ AnswerExpired /\ (b \in Within(pull.rest) \/ hcm[b] > pull.at)
    \/ ApplyPage /\ Unapplied(b, pull.page)
    \/ \E m \in pushes : Deliver(m) /\ Unapplied(b, m.records)
    \/ \E m \in fetched : ApplyFetch(m) /\ m.balance = b /\ m.at < local[b]

\* b's row is as the HCM has it, or b changes there: the next pull sees that.
Recovers(b) == local'[b] = hcm'[b] \/ hcm'[b] # hcm[b]

HistoryInit == Init /\ behind = {}

HistoryNext ==
    /\ Next
    /\ behind' = {b \in Balances : (b \in behind \/ PassesOver(b)) /\ ~Recovers(b)}

HistorySpec == HistoryInit /\ [][HistoryNext]_<<vars, behind>>

HistoryFairSpec == HistorySpec /\ FairPulls

\* A mishap costs the balances it passes over and no other: whatever else fails,
\* crashes, expires, is late or repeated, each of the others is up to date or will be
\* pulled.  And it costs them no longer than until their next change in the HCM, or
\* until a push or a read writes their present version.
OnlyPassedOverSkipped == \A b \in Balances \ behind : Covered(b)
=============================================================================
