--------------------------- MODULE BatchSyncProofs ---------------------------
(***************************************************************************)
(* Theorems about BatchSync, for any set of balances, page size and number *)
(* of changes, pushes, crashes and mishaps.                                *)
(***************************************************************************)
EXTENDS BatchSyncHistory, TLAPS

\* Nothing the service holds or that is under way is newer than the HCM.
Known(records) == \A b \in Balances : records[b] <= hcm[b]

NothingAhead ==
    /\ \A b \in Balances : hcm[b] <= clock
    /\ Known(local)
    /\ checkpoint <= clock /\ pull.since <= clock /\ pull.at <= clock
    /\ Known(pull.page) /\ Known(pull.rest)
    /\ \A m \in pushes : m.at <= clock /\ Known(m.records)
    /\ \A m \in fetched : m.at <= hcm[m.balance]

\* A batch has the present version of everything that did not change after it.
PushesComplete ==
    \A m \in pushes, b \in Balances : hcm[b] > m.at \/ m.records[b] = hcm[b]

\* A pull that starts from `at' misses nothing about b.
Reached(b, at) == local[b] = hcm[b] \/ hcm[b] > at

\* What the pull in progress owes to the checkpoint about b, at each of its stages.
OnTrack(b) ==
    /\ ~pull.moved => Reached(b, checkpoint)
    /\ (pull.pc = "asked" /\ ~pull.moved) => Reached(b, pull.since)
    /\ (pull.pc = "answered" \/ pull.moved) =>
           Reached(b, pull.at) \/ pull.page[b] = hcm[b] \/ pull.rest[b] = hcm[b]
    /\ Covered(b)

SyncInv == NothingAhead /\ PushesComplete

-----------------------------------------------------------------------------
(* Types *)

\* What is cut out of records is records.
LEMMA OnlyIsRecords ==
  ASSUME NEW r \in Records, NEW S PROVE Only(r, S) \in Records
  BY DEF Only, Records, Stamp

\* A batch that is applied leaves versions, and moves the checkpoint to a time.
LEMMA BatchTypes ==
  ASSUME SyncTypeOK, NEW r \in Records, NEW at \in Stamp, applyBatch(r, at)
  PROVE  local' \in Records /\ checkpoint' \in Stamp /\ mishaps' \in 0..MaxMishaps
<1>1. PICK failed \in SUBSET Within(r) : FailedIn(r, failed) /\ local' = Applied(r, failed)
  BY DEF applyBatch
<1>2. local' \in Records
  BY <1>1 DEF Applied, Records, Stamp, SyncTypeOK
<1>3. checkpoint' \in Stamp
  BY DEF applyBatch, Checkpoint
<1>4. mishaps' \in 0..MaxMishaps
  BY <1>1, SyncAssumption DEF FailedIn, Mishap, SyncTypeOK
<1> QED BY <1>2, <1>3, <1>4

\* Versions are numbers.
LEMMA StampsAreIntegers ==
  /\ \A t \in Stamp : t \in Int
  /\ \A r \in Records, b \in Balances : r[b] \in Int
  /\ SyncTypeOK => \A b \in Balances : hcm[b] \in Nat /\ local[b] \in Int
  BY DEF Stamp, Never, Records, SyncTypeOK

\* The empty pull is one, and says so.
LEMMA NoPullFacts ==
  /\ NoPull \in Pull
  /\ NoPull.pc = "idle" /\ ~NoPull.moved
  /\ NoPull.since = Never /\ NoPull.at = Never
  /\ NoPull.page = NoRecords /\ NoPull.rest = NoRecords
  BY DEF NoPull, Pull, NoRecords, Records, Stamp, Never

\* A pull that is handed a page stays a pull.
LEMMA AnswerTypes ==
  ASSUME SyncTypeOK, NEW at \in Stamp, NEW page \in Records, NEW rest \in Records,
         pull' = [pull EXCEPT !.pc = "answered", !.at = at, !.page = page, !.rest = rest]
  PROVE  pull' \in Pull /\ pull'.pc = "answered"
  BY DEF SyncTypeOK, Pull

\* Initially.
LEMMA InitTypes == Init => SyncTypeOK
  BY NoPullFacts, SyncAssumption DEF Init, SyncTypeOK, Records, Stamp, Never

\* Every step, one action after the other.
LEMMA StepTypes == SyncTypeOK /\ [Next]_vars => SyncTypeOK'
<1> SUFFICES ASSUME SyncTypeOK, [Next]_vars PROVE SyncTypeOK'
  OBVIOUS
<1> USE NoPullFacts, SyncAssumption
<1>1. ASSUME NEW b \in Balances, Change(b) PROVE SyncTypeOK'
  BY <1>1 DEF Change, SyncTypeOK
<1>2. ASSUME NEW b \in Balances, Fetch(b) PROVE SyncTypeOK'
  BY <1>2 DEF Fetch, SyncTypeOK, Records, Stamp
<1>3. ASSUME NEW b \in Balances, FetchSlow(b) PROVE SyncTypeOK'
  BY <1>3 DEF FetchSlow, Mishap, SyncTypeOK
<1>4. CASE Push
  <2>1. Snapshot(Never) \in Records
    BY DEF Snapshot, SyncTypeOK, Records, Stamp
  <2> QED BY <1>4, <2>1 DEF Push, SyncTypeOK
<1>5. ASSUME NEW m \in pushes, Deliver(m) PROVE SyncTypeOK'
  <2>1. local' \in Records /\ checkpoint' \in Stamp /\ mishaps' \in 0..MaxMishaps
    BY <1>5, BatchTypes DEF Deliver, SyncTypeOK, Stamp
  <2> QED BY <1>5, <2>1 DEF Deliver, SyncTypeOK
<1>6. ASSUME NEW m \in fetched, ApplyFetch(m) PROVE SyncTypeOK'
  BY <1>6 DEF ApplyFetch, SyncTypeOK, Records, Stamp
<1>7. CASE StartPull
  BY <1>7 DEF StartPull, SyncTypeOK, Pull
<1>8. CASE AnswerFirst
  <2>1. Snapshot(pull.since) \in Records
    BY DEF Snapshot, SyncTypeOK, Records, Stamp
  <2>2. \A S : Only(Snapshot(pull.since), S) \in Records
    BY <2>1, OnlyIsRecords
  <2>3. \/ pull' = NoPull
        \/ \E S \in Pages(Snapshot(pull.since)) :
             pull' = [pull EXCEPT !.pc = "answered", !.at = clock,
                                  !.page = Only(Snapshot(pull.since), S),
                                  !.rest = Only(Snapshot(pull.since), Balances \ S)]
    BY <1>8 DEF AnswerFirst
  <2>4. clock \in Stamp
    BY DEF SyncTypeOK, Stamp
  <2>5. pull' \in Pull /\ (pull'.pc = "idle" => pull' = NoPull)
       /\ (pull'.pc = "asked" => pull'.page = NoRecords)
    <3>1. CASE pull' = NoPull
      BY <3>1
    <3>2. CASE pull' # NoPull
      <4>1. pull' \in Pull /\ pull'.pc = "answered"
        BY <2>2, <2>3, <2>4, <3>2, AnswerTypes
      <4> QED BY <4>1
    <3> QED BY <3>1, <3>2
  <2> QED BY <1>8, <2>5 DEF AnswerFirst, SyncTypeOK
<1>9. CASE AnswerNext
  <2>1. \A S : Only(pull.rest, S) \in Records
    BY OnlyIsRecords DEF SyncTypeOK, Pull
  <2>2. PICK S \in Pages(pull.rest) :
            pull' = [pull EXCEPT !.pc = "answered", !.page = Only(pull.rest, S),
                                 !.rest = Only(pull.rest, Balances \ S)]
    BY <1>9 DEF AnswerNext
  <2>3. pull' \in Pull /\ pull'.pc = "answered"
    BY <2>1, <2>2 DEF SyncTypeOK, Pull
  <2> QED BY <1>9, <2>3 DEF AnswerNext, SyncTypeOK
<1>10. CASE AnswerExpired
  <2>1. pull' \in Pull /\ (pull'.pc = "idle" => pull' = NoPull)
       /\ (pull'.pc = "asked" => pull'.page = NoRecords)
    BY <1>10 DEF AnswerExpired, SyncTypeOK, Pull, Stamp
  <2> QED BY <1>10, <2>1 DEF AnswerExpired, Mishap, SyncTypeOK
<1>11. CASE ApplyPage
  <2>1. local' \in Records /\ checkpoint' \in Stamp /\ mishaps' \in 0..MaxMishaps
    BY <1>11, BatchTypes DEF ApplyPage, SyncTypeOK, Pull
  <2>2. pull' \in Pull /\ (pull'.pc = "idle" => pull' = NoPull)
       /\ (pull'.pc = "asked" => pull'.page = NoRecords)
    BY <1>11 DEF ApplyPage, SyncTypeOK, Pull
  <2> QED BY <1>11, <2>1, <2>2 DEF ApplyPage, SyncTypeOK
<1>12. CASE LosePage
  BY <1>12 DEF LosePage, Interrupt, Mishap, SyncTypeOK
<1>13. CASE Crash
  <2>1. local' \in Records
    BY <1>13 DEF Crash, Applied, SyncTypeOK, Pull, Records, Stamp
  <2>2. mishaps' \in 0..MaxMishaps
    BY <1>13 DEF Crash, Interrupt, Mishap, SyncTypeOK
  <2> QED BY <1>13, <2>1, <2>2 DEF Crash, SyncTypeOK
<1>14. CASE UNCHANGED vars
  BY <1>14 DEF vars, SyncTypeOK
<1> QED
  BY <1>1, <1>2, <1>3, <1>4, <1>5, <1>6, <1>7, <1>8, <1>9, <1>10, <1>11, <1>12,
     <1>13, <1>14 DEF Next

\* The types of the sync state, in every behaviour.
THEOREM SyncTypeCorrect == Spec => []SyncTypeOK
  BY InitTypes, StepTypes, PTL DEF Spec

-----------------------------------------------------------------------------
(* Nothing is skipped *)

\* Applying a batch never leaves the HCM behind, never undoes an up-to-date
\* row, and brings up to date what the batch has at its present version.
LEMMA BatchFacts ==
  ASSUME SyncTypeOK, NEW r \in Records, NEW at, Known(r), Known(local),
         applyBatch(r, at), hcm' = hcm
  PROVE  /\ Known(local)' /\ checkpoint' = at
         /\ \A b \in Balances : local[b] = hcm[b] => local'[b] = hcm[b]
         /\ \A b \in Balances : r[b] = hcm[b] => local'[b] = hcm[b] \/ local'[b] < r[b]
<1>1. PICK failed \in SUBSET Within(r) : FailedIn(r, failed) /\ local' = Applied(r, failed)
  BY DEF applyBatch
<1>2. checkpoint' = at
  BY DEF applyBatch, Checkpoint
<1>3. Stamp \subseteq Int /\ hcm \in [Balances -> Int] /\ local \in [Balances -> Int] /\ r \in [Balances -> Int]
  BY DEF Stamp, Never, SyncTypeOK, Records
<1>4. \A b \in Balances : /\ local'[b] <= hcm[b]
                          /\ local[b] = hcm[b] => local'[b] = hcm[b]
                          /\ r[b] = hcm[b] => local'[b] = hcm[b] \/ local'[b] < r[b]
  BY <1>1, <1>3 DEF Applied, Known
<1> QED BY <1>2, <1>4 DEF Known

\* Initially.
LEMMA InitSync == Init => SyncInv /\ \A b \in Balances : OnTrack(b)
  BY NoPullFacts DEF Init, SyncInv, NothingAhead, Known, PushesComplete, OnTrack, Reached,
     Covered, NoRecords, Never

\* No step makes anything newer than the HCM.
LEMMA StepAhead == SyncTypeOK /\ SyncTypeOK' /\ NothingAhead /\ [Next]_vars => NothingAhead'
<1> SUFFICES ASSUME SyncTypeOK, SyncTypeOK', NothingAhead, [Next]_vars PROVE NothingAhead'
  OBVIOUS
<1> USE NoPullFacts
<1>a. /\ Stamp \subseteq Int /\ Never = -1
      /\ Records = [Balances -> Stamp] /\ NoRecords \in Records
      /\ \A b \in Balances : NoRecords[b] = -1
      /\ \A r \in Records, b \in Balances : r[b] \in Int
  BY StampsAreIntegers DEF Stamp, Never, Records, NoRecords
<1>b. /\ hcm \in [Balances -> Nat] /\ clock \in Nat /\ local \in Records
      /\ pull.page \in Records /\ pull.rest \in Records
      /\ pull.since \in Stamp /\ pull.at \in Stamp /\ checkpoint \in Stamp
  BY DEF SyncTypeOK, Pull
<1>i. /\ \A b \in Balances : hcm[b] \in Nat /\ local[b] \in Int
      /\ pull.since \in Int /\ pull.at \in Int /\ checkpoint \in Int
      /\ \A m \in pushes : m.at \in Nat /\ m.records \in Records
      /\ \A m \in fetched : m.balance \in Balances /\ m.at \in Nat
  BY <1>b, StampsAreIntegers DEF SyncTypeOK
<1>c. \A r \in Records : \A S : Known(r) => Known(Only(r, S))
  BY <1>a, <1>b DEF Known, Only
<1>d. \A since : Snapshot(since) \in Records /\ Known(Snapshot(since))
  BY <1>a, <1>b DEF Known, Snapshot, Stamp
<1>e. Known(NoRecords)
  BY <1>a, <1>b DEF Known
<1>1. ASSUME NEW b \in Balances, Change(b) PROVE NothingAhead'
  <2>1. clock' = clock + 1 /\ \A c \in Balances : hcm'[c] = IF c = b THEN clock + 1 ELSE hcm[c]
    BY <1>1, <1>b DEF Change
  <2>2. \A c \in Balances : hcm[c] <= hcm'[c] /\ hcm'[c] <= clock'
    BY <2>1, <1>b DEF NothingAhead
  <2>i. \A c \in Balances : hcm'[c] \in Nat
    BY <2>1, <1>b
  <2>3. \A r \in Records : Known(r) => Known(r)'
    BY <2>2, <2>i, <1>a, <1>i DEF Known
  <2>4. /\ checkpoint <= clock' /\ pull.since <= clock' /\ pull.at <= clock'
        /\ \A m \in pushes : m.at <= clock'
        /\ \A m \in fetched : m.at <= hcm'[m.balance]
    BY <2>1, <2>2, <2>i, <1>b, <1>i DEF NothingAhead
  <2>5. /\ Known(local)' /\ Known(pull.page)' /\ Known(pull.rest)'
        /\ \A m \in pushes : Known(m.records)'
    BY <1>1, <2>3, <1>b, <1>i DEF Change, NothingAhead, Known
  <2> QED BY <1>1, <2>2, <2>4, <2>5 DEF Change, NothingAhead, Known
<1>2. ASSUME NEW b \in Balances, Fetch(b) PROVE NothingAhead'
  BY <1>2, <1>a, <1>b DEF Fetch, NothingAhead, Known
<1>3. ASSUME NEW b \in Balances, FetchSlow(b) PROVE NothingAhead'
  BY <1>3, <1>i DEF FetchSlow, NothingAhead, Known
<1>4. CASE Push
  BY <1>4, <1>b, <1>d DEF Push, NothingAhead, Known
<1>5. ASSUME NEW m \in pushes, Deliver(m) PROVE NothingAhead'
  <2>1. m.records \in Records /\ Known(m.records) /\ m.at <= clock
    BY DEF SyncTypeOK, NothingAhead
  <2>2. Known(local)' /\ checkpoint' = m.at
    BY <1>5, <2>1, BatchFacts DEF Deliver, NothingAhead
  <2> QED BY <1>5, <2>1, <2>2 DEF Deliver, NothingAhead, Known
<1>6. ASSUME NEW m \in fetched, ApplyFetch(m) PROVE NothingAhead'
  BY <1>6, <1>a, <1>b DEF ApplyFetch, NothingAhead, Known
<1>7. CASE StartPull
  BY <1>7, <1>a, <1>b, <1>e DEF StartPull, NothingAhead, Known
<1>8. CASE AnswerFirst
  <2>0. UNCHANGED <<hcm, clock, local, checkpoint, pushes, fetched>>
    BY <1>8 DEF AnswerFirst
  <2>i. clock \in Nat
    BY <1>b
  <2>1. CASE pull' = NoPull
    BY <2>0, <2>1, <2>i, <1>a, <1>e DEF NothingAhead, Known
  <2>2. CASE pull' # NoPull
    <3>1. PICK S \in Pages(Snapshot(pull.since)) :
            pull' = [pull EXCEPT !.pc = "answered", !.at = clock,
                                 !.page = Only(Snapshot(pull.since), S),
                                 !.rest = Only(Snapshot(pull.since), Balances \ S)]
      BY <1>8, <2>2 DEF AnswerFirst
    <3>2. /\ pull'.since = pull.since /\ pull'.at = clock
          /\ pull'.page = Only(Snapshot(pull.since), S)
          /\ pull'.rest = Only(Snapshot(pull.since), Balances \ S)
      BY <3>1 DEF SyncTypeOK, Pull
    <3>3. Known(pull'.page) /\ Known(pull'.rest)
      BY <3>2, <1>c, <1>d
    <3>4. Known(pull.page)' /\ Known(pull.rest)'
      BY <2>0, <3>3 DEF Known
    <3>5. pull'.since <= clock' /\ pull'.at <= clock'
      BY <2>0, <2>i, <3>2 DEF NothingAhead
    <3>6. /\ \A b \in Balances : hcm'[b] <= clock'
          /\ Known(local)' /\ checkpoint' <= clock'
          /\ \A m \in pushes' : m.at <= clock' /\ Known(m.records)'
          /\ \A m \in fetched' : m.at <= hcm'[m.balance]
      BY <2>0 DEF NothingAhead, Known
    <3> QED BY <3>4, <3>5, <3>6 DEF NothingAhead
  <2> QED BY <2>1, <2>2
<1>9. CASE AnswerNext
  <2>1. /\ pull'.since = pull.since /\ pull'.at = pull.at
        /\ Known(pull'.page) /\ Known(pull'.rest)
    BY <1>9, <1>b, <1>c DEF AnswerNext, NothingAhead, SyncTypeOK, Pull
  <2> QED BY <1>9, <2>1 DEF AnswerNext, NothingAhead, Known
<1>10. CASE AnswerExpired
  <2>1. /\ pull'.since = pull.since /\ pull'.at = clock
        /\ pull'.page = NoRecords /\ pull'.rest = NoRecords
    BY <1>10 DEF AnswerExpired, SyncTypeOK, Pull
  <2> QED BY <1>10, <2>1, <1>b, <1>e DEF AnswerExpired, NothingAhead, Known
<1>11. CASE ApplyPage
  <2>1. Known(local)' /\ checkpoint' = pull.at
    BY <1>11, <1>b, BatchFacts DEF ApplyPage, NothingAhead
  <2>2. \/ pull' = NoPull
        \/ /\ pull'.since = pull.since /\ pull'.at = pull.at
           /\ pull'.page = NoRecords /\ pull'.rest = pull.rest
    BY <1>11 DEF ApplyPage, SyncTypeOK, Pull
  <2> QED BY <1>11, <2>1, <2>2, <1>a, <1>b, <1>e DEF ApplyPage, NothingAhead, Known
<1>12. CASE LosePage
  BY <1>12, <1>a, <1>b, <1>e DEF LosePage, NothingAhead, Known
<1>13. CASE Crash
  <2>1. Known(local)'
    BY <1>13, <1>a, <1>b DEF Crash, Applied, NothingAhead, Known
  <2> QED BY <1>13, <2>1, <1>a, <1>b, <1>e DEF Crash, NothingAhead, Known
<1>14. CASE UNCHANGED vars
  BY <1>14 DEF vars, NothingAhead, Known
<1> QED
  BY <1>1, <1>2, <1>3, <1>4, <1>5, <1>6, <1>7, <1>8, <1>9, <1>10, <1>11, <1>12,
     <1>13, <1>14 DEF Next

\* Pushed batches stay complete: what changes later changes after them.
LEMMA StepPushes ==
  SyncTypeOK /\ NothingAhead /\ PushesComplete /\ [Next]_vars => PushesComplete'
<1> SUFFICES ASSUME SyncTypeOK, NothingAhead, PushesComplete, [Next]_vars
             PROVE  PushesComplete'
  OBVIOUS
<1>1. ASSUME NEW b \in Balances, Change(b) PROVE PushesComplete'
  BY <1>1 DEF Change, SyncTypeOK, NothingAhead, PushesComplete
<1>2. CASE Push
  <2>1. \A b \in Balances : Snapshot(Never)[b] = hcm[b]
    BY DEF Snapshot, SyncTypeOK, Never
  <2> QED BY <1>2, <2>1 DEF Push, PushesComplete
<1>3. CASE UNCHANGED <<hcm, pushes>>
  BY <1>3 DEF PushesComplete
<1> QED
  BY <1>1, <1>2, <1>3 DEF Next, vars, Fetch, FetchSlow, Deliver, ApplyFetch, StartPull,
     AnswerFirst, AnswerNext, AnswerExpired, ApplyPage, LosePage, Crash

\* Every step but one that passes over b keeps account of b until it is applied.
LEMMA StepOnTrack ==
  ASSUME SyncTypeOK, SyncTypeOK', NothingAhead, PushesComplete, [Next]_vars,
         NEW b \in Balances, OnTrack(b), ~PassesOver(b)
  PROVE  OnTrack(b)'
<1> USE NoPullFacts
<1>a. /\ Stamp \subseteq Int /\ Never = -1
      /\ Records = [Balances -> Stamp] /\ NoRecords \in Records
      /\ NoRecords[b] = -1
      /\ \A r \in Records : r[b] \in Int
  BY StampsAreIntegers DEF Stamp, Never, Records, NoRecords
<1>b. /\ hcm \in [Balances -> Nat] /\ clock \in Nat /\ local \in Records
      /\ pull.page \in Records /\ pull.rest \in Records
      /\ pull.since \in Stamp /\ pull.at \in Stamp /\ checkpoint \in Stamp
      /\ pull.pc \in {"idle", "asked", "answered"} /\ pull.moved \in BOOLEAN
  BY DEF SyncTypeOK, Pull
<1>i. pull.since \in Int /\ pull.at \in Int /\ checkpoint \in Int /\ local[b] \in Int
  BY <1>b, StampsAreIntegers
<1>c. hcm[b] \in Int /\ hcm[b] >= 0 /\ hcm[b] # Never /\ hcm[b] <= clock
  BY <1>a, <1>b DEF NothingAhead
<1>1. ASSUME NEW c \in Balances, Change(c) PROVE OnTrack(b)'
  <2>1. UNCHANGED <<local, checkpoint, pull>>
    BY <1>1 DEF Change
  <2>2. IF c = b THEN hcm'[b] > checkpoint /\ hcm'[b] > pull.since /\ hcm'[b] > pull.at
                 ELSE hcm'[b] = hcm[b]
    BY <1>1, <1>b, <1>i DEF Change, NothingAhead
  <2> QED BY <2>1, <2>2 DEF OnTrack, Reached, Covered
<1>2. ASSUME NEW c \in Balances, Fetch(c) PROVE OnTrack(b)'
  <2>1. UNCHANGED <<hcm, checkpoint, pull>> /\ local'[b] \in {local[b], hcm[b]}
    BY <1>2, <1>a, <1>b DEF Fetch
  <2> QED BY <2>1 DEF OnTrack, Reached, Covered
<1>3. ASSUME NEW c \in Balances, FetchSlow(c) PROVE OnTrack(b)'
  BY <1>3 DEF FetchSlow, OnTrack, Reached, Covered
<1>4. CASE Push
  BY <1>4 DEF Push, OnTrack, Reached, Covered
<1>5. ASSUME NEW m \in pushes, Deliver(m) PROVE OnTrack(b)'
  <2>1. m.records \in Records /\ Known(m.records)
    BY DEF SyncTypeOK, NothingAhead
  <2>2. /\ checkpoint' = m.at /\ UNCHANGED <<hcm, pull>>
        /\ local[b] = hcm[b] => local'[b] = hcm[b]
        /\ m.records[b] = hcm[b] => local'[b] = hcm[b]
    BY <1>5, <2>1, BatchFacts DEF Deliver, NothingAhead, PassesOver, Unapplied
  <2>3. local'[b] = hcm[b] \/ hcm[b] > m.at
    BY <2>2 DEF PushesComplete
  <2> QED BY <2>2, <2>3 DEF OnTrack, Reached, Covered
<1>6. ASSUME NEW m \in fetched, ApplyFetch(m) PROVE OnTrack(b)'
  <2>1. UNCHANGED <<hcm, checkpoint, pull>>
    BY <1>6 DEF ApplyFetch
  <2>2. local[b] = hcm[b] => local'[b] = hcm[b]
    <3>1. CASE m.balance = b
      <4>1. local'[b] = m.at /\ m.at \in Nat /\ m.at <= hcm[b] /\ ~(m.at < local[b])
        BY <1>6, <3>1, <1>b DEF ApplyFetch, PassesOver, SyncTypeOK, NothingAhead, Records
      <4> QED BY <4>1, <1>c
    <3>2. CASE m.balance # b
      BY <1>6, <3>2, <1>b DEF ApplyFetch, SyncTypeOK, Records
    <3> QED BY <3>1, <3>2
  <2> QED BY <2>1, <2>2 DEF OnTrack, Reached, Covered
<1>7. CASE StartPull
  <2>1. UNCHANGED <<hcm, local, checkpoint>>
    BY <1>7 DEF StartPull
  <2>2. /\ pull'.pc = "asked" /\ ~pull'.moved /\ pull'.since = checkpoint
        /\ ~pull.moved
    BY <1>7 DEF StartPull, SyncTypeOK, Pull
  <2> QED BY <2>1, <2>2 DEF OnTrack, Reached, Covered
<1>8. CASE AnswerFirst
  <2>1. UNCHANGED <<hcm, local, checkpoint>> /\ ~pull.moved
    BY <1>8 DEF AnswerFirst
  <2>2. CASE pull' = NoPull
    BY <2>1, <2>2 DEF OnTrack, Reached, Covered
  <2>3. CASE pull' # NoPull
    <3>1. PICK S \in Pages(Snapshot(pull.since)) :
            pull' = [pull EXCEPT !.pc = "answered", !.at = clock,
                                 !.page = Only(Snapshot(pull.since), S),
                                 !.rest = Only(Snapshot(pull.since), Balances \ S)]
      BY <1>8, <2>3 DEF AnswerFirst
    <3>2. /\ ~pull'.moved /\ pull'.pc = "answered"
          /\ pull'.page = Only(Snapshot(pull.since), S)
          /\ pull'.rest = Only(Snapshot(pull.since), Balances \ S)
      BY <2>1, <3>1 DEF SyncTypeOK, Pull
    <3>3. hcm[b] > pull.since => pull'.page[b] = hcm[b] \/ pull'.rest[b] = hcm[b]
      BY <3>2 DEF Only, Snapshot
    <3>4. local[b] = hcm[b] \/ hcm[b] > pull.since
      BY <1>8, <2>1 DEF AnswerFirst, OnTrack, Reached
    <3> QED BY <2>1, <3>2, <3>3, <3>4 DEF OnTrack, Reached, Covered
  <2> QED BY <2>2, <2>3
<1>9. CASE AnswerNext
  <2>1. UNCHANGED <<hcm, local, checkpoint>> /\ pull.moved
    BY <1>9 DEF AnswerNext
  <2>2. PICK S \in Pages(pull.rest) :
          pull' = [pull EXCEPT !.pc = "answered", !.page = Only(pull.rest, S),
                               !.rest = Only(pull.rest, Balances \ S)]
    BY <1>9 DEF AnswerNext
  <2>3. /\ pull'.moved /\ pull'.at = pull.at /\ pull'.pc = "answered"
        /\ pull.rest[b] = pull'.page[b] \/ pull.rest[b] = pull'.rest[b]
    BY <2>1, <2>2 DEF SyncTypeOK, Pull, Only
  <2>4. pull.page = NoRecords
    BY <1>9 DEF AnswerNext, SyncTypeOK
  <2> QED BY <2>1, <2>3, <2>4, <1>a, <1>c DEF OnTrack, Reached, Covered
<1>10. CASE AnswerExpired
  <2>1. UNCHANGED <<hcm, local, checkpoint>> /\ pull.moved /\ pull.page = NoRecords
    BY <1>10 DEF AnswerExpired, SyncTypeOK
  <2>2. b \notin Within(pull.rest) /\ ~(hcm[b] > pull.at)
    BY <1>10 DEF PassesOver
  <2>3. pull.rest[b] # hcm[b] /\ pull.page[b] # hcm[b]
    BY <2>1, <2>2, <1>a, <1>c DEF Within
  <2>4. local[b] = hcm[b]
    BY <2>1, <2>2, <2>3 DEF OnTrack, Reached
  <2> QED BY <2>1, <2>4 DEF OnTrack, Reached, Covered
<1>11. CASE ApplyPage
  <2>1. /\ checkpoint' = pull.at /\ hcm' = hcm
        /\ local[b] = hcm[b] => local'[b] = hcm[b]
        /\ pull.page[b] = hcm[b] => local'[b] = hcm[b]
    BY <1>11, <1>b, BatchFacts DEF ApplyPage, NothingAhead, PassesOver, Unapplied
  <2>2. local'[b] = hcm[b] \/ hcm[b] > pull.at \/ pull.rest[b] = hcm[b]
    BY <1>11, <2>1 DEF ApplyPage, OnTrack, Reached
  <2>3. CASE Within(pull.rest) = {}
    <3>1. pull' = NoPull /\ pull.rest[b] # hcm[b]
      BY <1>11, <2>3, <1>c DEF ApplyPage, Within
    <3> QED BY <2>1, <2>2, <3>1 DEF OnTrack, Reached, Covered
  <2>4. CASE Within(pull.rest) # {}
    <3>1. pull'.pc = "asked" /\ pull'.moved /\ pull'.at = pull.at /\ pull'.rest = pull.rest
      BY <1>11, <2>4 DEF ApplyPage, SyncTypeOK, Pull
    <3> QED BY <2>1, <2>2, <3>1 DEF OnTrack, Reached, Covered
  <2> QED BY <2>3, <2>4
<1>12. CASE LosePage \/ Crash
  <2>1. pull' = NoPull /\ UNCHANGED <<hcm, checkpoint>>
    BY <1>12 DEF LosePage, Crash
  <2>2. local[b] = hcm[b] => local'[b] = hcm[b]
    BY <1>12, <1>a, <1>b DEF LosePage, Crash, Applied, NothingAhead, Known
  <2>3. pull.moved => pull.page[b] # hcm[b] /\ pull.rest[b] # hcm[b]
    BY <1>12, <1>c DEF PassesOver, Within
  <2>4. Reached(b, checkpoint)
    BY <2>3 DEF OnTrack, Reached, Covered
  <2> QED BY <2>1, <2>2, <2>4 DEF OnTrack, Reached, Covered
<1>13. CASE UNCHANGED vars
  BY <1>13 DEF vars, OnTrack, Reached, Covered
<1> QED
  BY <1>1, <1>2, <1>3, <1>4, <1>5, <1>6, <1>7, <1>8, <1>9, <1>10, <1>11, <1>12,
     <1>13 DEF Next

\* Mishaps cost the balances they pass over and no other, and those no longer than
\* until they are written or change again, with any number of mishaps of any kind.
THEOREM OthersAreKept == HistorySpec => []OnlyPassedOverSkipped
<1> DEFINE Inv == SyncTypeOK /\ SyncInv /\ \A b \in Balances \ behind : OnTrack(b)
<1>1. HistoryInit => Inv
  BY InitTypes, InitSync DEF HistoryInit
<1>2. Inv /\ [HistoryNext]_<<vars, behind>> => Inv'
  <2> SUFFICES ASSUME Inv, [HistoryNext]_<<vars, behind>> PROVE Inv'
    OBVIOUS
  <2>1. [Next]_vars
    BY DEF HistoryNext, vars
  <2>2. SyncTypeOK' /\ SyncInv'
    BY <2>1, StepTypes, StepAhead, StepPushes DEF SyncInv
  <2>3. ASSUME NEW b \in Balances \ behind' PROVE OnTrack(b)'
    <3>1. CASE UNCHANGED <<vars, behind>>
      BY <3>1 DEF vars, OnTrack, Reached, Covered
    <3>2. CASE HistoryNext /\ local'[b] = hcm'[b]
      BY <3>2 DEF OnTrack, Reached, Covered
    <3>3. CASE HistoryNext /\ local'[b] # hcm'[b] /\ hcm'[b] # hcm[b]
      <4>1. Change(b)
        BY <3>3, <2>1 DEF Next, vars, Change, Fetch, FetchSlow, Push, Deliver, ApplyFetch,
           StartPull, AnswerFirst, AnswerNext, AnswerExpired, ApplyPage, LosePage, Crash,
           SyncTypeOK
      <4>2. UNCHANGED <<checkpoint, pull>> /\ hcm'[b] = clock + 1
        BY <4>1 DEF Change, SyncTypeOK
      <4>3. /\ pull.since \in Int /\ pull.at \in Int /\ checkpoint \in Int /\ clock \in Int
            /\ checkpoint <= clock /\ pull.since <= clock /\ pull.at <= clock
        BY StampsAreIntegers DEF SyncTypeOK, SyncInv, NothingAhead, Pull
      <4> QED BY <4>2, <4>3 DEF OnTrack, Reached, Covered
    <3>4. CASE HistoryNext /\ ~Recovers(b)
      <4>1. b \notin behind /\ ~PassesOver(b)
        BY <3>4 DEF HistoryNext
      <4> QED BY <2>1, <2>2, <4>1, StepOnTrack DEF SyncInv
    <3> QED BY <3>1, <3>2, <3>3, <3>4 DEF Recovers
  <2> QED BY <2>2, <2>3
<1>3. Inv => OnlyPassedOverSkipped
  BY DEF OnlyPassedOverSkipped, OnTrack
<1> QED BY <1>1, <1>2, <1>3, PTL DEF HistorySpec

\* A step after which there has been no mishap is none, and follows none.
LEMMA NoMishapStep ==
  ASSUME SyncTypeOK, [Next]_vars, mishaps' = 0
  PROVE  mishaps' = mishaps /\ (fetched = {} => fetched' = {})
<1> USE SyncAssumption
<1>m. /\ mishaps \in Nat
      /\ \A kind : ~Mishap(kind)
  BY DEF Mishap, SyncTypeOK
<1>1. ASSUME NEW r, NEW at, applyBatch(r, at) PROVE UNCHANGED mishaps
  BY <1>1, <1>m DEF applyBatch, FailedIn
<1>2. ASSUME Interrupt PROVE UNCHANGED mishaps
  BY <1>2, <1>m DEF Interrupt
<1>3. CASE UNCHANGED vars
  BY <1>3 DEF vars
<1>4. CASE \E b \in Balances : Change(b) \/ Fetch(b) \/ FetchSlow(b)
  BY <1>4, <1>m DEF Change, Fetch, FetchSlow
<1>5. CASE Push
  BY <1>5 DEF Push
<1>6. CASE \E m \in pushes : Deliver(m)
  BY <1>6, <1>1 DEF Deliver
<1>7. CASE StartPull \/ AnswerFirst \/ AnswerNext \/ AnswerExpired
  BY <1>7, <1>m DEF StartPull, AnswerFirst, AnswerNext, AnswerExpired
<1>8. CASE ApplyPage
  BY <1>8, <1>1 DEF ApplyPage
<1>9. CASE LosePage \/ Crash
  BY <1>9, <1>2 DEF LosePage, Crash
<1>10. CASE \E m \in fetched : ApplyFetch(m)
  BY <1>10 DEF ApplyFetch
<1> QED BY <1>3, <1>4, <1>5, <1>6, <1>7, <1>8, <1>9, <1>10 DEF Next

\* A step that passes over a balance is a mishap, or follows one.
LEMMA NoMishapNoneBehind ==
  ASSUME SyncTypeOK, NothingAhead, [Next]_vars, mishaps' = 0, fetched = {}, NEW b \in Balances
  PROVE  mishaps = 0 /\ fetched' = {} /\ ~PassesOver(b)
<1> USE SyncAssumption
<1>1. mishaps = 0 /\ mishaps' = mishaps /\ fetched' = {}
  BY NoMishapStep
<1>3. ~(pull.moved /\ (LosePage \/ Crash)) /\ ~AnswerExpired
  BY DEF LosePage, Crash, Interrupt, AnswerExpired, Mishap, SyncTypeOK
<1>4. ASSUME NEW r \in Records, NEW at, applyBatch(r, at) PROVE ~Unapplied(b, r)
  <2>1. PICK failed \in SUBSET Within(r) : FailedIn(r, failed) /\ local' = Applied(r, failed)
    BY <1>4 DEF applyBatch
  <2>2. failed = {}
    BY <2>1 DEF FailedIn, Mishap, SyncTypeOK
  <2>3. r[b] \in Int /\ local[b] \in Int
    BY StampsAreIntegers DEF SyncTypeOK
  <2> QED BY <2>1, <2>2, <2>3 DEF Applied, Unapplied
<1>5. ~(ApplyPage /\ Unapplied(b, pull.page))
  BY <1>4 DEF ApplyPage, SyncTypeOK, Pull
<1>6. \A m \in pushes : ~(Deliver(m) /\ Unapplied(b, m.records))
  BY <1>4 DEF Deliver, SyncTypeOK
<1> QED BY <1>1, <1>3, <1>5, <1>6 DEF PassesOver

\* Until the first mishap no change in the HCM is ever passed by the checkpoint
\* without being applied or in hand, whatever is lost, late, repeated or
\* crashes in the first page.
THEOREM NeverSkipped == Spec => []NothingSkipped
<1> DEFINE Inv == /\ SyncTypeOK /\ SyncInv
                  /\ mishaps = 0 => fetched = {} /\ \A b \in Balances : OnTrack(b)
<1>1. Init => Inv
  BY InitTypes, InitSync DEF Init
<1>2. Inv /\ [Next]_vars => Inv'
  <2> SUFFICES ASSUME Inv, [Next]_vars PROVE Inv'
    OBVIOUS
  <2>1. SyncTypeOK' /\ SyncInv'
    BY StepTypes, StepAhead, StepPushes DEF SyncInv
  <2>2. ASSUME mishaps' = 0 PROVE fetched' = {} /\ \A b \in Balances : OnTrack(b)'
    <3>1. mishaps = 0 /\ fetched' = {}
      BY <2>2, NoMishapStep
    <3>2. ASSUME NEW b \in Balances PROVE ~PassesOver(b)
      BY <2>2, <3>1, NoMishapNoneBehind DEF SyncInv
    <3> QED BY <2>1, <3>1, <3>2, StepOnTrack DEF SyncInv
  <2> QED BY <2>1, <2>2
<1>3. Inv => NothingSkipped
  BY DEF OnTrack, NothingSkipped
<1> QED BY <1>1, <1>2, <1>3, PTL DEF Spec

-----------------------------------------------------------------------------
(* BatchSync implements CachedBalances *)

\* Applying any records moves rows forward and not past the HCM.
LEMMA AppliedIsRefresh ==
  ASSUME SyncTypeOK, Known(local), NEW r \in Records, Known(r), NEW failed,
         local' = Applied(r, failed), hcm' = hcm, fetched' \subseteq fetched
  PROVE  Cache!Refresh
<1>1. /\ \A b \in Balances : hcm[b] \in Int /\ local[b] \in Int /\ r[b] \in Int
      /\ \A b \in Balances : local'[b] = local[b] \/ (local'[b] = r[b] /\ r[b] > local[b])
  BY StampsAreIntegers DEF SyncTypeOK, Applied
<1> QED BY <1>1 DEF Known, Cache!Refresh

\* The same for a batch, whichever of its records fail.
LEMMA BatchIsRefresh ==
  ASSUME SyncTypeOK, Known(local), NEW r \in Records, Known(r), NEW at,
         applyBatch(r, at), hcm' = hcm, fetched' = fetched
  PROVE  Cache!Refresh
<1>1. PICK failed : local' = Applied(r, failed)
  BY DEF applyBatch
<1> QED BY <1>1, AppliedIsRefresh

\* Every step of the sync paths is a step of the cache, or none there.
LEMMA StepIsCacheStep ==
  SyncTypeOK /\ NothingAhead /\ [Next]_vars => [Cache!Next]_<<hcm, local, fetched>>
<1> SUFFICES ASSUME SyncTypeOK, NothingAhead, [Next]_vars
             PROVE  Cache!Next \/ UNCHANGED <<hcm, local, fetched>>
  OBVIOUS
<1>i. /\ \A b \in Balances : hcm[b] \in Int /\ local[b] \in Int
      /\ hcm \in [Balances -> Nat] /\ clock \in Nat
      /\ local \in [Balances -> Stamp]
      /\ Known(local) /\ \A b \in Balances : hcm[b] <= clock
  BY StampsAreIntegers DEF SyncTypeOK, NothingAhead, Records
<1>1. ASSUME NEW b \in Balances, Change(b) PROVE Cache!SourceChanges(b)
  <2>1. hcm' = [hcm EXCEPT ![b] = clock + 1] /\ UNCHANGED <<local, fetched>>
    BY <1>1 DEF Change
  <2>2. hcm'[b] = clock + 1 /\ hcm'[b] > hcm[b]
    BY <2>1, <1>i
  <2> QED BY <2>1, <2>2 DEF Cache!SourceChanges
<1>2. ASSUME NEW b \in Balances, Fetch(b) PROVE Cache!Refresh
  <2>1. /\ \A c \in Balances : local'[c] = IF c = b THEN hcm[c] ELSE local[c]
        /\ UNCHANGED <<hcm, fetched>>
    BY <1>2, <1>i DEF Fetch
  <2> QED BY <2>1, <1>i DEF Known, Cache!Refresh
<1>3. ASSUME NEW b \in Balances, FetchSlow(b) PROVE Cache!Answer(b)
  BY <1>3 DEF FetchSlow, Cache!Answer
<1>4. ASSUME NEW m \in pushes, Deliver(m) PROVE Cache!Refresh
  <2>1. m.records \in Records /\ Known(m.records)
    BY DEF SyncTypeOK, NothingAhead
  <2> QED BY <1>4, <1>i, <2>1, BatchIsRefresh DEF Deliver
<1>5. ASSUME NEW m \in fetched, ApplyFetch(m) PROVE Cache!Overwrite(m)
  BY <1>5 DEF ApplyFetch, Cache!Overwrite
<1>6. CASE ApplyPage
  <2>1. pull.page \in Records /\ Known(pull.page)
    BY DEF SyncTypeOK, NothingAhead, Pull
  <2> QED BY <1>6, <1>i, <2>1, BatchIsRefresh DEF ApplyPage, Cache!Next
<1>7. CASE Crash
  <2>1. pull.page \in Records /\ Known(pull.page)
    BY DEF SyncTypeOK, NothingAhead, Pull
  <2>2. PICK left \in SUBSET Within(pull.page) :
            local' = IF pull.pc = "answered" THEN Applied(pull.page, left) ELSE local
    BY <1>7 DEF Crash
  <2>3. fetched' \subseteq fetched /\ hcm' = hcm
    BY <1>7 DEF Crash
  <2>4. CASE pull.pc = "answered"
    BY <2>1, <2>2, <2>3, <2>4, <1>i, AppliedIsRefresh DEF Cache!Next
  <2>5. CASE pull.pc # "answered"
    BY <2>2, <2>3, <2>5 DEF Cache!Refresh, Cache!Next
  <2> QED BY <2>4, <2>5
<1>8. CASE UNCHANGED <<hcm, local, fetched>>
  BY <1>8
<1> QED
  BY <1>1, <1>2, <1>3, <1>4, <1>5, <1>6, <1>7, <1>8 DEF Next, vars, Push, StartPull,
     AnswerFirst, AnswerNext, AnswerExpired, LosePage, Cache!Next

\* The sync paths implement the cache that only gets newer, for any number of
\* balances, pages, pushes, crashes and mishaps.
THEOREM ImplementsCache == Spec => CacheSpec
<1>1. Init => Cache!Init
  BY DEF Init, Cache!Init, Never, Cache!Never
<1>2. Init => SyncTypeOK /\ NothingAhead
  BY InitTypes, InitSync DEF SyncInv
<1>3. (SyncTypeOK /\ NothingAhead) /\ [Next]_vars => (SyncTypeOK /\ NothingAhead)'
  BY StepTypes, StepAhead
<1> QED BY <1>1, <1>2, <1>3, StepIsCacheStep, PTL DEF Spec, CacheSpec, Cache!Spec

=============================================================================
