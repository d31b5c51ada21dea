# ExampleHR time-off service: verification

TLA+ models of the time-off service (`src/apps/time-off-service`) and of the HCM
it talks to (`src/apps/hcm-mock`), their TLC configurations, and proofs checked
by TLAPS.  The code is the reference; docs are quoted only where the code
disagrees with them (last section).  Paths below are relative to
`src/apps/time-off-service/src` unless they start with `src/`.

## The system

An employee asks for days off.  The service keeps a balance row per (employee,
location, leave type) with `used_days` and `pending_days`, and a request row per
request.  The books of record are kept by an external HCM.  The service accepts
a request, reserves its days in `pending_days` and writes an *outbox* row in one
database transaction; a worker later carries the outbox row to the HCM over HTTP
and settles the request by the answer.  Cancellation of an approved request
works the same way with a reversal.

| component | state | operations | interacts with |
|---|---|---|---|
| request state machine (`domain/state-machine.ts`) | none | `canTransition` | all writers of a request |
| time-off requests (`modules/time-off/time-off.service.ts`) | `time_off_request`, `request_audit_log`, `outbox`, `pending_days` | create, cancel, read | balance lock and cache, outbox |
| outbox worker, processor, repository (`modules/outbox`) | `outbox`, requests, balance row; per poll: a claimed batch and a copy of the request | poll, watchdog, claim, deduct, reverse, retry, fail | HCM client, request rows, balance row |
| HCM client (`modules/hcm-client`) | none | classify an answer as OK, DUPLICATE, refusal or no answer; 8 s timeout | HCM |
| HCM mock, deduct and reverse (`src/apps/hcm-mock`) | transactions by `externalRef`, `used_days` | deduct, reverse | HCM client |
| HCM mock, chaos, clock, batch, jobs | chaos modes, clock, batch pages | inject failures, push and serve batches | batch sync and pull |
| balance cache and lock (`modules/balance/balance.service.ts`) | balance row with `hcm_last_updated_at` (HCM time) and `synced_at` (own time) | `getOrFetchBalance` (5 min TTL), `withBalanceLock` (one transaction) | HCM client, create |
| batch push and pull (`modules/sync/batch-*.ts`) | `sync_checkpoint`, balance rows | apply a record, apply a page, run a pull | HCM, balance rows, requests |
| reconciliation (`modules/sync/reconciliation.worker.ts`) | drift log; balance rows | compare with the HCM and correct | HCM client, balance rows |
| idempotency (`modules/idempotency`) | `idempotency_record`, a map of requests in flight in this process | claim a key, replay, finish, release, expire | every POST handler |
| filters, health, wiring | none | map errors to HTTP | - |

### What is hard in it

* **Interleaving.** `setInterval` starts a poll every 500 ms without waiting for
  the one before.  While a poll awaits the HCM (up to 8 s for each of up to five
  rows) other polls claim rows, users create and cancel, batches are applied.
* **No transaction in the processor.** A settled record is four autocommitted
  statements (balance, request, outbox row, audit); a crash can fall between any
  two, and the watchdog runs the row again 30 s later.
* **An unreliable HCM.** An answer may be lost before or after the HCM acted; a
  late call may act after the service gave up on it; an answer can overtake
  another; a repeated call is answered 409 without a balance.
* **Stale copies.** The processor decides by the request it loaded before the
  call and by the `attempts` it claimed; the cache and the reconciliation write
  balances they fetched earlier.
* **Boundaries.** `attempts > 3` against `>= 3`, rows matched by a millisecond
  timestamp, `Math.max(0, ...)`, a 30 s watchdog under a batch that may take 40 s.

The full list, each at its line and with the properties aimed at it, is
`PROJECT.json`, "hazards".

### What makes each component correct

* state machine: terminal states are terminal; APPROVED only from PENDING_HCM.
* requests and outbox: no approval without a deduction in the HCM; every day
  booked once; `pending_days` is what is in flight; no day promised twice; a row
  is in one poll's hands; three calls per row at most; every request resolves.
  The code does not keep all of it: the runs say which of it holds until what
  happens, and which a violation refutes.
* balance cache: the row counts every day that is promised; its total is of the
  date it carries; it goes back to an older figure by a late answer only, and
  reading repairs it.
* batch: stale and repeated records change nothing; a page is applied once or
  again without effect; the checkpoint never passes an unapplied page (it does;
  what it costs is bounded by `OnlyPassedOverSkipped`).
* reconciliation: a correction decided on an old snapshot breaks none of the above.
* HCM mock: whatever it is told to break, an `externalRef` is booked and given
  back once, and every call ends.
* idempotency: one key runs the handler once, whatever retries overlap, and every
  holder of a key lets go of it.

## Modules

| module | models | how |
|---|---|---|
| `RequestStateMachine` | `domain/state-machine.ts`, `enums.ts` | the transition table as a set of pairs |
| `RequestLifecycle` | what the table promises of a request over time | abstract specification: each step of each request follows the table |
| `HcmLedger` | the HCM's deduct and reverse handlers and the answers a client can see | one transaction per `externalRef`, one balance |
| `TimeOffRequests` | create and cancel on one balance row | one action per database transaction |
| `OutboxProcessing` | worker, processor, repository, the network and crashes | a poll is a process; EXTENDS the three above |
| `OutboxProperties` | the properties and fairness of `OutboxProcessing` | |
| `OutboxHistory` | history variables beside `OutboxProcessing`: which rows two polls came to share and how, whether an approval overtook an answer, whether a crash tore a turn | restricts no step; its properties say until which of these moments what is kept |
| `OutboxProofs` | theorems about `OutboxProcessing`: types, approvals | TLAPS; the next three extend it one after the other |
| `OutboxTurnProofs` | theorems about its turns: the audit log, refusals | |
| `OutboxOwnershipProofs` | theorems about who holds which row: the two ways to share one, bounded calls, one row at work, the refinement of `RequestLifecycle` | also EXTENDS `OutboxHistory` |
| `OutboxDaysProofs` | theorems about days: the HCM's books, `pending_days`, overbooking | lemmas on the sum `DaysOf` first |
| `MCOutbox`, `MCOutboxHistory` | instances for TLC | day counts of the requests |
| `CachedBalances` | what the sync paths promise together | abstract specification: copies that get newer, and late answers that are written come what may; `BatchSync` implements it |
| `BalanceRow` | one balance row and all its writers: fetch, batch record, settlements, reconciliation, create | one action per turn; the HCM's balance is the history of its figures, a version is an index into it |
| `BalanceRowProperties`, `BalanceRowProofs`, `MCBalanceRow` | its properties and fairness; theorems; instance | |
| `HcmMock` | the mock's deduct and reverse handlers side by side, chaos rules, HR, reset | EXTENDS `HcmLedger`; an action is what a handler does between two sleeps |
| `HcmMockProperties`, `HcmMockProofs`, `MCHcmMock` | its properties; theorems; instance | |
| `BatchSync` | batch push and pull, the HCM's snapshots and pages, the write of a real-time fetch | a balance's version is its HCM timestamp |
| `BatchSyncProperties`, `BatchSyncProofs` | its properties; theorems | the cfgs instantiate `BatchSyncProperties` directly |
| `BatchSyncHistory` | a history variable beside `BatchSync`: the balances whose present version a mishap passed over | restricts no step; a cfg instantiates it directly |
| `Idempotency` | the interceptor, its table and its in-flight map, for one key | one action per turn part: arrive, look up, claim, handler commits or fails, complete, release |
| `IdempotencyProperties`, `IdempotencyProofs`, `MCIdempotency` | its properties and fairness; theorems; instances | |

### How the model corresponds to the code

*Turns.*  The process has one event loop and one synchronous SQLite connection
(`better-sqlite3`), so callbacks do not overlap: a poll gives up control in
effect only while it awaits HTTP.  `EventLoopFree` says that no poll is between
two of its statements; client operations, new polls and resumptions need it.
Each autocommitted statement of a turn is nevertheless an action, because a
crash may fall between two: this is what `pc` values "load", "audit", "settle",
"close", "log" are.  A client operation is one transaction and one action.

*Settling.*  `Approve`, `Reject`, `ConfirmReversal` and `MarkFailed` are the four
handlers up to and including the balance write; `SettleRequest` is the request
write with the transition check against the copy the processor holds (`seen`),
or the throw; `CloseRow` is the outbox status; `AuditVerdict` the audit row.

*Time.*  `process_after` and the 30 s watchdog are one Boolean per row, `ripe`:
the instant the row waits for has passed.  `Ripen` sets it, under the condition
that the code's own timeouts allow: a row whose call is out is younger than 30 s
(the call is cut off at 8 s), a row waiting in a claimed batch can get old
behind `SlowCalls` slow calls (4 in the code: 4 x 8 s > 30 s).  `stamped` holds
the rows whose `last_attempted_at` is the present millisecond (which is over when
`Ripen` happens), since `claimPending` collects the rows it marked by that timestamp.

*Network.*  `Answer` is the HCM handling a call, `LoseCall` the client giving up
(timeout, network, 5xx), before or after the HCM acted.  A call given up before
it was handled may be handled later (`late`, `LateCall`).

*Crash.*  The tables and the HCM stay, polls vanish, unanswered calls may still
arrive late.

*History.*  The variables of `OutboxHistory` and `BatchSyncHistory` are read by no
action.  A row *lapses* when a poll collects it by the millisecond in which another
stamped it, or when it waits in a poll's batch until the watchdog may take it; an
answer is *overtaken* when a request that its figure does not have yet is approved
before it is written; a turn is *torn* by a crash between its attempt and its
status, or between its balance write and the closing of its row.  So a property can
speak of every behaviour up to the first such moment, or of all rows to which none
happened, and no setting has to exclude what the code can do.

*Abstracted.*  One balance row, which no batch, refresh or reconciliation touches
in these runs; days are whole; ids, bodies, dates, audit texts and the sync log
are left out.  The history field `calls` counts the HCM calls of a row.

*Versions.*  In `BatchSync` a balance's figures are known by the HCM's
`last_updated_at`: `hcm[b]` is the present version, `local[b]` the one in the
row, and a page, a push or an answer carries versions.  Every change in the HCM
has a later time than all before it.  A pull is the process of `runBatchPull`
(`pull.pc`: asked, answered), with what its frozen snapshot still has to give
(`rest`).  Applying a page is one turn (synchronous SQLite), in which a crash may
leave any part of the page applied and the checkpoint where it was.  Pages may
hold any records of the snapshot, where the code sorts them.

*Mishaps.*  Four things the code does not make up for are counted in `mishaps`
and bounded: a pull that ends after some of its pages, a snapshot that expires
between pages (answered as an empty last page, generated now), a record whose
transaction fails, a fetch whose answer other turns overtake.  What is promised
without them is promised until the first of them, and `OnlyPassedOverSkipped` says
what they cost.

*Pushes.*  The idempotency interceptor is bound to every POST of the service, and
the mock's push job sends no `Idempotency-Key`: as the repository stands its own
pushes are answered 400 before they reach the controller.  `Deliver` is what the
controller does with a push that carries a key; since a push may also be lost, the
behaviours in which none arrives are among those of the model.

*The balance row.*  `BalanceRow` puts beside each other what the other modules
take one at a time: total, used and pending days under one timestamp, written by
six pieces of code that each write some of them.  A record, an answer to a fetch
and an answer to a run may carry any version the HCM ever had (a run's: any since
it began), so nothing is assumed of the order in which they arrive.  `daysOf` is
`SUM(days_requested)`: a constant function on sets of requests that is additive
on disjoint ones, which is all the proofs need.  `run[u].snapshot` is the row as
`runReconciliation` read it before its first HCM call; `old` in `Decide` is the
15 minutes of `synced_at`, which are left to chance, as is the 5 minute TTL of a
fetch.  A crash in a settlement, late calls and overlapping polls are left to
`OutboxProcessing`; so is cancelling a request that is not settled.  Its
`mishaps` are: an answer that is written although the row is newer (a fetch, a
settlement, a correction), a settlement by a 409, which has no figures, and the
release of days by a failed reversal.

*The mock.*  A handler of `HcmMock` sleeps for its latency (and `delay_ms`, and
the ten seconds of "timeout"), and under "slow" once more between the lookup of
the `externalRef` and the booking; what it does between two sleeps is one action.
`answer` is what is answered in the present step: the response and the effect are
one action.  `setBalance` stands for HR, `/__control/drift` and the drift job;
`total_days` stays as it is.  Rules for `balance_get`, `batch_get` and the push
job are not in it.

*The HCM's reversal.*  The service sends the request id as `hcmExternalRef` of
the deduction to reverse; the mock looks transactions up by its own id.
`HcmFindsByRef` chooses between the HCM of the docs (TRUE) and the mock (FALSE).

## Runs

| run | instance | shows |
|---|---|---|
| `outbox_overlap` | 2 requests (1 and 2 days of 3), 2 polls, 1 cancellation, no crash | types; no two polls have a row, a settled row stays settled, requests move along the state machine (refinement of `RequestLifecycle`), the audit log follows until a crash, one active row per request, the HCM's books move only with its transactions |
| `outbox_crash` | 3 requests of a day for 2 days, 2 polls of a row each, 1 crash anywhere | every approval is backed by the HCM and no refused request has a deduction; no day is promised twice and the reservation is exact, until an answer is overtaken (the first of the two only) or a crash tears a turn |
| `outbox_recovery` | 1 request, 2 polls that may start in one millisecond, batches that outlive the watchdog, 1 crash, 1 cancellation, an HCM that refuses reversals, fairness | only a row that lapsed is ever in two hands, called more often than allowed, or taken up after it was settled; one row of a request is at work and the state machine is followed until rows lapse or a torn turn meets a cancellation; requests and cancellations resolve through all of it |
| `batch_sync` | 2 balances in pages of one, 3 changes, 2 pushes, 1 mishap of any kind, fairness | until the first mishap the checkpoint passes no change, and every balance catches up though pushes are lost and pulls fail or crash; a mishap costs the balances it passes over and no other, until their next change or write; all of it, mishaps included, implements `CachedBalances` |
| `balance_row` | 2 requests of a day, totals 1 and 2, 2 versions by HR besides the settlements', 1 reconciliation run, 1 cancellation, 2 calls per row, 1 mishap, crashes without bound, a balance that is read for ever | `pending_days` is exactly what is in flight until an approved request is cancelled; every promised day is counted until the first mishap; the total is of the row's own date until the first settlement; reading heals the row for good after any of it |
| `hcm_mock` | 2 calls, 2 requests (1 and 2 days of 2), all 6 behaviors, 1 rule with any count of -1, 0, 2, HR and resets | answers outside the dishonest rules are `HcmLedger`'s; an `externalRef` is booked and given back once; only invalid_validation overdraws; every call ends |
| `idempotency` | 4 POSTs with one key, one of them with another body, 1 crash, fairness | successful answers report one execution asked for with the caller's own body; a claim has an owner; a primary runs under its own claim; a stored response is final; no call waits for ever |

Runs with `expect: violation` each refute one statement of the repository's own
docs or tests.  Two statements of the docs that the code does not follow are about
properties which it keeps; their findings name the passing run.  See "Findings".

### Bounds, and why they are enough

* Two polls: overlap is pairwise; a third in flight adds no kind of step.
* Two requests, one of one day and one of two, against three days: either fits,
  both fit, or, after `HrUsedDays` = 1 day that HR booked unseen by the service,
  only some fit, so refusals happen.  `outbox_crash` has three requests of a day for
  two days.  `createRequest` turns the third away as long as the row is right, so
  that a refusal by the HCM takes an overtaken answer, a torn turn, or a late call
  that books days of a request given up on; the three are interchangeable (`Alike`,
  used with invariants only).
* `MAX_OUTBOX_ATTEMPTS` is 3 in the code and in `slow_batch_outlives_watchdog`;
  the other runs use 2, which keeps first, middle-less and last
  attempt and the safety guard above the limit.  `attempts` and `calls` are
  counted up to one more than the limit; beyond it all values mean the same.
* `MaxCancels` and `MaxCrashes` bound two counters that exist for that only.
* `ClaimLimit` and `SlowCalls` are 5 and 4 as in the code in `outbox_overlap`; with
  three rows at most and `SameMillisecond` FALSE no row lapses there.  Nor does one
  in `outbox_crash`, where polls claim one row each, which keeps it short: what
  a larger batch adds is a row that waits behind another, which is in
  `outbox_overlap` without a crash and in `outbox_recovery` with one.  `outbox_recovery` has lapses of both kinds: `SameMillisecond`, and
  the two limits scaled to 2 and 1.  Its one request has two rows, which can be in
  one batch after a crash tore its approval.  `slow_batch_outlives_watchdog` has the
  code's own numbers and five requests.
* Two balances and `PageSize` 1 give pulls of one and two pages, with a first, a
  later and a last page; three changes let one balance have two versions under
  way while the other changes; two pushes can be reordered.  `MaxMishaps` 1: what
  holds until the first mishap needs no second.  Two pushes and two mishaps, where
  one meets what the other left, take four minutes and show the same; the theorems
  have any number.
* Four calls: one primary, two that wait for it and may be woken together, and
  one with another body; each of them can also come first or last.
* In the outbox runs HR's bookings happen before the behaviour begins;
  `balance_row` and `hcm_mock` have them at any time.
* `balance_row`: entitlements 1 and 2 for two requests of a day make room for
  none, one or both; versions by HR before and between the settlements let a
  record, an answer and a correction each be older or newer than the row; two
  calls are a first and a last one.  One run at a time: runs share the row only,
  and an old run is followed by newer fetches and records in all orders.
* `hcm_mock`: two calls overlap pairwise, on one `externalRef` or two; a rule with
  2 left applies to both or is half used; one that is set with 0 never applies.
* TLC's coverage of the passing runs has every action and every disjunct taken.
* `CHECK_DEADLOCK FALSE`: when all requests are settled the outbox is at rest.

### Fairness

A turn that began goes on and a callback whose turn it is runs in the end
(strong fairness of `Statement(p)`: other callbacks may run in between for
ever, not instead of it for ever, since Node's queues are FIFO); the interval
timer keeps starting polls (strong fairness of `StartPoll(p)`); a call is
answered or cut off after 8 s (weak fairness of `LoseCall(p)`: the HCM itself
promises nothing); the instant a row waits for comes (weak fairness of
`Ripen(i)` for every row there can be).  For the sync: the cron job
keeps firing (weak fairness of `StartPull`), and neither the HCM's failures nor
crashes hit every pull there will ever be (strong fairness of the answers and of
`ApplyPage`); pushes and fetches have none.  For the interceptor: every call that
got in goes on (weak fairness of `Step(c)`; a handler returns or throws since
its HCM call is cut off).  For the row: a balance that is looked at for ever is
fetched in the end with the HCM's present figures (weak fairness of
`ApplyFetch(Version)`: a fetch may happen whenever the row is older than the TTL,
and HR's changes are finitely many); batches, corrections and settlements have
none.  For the mock: a sleep ends (weak fairness of `Serve(c)`).  Users, crashes, late calls and the
choice of answer or outcome have no fairness.

## Proofs

Four modules prove about `OutboxProcessing`, for every set of requests and polls,
every day count, every limit and any number of crashes and cancellations.  What a
theorem assumes besides is in its statement:

| theorem | states | as long as |
|---|---|---|
| `TypeCorrect` | `TypeOK` | - |
| `ApprovalsConfirmed` | `ApprovedIsConfirmed`: no request is approved, or being cancelled after approval, unless the HCM recorded its deduction | - |
| `BooksOnce` | `HcmBooksOnce` | - |
| `AuditComplete` | `AuditFollowsState` (which speaks of the time before the first crash) | - |
| `RefusalsStand` | `RejectedIsUnbooked` | `NoDaysReturned` |
| `RowsShared` | `SharedOnlyByLapse`: two polls have a row only if that row lapsed | - |
| `CallsAreBounded` | `CallsBoundedButLapsed` | the row did not lapse |
| `RowsStaySettled` | `SettledStayButLapsed` | the row did not lapse |
| `OneRowAtWork` | `OneRowInOrder`: one row of a request is at work | `Orderly` |
| `MovesKept` | `LifecycleInOrder`: each step of a request follows the table | `Orderly` |
| `LifecycleKept` | `LifecycleSpec`, the refinement of `RequestLifecycle` | `Orderly` throughout |
| `ReservationKept` | `ReservedInOrder`: `pending_days` is the sum over the requests in flight | no row lapsed, no turn torn, nothing cancelled |
| `NoDayTwice` | `NoOverbookingInOrder`: no more days are promised than there are | the same, and no answer overtaken |

The conditions are about what has happened, not about what the constants allow: a
theorem covers every behaviour, with any number of overlapping polls, shared
milliseconds, slow batches and crashes, up to the first event it excludes.

* A row *lapsed*: see History above.  These are the two ways in which the code lets
  two polls have a row, and `RowsShared` says that there is no third.
* `Orderly`: no row lapsed, and no turn was torn or nothing was cancelled.
* `NoDaysReturned` is the one condition on constants: nothing is cancelled, or the HCM
  does not find what it is to reverse (the repository's mock does not).

None of them can be dropped.  TLC finds violated:

* with lapsed rows, by `SameMillisecond` as well as by slow batches (`SlowCalls = 1`),
  which both take batches of two (`ClaimLimit = 2`): `CallsBounded`, `SettledRowsStay`, `LifecycleSpec` and
  `PendingIsReserved` though nothing is cancelled, `OneActiveRow` with one
  cancellation, and `NoOverbookingInOrder` without its first conjunct;
* after a torn turn and a cancellation (one of each): `OneActiveRow`, `LifecycleSpec`;
* without `NoDaysReturned` (`MaxCancels = 1`): `RejectedIsUnbooked`; a reversal makes
  room for the late call of a request that is being refused;
* with a cancellation, `PendingIsReserved` (the run `cancel_keeps_deduction`) and
  `NoOverbooking`;
* after a torn turn, `ReservedInOrder` and `NoOverbookingInOrder` without `~torn`;
* after an overtaken answer, `NoOverbooking` (the run `overlapping_polls_overbook`).

`IdempotencyProofs` proves for every set of calls with any bodies and any number
of crashes:

* `IdemTypeCorrect`, `ClaimsOwned` (`ClaimHasOwner`), `ClaimsPrecede`
  (`ClaimBeforeRun`), `ResponsesFinal` (`ResponseIsFinal`);
* `AnswersAlwaysAgree`: `KeyUnique` implies `Spec => []AnswersAgree`.

`BatchSyncProofs` proves for every set of balances, page size and number of
changes, pushes, crashes and mishaps:

* `SyncTypeCorrect`: `Spec => []SyncTypeOK`;
* `NeverSkipped`: `Spec => []NothingSkipped`;
* `OthersAreKept`: `HistorySpec => []OnlyPassedOverSkipped`, after any number of mishaps;
* `ImplementsCache`: `Spec => CacheSpec`, the refinement of `CachedBalances`.

`BalanceRowProofs` proves for every set of requests, additive `daysOf`, set of
runs and entitlements, and any number of versions, calls, cancellations, mishaps
and crashes:

* `RowTypeCorrect`: `Spec => []RowTypeOK`;
* `PendingCorrect`: `Spec => []PendingCountsInFlight`;
* `PromisesCounted`: `Spec => []PromisedDaysAreCounted`;
* `TotalsDated`: `Spec => []TotalMatchesDate`.

`HcmMockProofs` proves for every set of requests, calls, behaviors and counts:
`HcmTypeCorrect` (`HcmTypeOK`), `EffectsOnce` (`EffectsHappenOnce`),
`ContractKept` (`AnswersKeepContract`), `OverdrawsInvalid` (`OnlyInvalidOverdraws`).

`ApprovedIsConfirmed` is not inductive: whether an approval is backed is decided
turns earlier, when the answer came.  The invariant that is (`Backed`) adds that
an OK or DUPLICATE answer in a poll's hands is backed (`AnswerIsBacked`) and so
is the verdict of a settlement in progress (`VerdictIsBacked`).  Two facts carry
it: the HCM never forgets a transaction, and rows keep their event and request
(`RowsKept`), so the row a poll reads after the await names the request the call
was about.  Each action has its own lemma for types and for `Backed`.  The
assumptions are those of the modules (`LedgerAssumption`, `CancelAssumption`,
`PollAssumption`); nothing bounds the constants.

The other invariants of the outbox build on one another.

* `TurnInv`: one poll at a time is in a turn (`OneTurn`), and a request's newest
  audit row is its state unless that poll has yet to write it (`LogLags`).
* `RefusalStands`: a refusal in a poll's hands, a verdict that follows from one, and
  a refused request are all about days that the HCM could not book now
  (`Unbookable`); as no booking makes room, late calls and repetitions find none.
* `Owned`: that what is stamped in this millisecond is not for the watchdog
  (`StampsAreFresh`), and (`RowsHeld`) of every row that did not lapse, besides
  `SharedOnlyByLapse`, that what one poll holds is too young for the watchdog of
  another (`HeldIsFresh`), that what a poll claimed is still in process and as the
  poll knows it (`Keeps`), and that attempts count the calls made or about to be
  (`AttemptsCover`).  Ownership rests on freshness, and `CallsBoundedButLapsed` on
  ownership: a count that was read before the await is the row's own only if nobody
  else counts.  That a lapse is about its own row is what makes this inductive row
  by row.
* `Lifelines`: one deduction row per request and a reversal only after it is settled
  (`RowsInOrder`), an approval that is written is followed by the closing of its row
  (`ApprovalCloses`), and the copy a processor decides by is the request's state
  (`SeenIsState`).  The last makes each unchecked write a move of the state machine.
  All three hold as long as the behaviour is `Orderly`.
* `BooksBalance`: the HCM's `used_days` has at least the days of its transactions, so
  its `Math.max(0, ...)` never cuts a reversal.
* `Reserved`: a row that is not settled is that of a request in flight, but between
  the verdict and the closing (`WorkInFlight`); no row runs out of attempts without
  a verdict the state machine allows (`NothingStuck`); `pending_days` is the sum over
  the requests in flight less the one whose days the present turn has released.
* `Covering`: `used_days` covers all that is approved (`UsedCovers`), and each figure
  that an answer in a poll's hands would put in its place covers that and its own
  request (`FiguresCover`).  `NoOverbooking` alone is not inductive, as `used_days` is
  overwritten by what the HCM answers.  `counted` remembers which transactions a
  figure has in it, and a figure covers what is approved as long as it has every
  approved request: just what an approval that overtakes it takes away.

`DaysOf` is a recursive function on finite sets, out of reach of the library's
induction theorems; what it does with one element more or less, with subsets and
disjoint unions is proved by way of a smallest counterexample.

The interceptor's invariant is `Claims`: a call between its first look at the
table and its last statement there is the primary in `inFlight`; hence the row
it finds, inserts, completes or deletes by key is its own.  `Backed` adds that a
stored response, an answer, and a call about to store one name an execution that
committed; with a UNIQUE key column there is at most one.

The invariant under `NothingSkipped` is `SyncInv`: nothing under way is newer
than the HCM (`NothingAhead`); a pushed batch has the present version of whatever
did not change after it (`PushesComplete`), which is why a late push may move the
checkpoint back or forth.  Beside it `OnTrack(b)` follows the pull through its stages
for one balance: while it waits for its first answer, b is up to date or newer than
its `since`; from then on, up to date, newer than its snapshot, or in its page or its
rest; and before its first page is applied nothing depends on it, so it may be lost.
A step that does not pass over b keeps b on track (`StepOnTrack`): for
`OnlyPassedOverSkipped` that is done for each balance by itself, and until the first
mishap no step passes over any.

In `BalanceRow` the invariants build on each other.  `Flow` says which outbox row a
request is at and what the HCM knows of it by then: an answered deduction has a
transaction, a request whose call is out is PENDING_HCM, or CANCELLING if it is a
reversal.  So no verdict meets a request that is not in flight, and with that
`PendingCountsInFlight` is inductive, each step by one use of the additivity of
`daysOf`; `Reserved` is its half that outlives cancellations, until the first
mishap.  That approved days are in `used_days` (`Counted`) is not inductive, since
a fetch or a record replaces the figure by another.  It needs `Booked`, that the
HCM's present `used_days` has every day of its transactions, and `Dated`, that so
has every version from the row's on, of the approved and of the deductions answered
by then: whatever may still be written has what the row has to have.  A mishap is
just what lets an earlier version in.

In `HcmMock` the action properties follow from the types alone and the one
state fact that a call which is SLOW was told to be; the case split over the
handlers is the work.

Only model-checked is liveness, since no prover for fairness is used:
`RequestsResolve`, `CancellationsResolve`, `CallsEnd`, `CatchUp`, `ReadsHeal` and
`EveryCallEnds`.  Every safety invariant and action property of the passing runs is
stated by a theorem, and so are both refinements.  `SettledRowsStay` and
`OneActiveRow` are so as `RowsStaySettled` and `OneRowAtWork`, which imply them where
no row lapses and nothing is torn, as in `outbox_overlap`.

## Not modelled, and the plan

What could follow, in this order:

1. `OutboxProcessing` over the row of `BalanceRow`: settlements cut in two by a
   crash while batches and fetches write the same row.  Each is modelled alone;
   together they are beyond the state spaces that can be run here.
2. Rules for `balance_get` and `batch_get` and the `stale_timestamps` of the push
   job, which give a record an older date than its figures.
3. Two changes within one millisecond (`hcm-batch.service.ts:45`), which needs a
   clock apart from the versions.
4. What remains of `pending_days` after a torn turn: an upper bound that fails by the
   days of the settlements that crashes cut.

Left out on purpose: `validateDto` and `computeBusinessDays` (pure, and tested
over the cases that differ), `withBalanceLock`'s own fetch (its callers have just
made sure that there is a row, and nothing deletes one), the call log, the drift
and change logs, which are written and never read.

Outside the models for good: routing, DTO and header checks, error bodies, health
probes, wiring, logging and the demo scripts; they keep no state that a property
is about.  Access rules of the controllers are outside the subject.


## Findings

Five are violation runs; `PROJECT.json` quotes the line each refutes.

* `cancel_keeps_deduction`: a request cancelled while SUBMITTED releases its
  days and leaves the deduction row; the processor then books the days in the
  HCM for a cancelled request, releases days a second time, and throws.
* `overlapping_polls_overbook`: answers of two polls applied out of order put an
  older `used_days` over a newer one, and a day is promised twice.
* `checkpoint_skips_pages`: the checkpoint is stored per page with the time of the
  whole snapshot, so a pull that ends between two pages never fetches the others.
* `inflight_looks_like_drift`: the adjustment by `pending_days` that is to keep
  requests in flight from looking like drift makes them look like it.
* `slow_batch_outlives_watchdog`: the fifth row of a batch waits behind four calls of
  up to 8 s, is reset after 30 and claimed by another poll as well, where
  docs/06-concurrency-and-idempotency.md:138 has "no other worker can claim them".  A
  second way is a poll that starts in the millisecond of another's stamp and collects
  the other's row with its own (`outbox.repository.ts:29`); `RowsShared` proves that
  there is no third.

Two are differences between the docs and properties that hold:

* `AnswersAgree` (`idempotency`): the interceptor compares bodies and answers 409 when
  they differ.  So say docs/03-api-contracts.md:94 and docs/08-test-strategy.md:230;
  docs/06-concurrency-and-idempotency.md:260 says that it "does NOT compare bodies".
* `AnswersKeepContract` (`hcm_mock`): docs/hcm-mock/01-api-spec.md:103 says of `/deduct`
  that it answers 200 "5% of the time" without applying the deduction, and :104 that
  it answers 500 to 3% of valid calls.  The mock does neither: it draws latencies
  only, and silent failures and 500s come from rules that a caller sets.  The
  property includes the calls under no rule, of which the docs would have it fail.  A
  sentence about what happens some of the time is refuted by the absence of a step,
  not by a behaviour, so that no run can end in a counterexample to it.

Further disagreements that the models show under other constants, kept without a
run of their own: with `SameMillisecond = TRUE` and two requests `SingleOwner` fails
with the second row of a batch; the exhausted row of a cancelled request is never marked FAILED, since
`markFailed` throws on the transition each time the watchdog brings the row back
(docs/00-rules.md:160); with `MaxCrashes = 1` and `MaxCancels = 1` a crash after the
approval leaves a live deduction row beside the reversal (`OneActiveRow`); with
`HcmFindsByRef = FALSE`, the repository's own mock, every reversal is refused,
because the service never stores the HCM's transaction id; with `MaxCancels = 1` a
reversal lets the late call of a refused request book its days
(`RejectedIsUnbooked`); with `MaxCrashes = 1` a crash between the balance write and
the request write of a verdict makes the next poll release the reservation again
(`PendingIsReserved`); a 409 carries no balance, so `used_days` is advanced by the
request's days also when an earlier answer had included them (`used > hcmUsed`;
docs/00-rules.md:22).  In `BatchSync` an expired snapshot and a failed record each
leave balances behind the checkpoint (`PullIsRetried` with `Mishaps = {"expired"}` or
`{"failed"}`); an expired snapshot also those that changed since it was taken, as the
empty page it is answered with is dated now.

In `BatchSync` with `Mishaps = {"overtaken"}`, `[][local'[b] >= local[b]]_vars` fails:
the late answer of a real-time fetch overwrites a newer version, and no pull
repairs it, since the checkpoint is past it (`modules/balance/balance.service.ts:62`;
docs/05-sync-strategy.md:253: "Real-time fetch returns older timestamp than local |
Skip update (log warning)").  In `Idempotency` two calls may be in the handler
together: when a call fails, all that waited for it run the handler at once,
without a claim (`idempotency.interceptor.ts:64`; docs/00-rules.md:32: "This
prevents duplicate execution under concurrent retries"), and only the UNIQUE key
of `time_off_request` stops the second effect.

In `BalanceRow`:

* an approval dates the whole row by its answer, so `TotalMatchesDate` without
  `NothingSettled` fails: the entitlement stays wrong under a date that makes a
  batch skip the right one and forbids the correction;
* a correction is allowed by the snapshot's timestamp, not the row's
  (docs/00-rules.md:141: "strictly newer than local `hcm_last_updated_at`"): it
  may date a row back that a settlement or a batch has moved on meanwhile;
* a batch counts CANCELLING requests as pending (`batch-sync.service.ts:134`;
  docs/02-data-model.md:21 does not), and the confirmation of a reversal never
  takes them out again: `PendingCountsInFlight` without `reversals = {}` fails;
* `markFailed` of a reversal releases days that are no longer reserved, those of
  another request if there is one (`outbox.processor.ts:264`).

In `HcmMock` a forced 409 on a deduction uses up its rule and does nothing else
(`hcm-deduct.controller.ts:84`; docs/hcm-mock/01-api-spec.md:210 lists it for every
endpoint); and without the exception for "slow" `AnswersKeepContract` fails: a call
that slept while its `externalRef` was booked is answered 422 or 500, where
docs/hcm-mock/03-behavior-rules.md:11 has 409.
`getOrFetchBalance` never gets to its 404 (`balance.service.ts:44`): a 404 is not
a success, so an employee without a balance is told that the HCM is unreachable.
