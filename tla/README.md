# Verification of the ofertasSUPER price pipeline

ofertasSUPER compares supermarket prices in Argentina. Once a day it reads the
stores' public catalogs, writes what it saw into PostgreSQL, exports a snapshot
of the catalog as JSON and commits it; the site and the public API only read
that file. This directory holds TLA+ models of the parts of that pipeline whose
correctness depends on the order of steps, on failures between them or on who
else is running, the TLC configurations that check them on small instances, and
TLAPS proofs of their main properties for every value of the constants.

Paths below are relative to the repository root.

## 1. Inventory

### Components, their state and their operations

| Component | Code | State it keeps | Operations | What makes it correct |
| --- | --- | --- | --- | --- |
| Store clients and adapters | `src/lib/vtex/`, `src/lib/coto/`, `src/lib/ingestion/adapters/` | none between calls | page through a search, retry, resolve a persisted-query hash, read offers by EAN, deduplicate by EAN | a read is complete or reported as failed |
| Staging and quality gates | `scripts/pipeline/stage.ts`, `validate.ts`, `src/lib/ingestion/quality-gates.ts` | `ingestion_run`, `staging_product` (UNLOGGED) | create a run, stage rows, mark rows rejected, prune old rows | a rejected row never reaches the catalog |
| Reconciliation | `scripts/pipeline/reconcile.ts` | `product`, `supermarket_product`, `price_history` | load candidates, preflight, per chunk: upsert products, release SKUs, upsert offers, append history; promote | unique indexes hold, an offer is one observation, nothing promoted disappears, the history is the history of changes |
| Catalog batch | `scripts/pipeline/cmvp-catalog-batch.ts`, `scripts/acquire-cmvp-catalog-batch.ts` | one checkpoint file per batch id, the run's status | replay, acquire, reconcile, finalize, fail | a batch id queries the store once; a batch reported ok is in the catalog; interrupted work is resumed or abandoned, never repeated |
| Daily refresh run | `scripts/refresh-catalog.ts`, `scripts/lib/refresh-gates.ts`, `scripts/lib/search-budget.ts` | none of its own | plan, run batches within the search budget, top up, export, gate, prune | nothing stale is published, and no failure passes for an answer |
| Top-up | `scripts/pipeline/topup.ts`, `topup-reads.ts` | `last_checked_at` of the offers no batch saw | read offers by EAN, write one run per source | a failed read changes nothing |
| Cloud refresh | `.github/workflows/daily-refresh.yml`, `scripts/db-state.sh` | dated database dumps in a release, `master` | guard, restore, refresh, upload, prune, commit, digest | one publication per day, the database behind a snapshot is stored before it is shown, withheld runs leave no trace |
| Local cron (manual fallback) | `scripts/cron-refresh-entry.sh`, `cron-refresh.sh` | a worktree, a lock file, a marker per day, a branch and a pull request | entry, lock, backup, refresh, branch, commit, push, merge | the branch carries the snapshot the run produced |
| Gated direct refresh: write | `scripts/direct-refresh-write.ts`, `scripts/pipeline/direct-refresh-active-write.ts`, `direct-refresh-prewrite-*.ts` | the gate's report in a file | pre-write gate, rerun, write in one transaction | writes exactly what the gate predicted, whole and once |
| Gated direct refresh: evidence | `scripts/pipeline/direct-refresh-capacity*.ts`, `direct-refresh-source-health.ts`, `direct-refresh-kill-switch.ts` | reports and the kill switch's control file | capacity audit, health verdict, binding of evidence, kill switch | a write is backed by its evidence and never starts against an order to stop |
| Ingestion command and candidate audit | `scripts/ingest.ts`, `ingest-options.ts`, `scripts/pipeline/candidate-*.ts`, `pre-reconcile-assertions.ts` | runs and staging of a batch, the audit's artifact | parse flags, read two stores at a time, gate, reconcile, count; audit, hash, rollback plan | what is written is what was asked for and audited |
| Discovery and category plan | `src/lib/discovery/`, `src/lib/vtex/category-tree.ts` | a committed plan file | rotate categories over the days | every category comes up |
| Price drops, feed, digest | `src/lib/price-drops*.ts`, `scripts/export-price-drops.ts`, `post-price-drops.ts` | `data/price-drops.json` | select drops, post | a drop is a drop against the last different price, told once |
| Catalog reading and public API | `src/lib/catalog*.ts`, `price-freshness.ts`, `public-api.ts` | a parsed snapshot per process | search, look up, classify freshness | an old price is never presented as current |
| Promotions and administration | `src/lib/admin/`, `src/lib/promotions/` | promotions and their product links | create, update, delete, capture | links and promotions agree |
| Basket | `src/lib/basket-mix.ts`, browser storage | the basket in the browser | add, remove, choose the cheapest mix | the mix is the cheapest |
| Rate limit and Redis | `src/lib/rate-limit.ts`, `redis.ts` | counters in the backend | count a request; when the backend fails admit it, or refuse a strict one | the limit holds |
| Backups and recovery | `scripts/postgres-backup-r2.mjs`, `postgres-recovery-r2.mjs` | objects in a bucket | upload, verify, promote, retain, clean up | the newest good backup survives |
| Analytics, pages | `analytics/`, `src/app/` | none | aggregate, render | outside a state machine |

### How the components interact

A batch acquires one store and term at a time: it creates an `ingestion_run`,
stages the rows, validates them, saves what it admitted in a checkpoint file and
then reconciles them in one transaction. All reconciling transactions take
`pg_try_advisory_xact_lock(2026051901)`. The daily refresh resolves its plan
from the stores' category trees, runs the batches one after the other, then the
top-up, then exports the snapshot, then evaluates its gates. Around it, the
workflow restores the newest dump before the refresh, uploads the new one after
it, selects the day's price drops from the snapshot, commits both and posts the
digest. Beside it an operator may run the ingestion command after a candidate
audit, or the direct refresh after its chain of reports. Memory is never shared
between these; they communicate through the database, the checkpoint files, the
report files, the release assets and git.

### What is hard

* Interleaving: two reconciling processes; a dispatch beside a cron window; two
  direct writes given one report; another writer between an audit and its write.
* Crashes: between any two writes of a batch, of which some go to files and some
  to the database; a commit that is not acknowledged; staging that a database
  crash empties; a refresh killed between two batches and started again.
* Partial failure: an upload, a prune, a push, an export or one read of many
  that fails after or before the steps next to it took effect.
* Order: runs reconciled in another order than they were acquired; two
  midnights, the UTC one of the plan and the local one of the batch ids.
* Retries: a batch or a whole day that is tried again after any of these.
* Stale files: reports, evidence, control files and payloads read later than
  they were judged.

`PROJECT.json` lists each hazard at its line with the properties that cover it.

## 2. Modules

| Module | Models | Proofs |
| --- | --- | --- |
| `Reconcile` | the catalog tables and the reconcile transaction, statement by statement, with several writers | `ReconcileProofs` |
| `CatalogBatch` | one batch: checkpoint files, run, staging, retries, crashes | `CatalogBatchProofs` |
| `BatchPromise` | what the daily refresh relies on when it runs a batch; `CatalogBatch` implements it | in `CatalogBatchProofs` |
| `CloudRefresh` | the workflow, the release of dumps, master, the digest | `CloudRefreshProofs` |
| `RefreshDay` | the daily refresh, day after day: plan, batches, top-up, snapshot, gates | `RefreshDayProofs` |
| `CategoryPlan`, `StoreSearch` | the plan of a day and the search of a store, operators of `RefreshDay` | in `RefreshDayProofs` |
| `ActiveWrite` | the gated direct refresh of one store beside the reconciliation | `ActiveWriteProofs` |
| `EvidenceChain` | capacity audit, health, evidence, gate, kill switch and write as files and processes | `EvidenceChainProofs` |
| `Ingestion`, `IngestGates` | the ingestion command and the candidate audit; their flags, gates and hash | `IngestionProofs` |
| `PriceDrops` | history, snapshot, drop selection, payload, publication and digest | `PriceDropsProofs` |

`MCX` gives the constants of module `X` their values for TLC.

The modules are layers: what is one atomic action in a layer is the subject of
the layer below. `CatalogBatch`'s `ReconcileCommits` is a whole transaction of
`Reconcile`; `RefreshDay`'s `RunBatch` is a whole batch of `CatalogBatch`; and
`CloudRefresh`'s `Refresh` is a whole run of `RefreshDay`. The
interface of each layer is what the upper one observes of it: `CatalogBatch`
sees only which staged rows a transaction promoted, or that it failed or did not
answer; `RefreshDay` sees that a batch completed, failed before or after its rows
were committed, or found nothing; `CloudRefresh` sees only which refreshes a
database contains. `PriceDrops` is `CloudRefresh`'s day seen from the prices.
`ActiveWrite` is beside them: its `Reconcile` is a whole transaction of the
module `Reconcile`, reduced to what it does to the offers of one store.
`EvidenceChain` is the layer above `ActiveWrite`, whose transaction is its
`Commit`; `Ingestion`'s `Commit` is a transaction of `Reconcile`.

### Reconcile

State: `started` and `staging` are the ingestion runs and their validated rows,
`products`, `offers` and `history` the three catalog tables, `promoted` the
staging rows with status PROMOTED, and `tx[w]` the open transaction of writer
`w` with its private version of the tables and the candidates still to do.

| Action | Code |
| --- | --- |
| `Acquire` | a run is created, staged and validated (`stage.ts`, `validate.ts`) |
| `Begin` | the lock, `loadCandidates`, `assertRefreshExistingPreflight` |
| `Chunk` | `reconcileChunk`: product upsert with protective merge, `releaseReassignedSkus`, offer upsert, history insert |
| `Commit`, `Rollback` | the end of `prisma.$transaction` |

A quote stands for price and list price together: the code compares both to
decide on a history point and always writes both. An EAN, a SKU, a brand or a
category is a model value, `None` is NULL. PostgreSQL returns rows in no
particular order, so which of two rows claiming a SKU in one chunk is "the last",
and which of two equally good candidates speaks for the product, is a
nondeterministic choice. A run holds one row per EAN, because the adapters
deduplicate by EAN.

### CatalogBatch

State: `files` are the checkpoint files (one per batch id: base, `-r2`, ...),
`created`, `status` and `staged` the runs and what survives of their staging
rows, `catalog` which of their rows a transaction promoted, and `pc`, `id`,
`req`, `art`, `result` the process: its next write, its attempt and contract,
the artifact in its memory and what its last call returned. Every file write and
every database write is an action of its own, so that `Crash` can come between
any two. `LoseStaging` is the crash of the database (the table is UNLOGGED),
`Prune` the retention of staging rows.

### BatchPromise

`BatchPromise` says what a caller may rely on: a store is asked once per batch
id and not after a delivery, the rows of a delivery are in the catalog, all of
them, for good, and `ok` is said of a delivered batch only. `KeepsPromise` is
`BatchPromise!Spec` under a refinement mapping: an id is asked from the moment a
run may exist for it, whole when the rows its checkpoint admitted are in the
catalog, delivered when its checkpoint is completed.

### CloudRefresh

State: `assets` are the dated dumps, `master` the committed snapshot and the
days that have a refresh commit, `digest` what the last digest told of,
`jobs[r]` the run on machine `r`, `pending` the run the concurrency group keeps
waiting. The content of a database or a snapshot is the set of numbers of the
refreshes it has absorbed: enough to say that one contains another, or what was
lost. `gh release upload --clobber` deletes the day's asset before it stores the
new one, so `UploadFails` loses it; an upload that fails before the deletion is
`Fail`. `withheld` is a history variable, the refreshes that were not to be
published.

### ActiveWrite

State: `offers`, `history`, `nextId` (the id sequence of `price_history`) and
`created` (offers ever created) are the database; `report` is the report the
operator confirmed last, `job[w]` the write process `w`, `run` an acquired run
of the store that waits for its reconciliation. `seen` and `writes` are history
variables: every quote observed, and every report committed.

| Action | Code |
| --- | --- |
| `Gate` | `direct-refresh-prewrite-gate.ts`: candidates, live lookups, row guards, selection, predicted changes, hash; the operator passes its hash and ids on |
| `Rerun` | `buildFreshPrewrite`, `assertFreshPrewriteRerunMatches` |
| `Launch` | `executeActiveWrite`: validation and age of the report |
| `Lock` | the transaction begins: advisory lock, counts, selected rows |
| `UpdateRow` | `applyPrewriteRow`: product, offer by exact identity, history |
| `Finish` | the checks after the rows, and the commit |
| `Abort` | any check fails, the transaction times out, the process dies |
| `Acquire`, `Reconcile` | another writer of the same store |

A report records what its hash covers: the selected and the skipped rows as they
were, their newest points and live answers, the predicted points, the number of
candidates and the rollback boundary; a viable row beyond the batch is only
counted, and may change without the hash noticing. The rerun stamps its report
with the first one's instant, so equal evidence gives an equal hash; the model
therefore compares the reports themselves. Updated rows stay locked until the
transaction ends (`LockedRows`); the new values and points become visible with
`Finish`.

### EvidenceChain

State: `offers` (SKU, price, last sight, whether the public ranks it), the files
`audit` (the capacity report) and `report` (the gate's), the write process
`proc`, and the history variable `written`, the report written last. The
contents of the kill switch's file are an input of `Launch`, since the file may
say something else each time it is read.

| Action | Code |
| --- | --- |
| `Audit` | `direct-refresh-capacity.ts`: candidates, lookups, guards, entry per source, recommendations |
| `Gate` | `direct-refresh-prewrite-gate.ts` with and without capacity evidence |
| `Start` | `direct-refresh-write.ts`: evidence read again, gate rerun at the report's instant |
| `Launch` | age of the report, kill switch, start of the transaction |
| `Commit`, `Abort` | the transaction of `ActiveWrite`, or any refusal or death |
| `Observe` | another writer sees an offer |

`Health` is not an action: the verdict of `direct-refresh-source-health.ts` is a
function of the files, and the properties compare it with what the gate accepts.

The recommendations of an audit take `Math.ceil` of a floating point quotient:
`100 * (55 / 100)` comes out above 55, and the code asks for 56 rows. The
constants `SharesUp` and `ScansUp` are the inputs at which a quotient comes out
above its value; `FloatCeil` counts one more where that value is whole. Elsewhere
the error is far smaller than the distance to the next whole number, and
downwards it changes no ceiling.

### RefreshDay, CategoryPlan, StoreSearch

State: two clocks (`day`, the UTC day the plan turns with, and `late`, whether it
is ahead of the local date the batch ids carry); the stores' category trees as
last read (`tree`); what survives a run (`priced`,
`seen`, `done`, `known`: prices, last sights, completed checkpoints and recorded
hashes); and the run (`pc`, `plan`, `next`, the environment's hash and the
cache of resolved ones, the counts of the summary, the reads of the top-up).
`used` (the trees read on this date), `tried`, `clash`, `today`, `whole` and `gap`
are history variables.

| Action | Code |
| --- | --- |
| `UtcMidnight`, `LocalMidnight` | the day of `resolve-refresh-plan.ts`, the stamp of `refresh-catalog.ts` |
| `StartRun` | `main` up to the plan; every run reads the trees again (`ReadTrees`), and a tree that cannot be read gives the frozen plan |
| `RunBatch` | `applyHashFor`, `runBatch`, `addOutcome`: a replay, a clash with another contract, or a search that completes, fails before or after its rows are committed, or finds nothing |
| `HashUnavailable` | no hash passes the probe: the run ends |
| `EndSearches` | the last batch, or the budget is spent; `unobservedOffers` |
| `ReadSources`, `WriteSource`, `WriteFails` | `topup.ts`: all stores are read at once, written one by one |
| `Export`, `Judge` | the snapshot, the gates and the exit code |
| `Die` | cancellation, timeout, machine |

`CategoryPlan` gives the plan of each day from the stores' trees and the
configuration, `StoreSearch` what a store's pages and answers come to: both are
functions, so that a different day, other trees or another answer is another
input. `Trees` names the states the stores' trees may be in, all stores together:
stores that change one by one go through more of them. The freshness gate
compares percentages rounded to a tenth (`Tenths`), so that a store at 89.95 %
passes a floor of 90.

### Ingestion and IngestGates

State: what the stores sell (`shelf`), the catalog, runs and staging by batch,
the command (`phase`, `cmd`, `at`, `exec`) and the audit, under way (`auditor`)
and on disk (`audit`). `IngestGates` holds the pure decisions: which flags are
safe, what the hash covers, what the last gate asks, what an audit selects.

| Action | Code |
| --- | --- |
| `AuditFetch`, `AuditRead`, `AuditWrite`, `AuditRefused` | `candidate-audit.ts`: store, then catalog, then history |
| `Start` | `parseIngestionOptions`, `validateIngestionSafety` |
| `Begin`, `Fetch`, `Validate`, `Fails` | one source: run, probe and staging, quality gates, closing of the run; two at a time |
| `NothingToReconcile`, `GatePasses`, `GateRefuses` | the end of the sources, `assertPreReconcile` |
| `Commit`, `NoCommit`, `Count` | `reconcileStageProducts`, `persistPromotedCounts` |
| `Die` | death; updates of a run may also be lost (`updateRunSafely`) |
| `ShelfMoves`, `OtherWrite` | the stores and other writers go on meanwhile |

### PriceDrops

State: the tables (`offers`, `points`) and the log of all observations (`log`, a
history variable), `data/` in the checkout and on master, the run's phase and
the channel (`posts`). `Refresh` records changes only, `ExportDrops` selects the
drops from the snapshot or fails and leaves yesterday's payload, `Publish`
pushes both or fails, `Post` tells the channel. `Fall` defines a fall of a price
from the log, independently of the history the code selects from; only the
percentage is the payload's, to the nearest hundredth, because the thresholds
and the ranking compare rounded percentages. A half is rounded up; the code
rounds a float, which may differ at an exact half. A point in the snapshot keeps its
instant, so the points an offer carries are a set.

## 3. Runs

| Run | Specification and bounds | Checks |
| --- | --- | --- |
| `any` | `Spec`; 2 stores, 2 EANs, 2 SKUs, 2 quotes, 3 runs, 2 writers, chunks of 1, 2 transactions | unique SKUs, offers are observations, nothing promoted disappears, the shown quote is in the history, refresh-existing creates nothing, protective merge |
| `ordered` | `SpecInOrder`; 1 store, 3 runs, chunks of 2, 3 transactions | the price shown is the newest point, the history records changes only, `last_checked_at` never goes back, a replay changes nothing |
| `crash` | `FairSpec`; 2 rows, 2 contracts, 2 attempts, 1 crash | one acquisition per id, only admitted rows promoted, SUCCESS means promoted, a completed batch is final, `BatchPromise` is kept, every call that does not die ends with a verdict on file (`CallsEnd`) |
| `replay` | `Spec`; 1 attempt, no crash | violated: a completed checkpoint that does not replay |
| `cloud` | `Spec`; 2 machines, 3 days, 4 runs, 2 dumps kept | nothing withheld gets out, one scheduled publication a day, a snapshot is stored when it is committed and until an upload fails (`OnlyUploadsPart`), what earlier days' dumps hold is neither lost nor left out of a younger one (`EarlierDaysAreKept`), the digest is published and stored |
| `direct` | `Spec`, no other commit between rerun and commit; 1 writer, 2 offers, batch of 1 out of a scan of 2, prices 1 and 4, 4 instants | a report is written once and offers show what was seen (`QuietInv`), the written quote is the newest point, the rollback boundary |
| `direct_overlap` | `Spec`, anybody commits at any moment; 2 writers, 2 offers, batch of 2, prices 1, 2 and none, 3 instants | a commit is whole |
| `direct_twice` | the same with one price and batches of 1 | violated: a report written twice |
| `chain` | `Spec`; a store with a writer and 2 offers, one without and 1 offer, batches of 1 and 2, a scan of 2, 2 issues, 5 control files, 3 instants | evidence backs a write, the plan of an audit reaches its goal, an order to stop is obeyed, no evidence from a failed audit, a healthy source is accepted (`Inv`) |
| `day` | `Spec`; 2 stores, 2 offers, 3 categories, two trees of which the second lacks one, a cycle of 2 days, one batch at least, pages of 1 out of 3 records | no stale store is published, what is published was looked at and a hash belongs to its store (`Inv`), a clash of contracts has its cause, every category comes up, a failed read takes no price |
| `ingest` | `Spec`; 2 stores, 3 EANs, 6 quotes, 2 commands, 1 move of a shelf, 1 write of others | exactly the expected EANs are written, to the cent as audited, all or none and never of a failed run (`Inv`), the rollback plan undoes the write |
| `drops` | `Spec`; 2 offers, 7 quotes, days of 2 ticks, 4 ticks, 3 runs | the payload tells the falls, no digest twice (`Inv`) |

Why the bounds are enough. Two EANs and two SKUs in one store are the least with
which SKUs can be swapped, contested and dropped; chunks of one row put every
statement of one row before every statement of the other; three runs give an
old, a new and a replayed one. A retry needs two attempts; with one crash it may
come in the first attempt or in its recovery (two crashes pass as well, in more
time). Three days with two dumps kept make the prune delete, let a run cross
midnight and leave a day after it; four runs are a failed one, its backup, the
next day's and a dispatch. Two offers are a selected and a skipped row, or two
rows of one transaction; prices 1 and 4 are further apart than the limit of 200 %
upwards and within it downwards; four instants are a gate, a launch, a run in
between and one more gate or launch. In `chain` an instant each goes to an
audit, a gate and a launch, so that a control expiring at the third expires in
time; a sold out product passes the gate and not the audit, a price 900 % away
neither. In `day` two days are a whole cycle of the plan (`RefreshConstants`
asks for it), one store has two categories for one slot, so that a category is
left out each day, and one batch is the least after which the budget may end
the searches; the frozen plan takes the hash the discovered one does not. The
second tree leaves that store with one department of one name, so that a run
which reads it plans other searches than the run before. In `chain` the
pairs at which floating point rounds up stand in for larger ones (25 rows at
28 %, a target of 21 with 7 viable rows of 10). In `ingest` two commands are a
batch that fails and the next one, or the same write twice. In `drops` the window
is a day and a half and an offer stale after a day, so both are crossed within
the bound; the payload holds one drop and the other offer's fall must be ranked
out.
Clocks and counters are bounded, so the runs other than `day` do not check
deadlock: behaviours end where the bound does.

Fairness. Only `crash` uses it, for `CallsEnd`: `WF_vars(Step)`, a process that
has been started goes on, nothing in a batch waits for anyone. That a batch is
called again is not assumed, because nothing in the code guarantees it: ids carry
the date, a cloud runner starts without checkpoints, and the marker of the local
cron allows one attempt a day. Crashes, lost staging and operator calls are not
fair either. `CoveredInWindow` needs none: it counts days of whole plans instead
of asking that there be any.

## 4. Proofs

All proofs are for arbitrary constants; from the named assumptions `ConstantsOK`,
`LimitsOK`, `BoundsOK`, `ActiveWriteOK`, `EvidenceOK`, `AnswersOK`, `ControlsOK`,
`PlanConstants`, `SearchConstants`, `RefreshConstants`, `GateConstants`,
`IngestionConstants` and `PriceDropsConstants`, which TLC evaluates in every run
of their module. Every safety and action property the passing runs check is a
theorem.

* `ReconcileProofs`. `SkuUnique`, `OfferIsObservation` and `PromotedIsVisible`
  speak of committed tables, but a commit installs the writer's private tables;
  so each is strengthened to hold of the tables of every open transaction, and,
  for visibility, to the fact that the lock holder began from the current
  tables, so that its commit takes nothing back. `SkuUnique` needs that a batch
  holds at most one candidate per store and EAN (`CandidatesKeyed`).
  `OfferQuoteIsInHistory` is claimed of offers and points of one transaction
  together (`ChartInv`); `ProtectiveMerge` and `RefreshExistingCreatesNothing`
  compare the lock holder's tables with the committed ones (`MergeInv`), which
  nobody else can change before it commits.
  The second part is about `SpecInOrder`. One fact carries all four properties:
  tables hold for every offer the newest of the candidates they were made from,
  and its history ends with that quote (`Tables`). A chunk that is in order keeps
  it (`ChunkNewest`, `ChunkEnds`, `ChunkChanges`); a chunk is in order
  (`ChunkFits`) because the lock is held from the moment the order was looked at,
  and because two runs never share an instant, so that a candidate of the same
  instant is the same row.
* `CatalogBatchProofs`. The invariant (`IInv`) says what a checkpoint's verdict
  guarantees about staging, catalog and status (`FileInv`), what process and file
  agree on before each write (`OpenInv`, `AcquireInv`, `ReconcileInv`) and that
  ids are used in order. `CountIsEnough` is the reason why comparing two counts
  suffices: staging only loses rows, and a subset of the same size is the set.
  `KeepsPromiseCorrect` is the refinement: under the same invariant every step
  of the batch is a step of `BatchPromise` or a stutter.
* `CloudRefreshProofs`, without any assumption about how uploads fail.
  `WithheldStaysOut` and `ScheduledOncePerDay` follow from the fact that one run is
  under way at a time and a withheld refresh is known to its own run only.
  The dumps need an invariant that follows a run's database (`RunStored`): until
  its upload it holds all that any dump holds, afterwards it is the newest dump,
  because dumps are never dated in the future. So a younger dump holds what an
  older one does (`DumpsGrow`). Hence `DigestIsPublished` and `OnlyUploadsPart`: a
  commit shows what is stored; a prune leaves that in place because the newest
  dump is never pruned (`PruneSpares`), an upload because the run's database holds
  all that the dump it replaces does. `EarlierDaysAreKept` is `DumpsGrow` and the
  fact that a prune which keeps two dumps keeps the youngest of an earlier day
  (`PruneKeepsEarlier`).
* `ActiveWriteProofs`. `CommitIsWhole` needs two facts that no single statement
  of the transaction establishes (`WriteInv`): a row already updated still has
  its SKU and its predicted point at the commit, because it is locked against
  the reconciliation that would take the SKU; and every instant a report saw is
  older than the report, so that `last_checked_at` is always among the changed
  fields. Proved for overlapping writers and without, from `ActiveWriteOK`.
  `QuietTables`, `WrittenQuoteIsNewest` and `RollbackIsExact` are for
  `Overlap = FALSE`; with overlap `direct_twice` refutes what they rest on.
  `WrittenOnce` and `OfferIsSeen` are not inductive. `QuietIndInv` adds that a
  report past its rerun describes the tables as they are (`ReportsHold`), and
  where each instant of an offer comes from: a report that was written no longer
  describes its offers (`WrittenIsStale`), because the instants it read are gone
  and no run or report under way can bring them back (`RunIsNew`,
  `OneReportPerGen`). The newest point and the rollback boundary follow from ids
  and instants that grow together (`IdsInOrder`, `StartedAfter`, `PointsFit`).
* `EvidenceChainProofs`. What a write rests on was decided when its report was
  made, and three variables may hold that report since; `IInv` says of each what
  the gate established (`Backed`), so no later step need look at the capacity
  file. `EvidenceSays` reads the gate's refusals backwards: no reason to refuse
  means the scope, the class, the count and the rows are right, and then the
  audit has not failed. `HealthSays` does the same for the verdict on health.
  `PlansReachGoals` is arithmetic from `CeilDivBounds` and `FloatCeilBounds`, for
  every number of offers and whatever the floating point rounds up.
* `RefreshDayProofs`, for any trees, quotas, pages, answers and faults. First the
  plan: its terms are names of the store's matched departments, and a quota that
  reaches every department gives each the name whose turn the day is. Its
  operators are recursive functions, so an induction over a list is an argument
  about a least counterexample (`LeastNat`) or a longest prefix that is right
  (`LargestNat`). Then four invariants. `RunInv` has the types, the plan of the
  run, its counts and whose hashes are kept, hence `Inv`. `TopUpInv` follows every
  priced offer from the reads to the snapshot: it was looked at in this run, or
  its answer waits for its store's write, hence `PublishedStoreIsFresh`, with the
  half tenth that rounding gives away (`RoundedTenths`).
  `CheckpointsOfDay` says that until the UTC day turns a date's checkpoints are
  those of its plans from the trees its runs read, which leaves a clash to the
  hours between the midnights and to trees with different plans
  (`ClashHasCause`). `GapsFit` bounds the days a name was not searched by the
  days since its turn, which `CoveredInWindow` needs and does not say.
* `IngestionProofs`, in three layers. `TypeInv` has types, and one row per EAN.
  `BatchInv` carries what the last gate decides on, the executions in memory, over
  to what the transaction takes, the staged rows: the hash of an execution is
  that of the rows staged for it until the commit (`Hashed`), nothing of the batch
  is taken before it (`Fresh`), and past the gate all of it passed (`PassedGates`).
  Together flags, health and gate leave one store with exactly the expected rows
  (`ReadyToCommit`), hence `PromotesExpected` and `WholeOrNothing`. `AuditInv` ties
  the audit's file to the catalog until somebody writes, hence
  `WritesWhatWasAudited` and `PlanUndoesWrite`.
* `PriceDropsProofs`. `ToldOnce` rests on `ChannelInv`: a scheduled run begins on a
  day of which nothing was posted, because what was posted is of days with a
  refresh commit, and what it posts is of the day it posts on. For
  `PayloadIsRight`, a history is the set of changes of a log (`Agree`); the newest
  different point is the first observation of the newest stretch at another
  price (`SinceFacts`), and of an offer that is not stale nothing inside the
  window is cut from the snapshot (`LastDifferentFacts`), by age because the
  snapshot keeps more than window and age together, by number because
  instants grow by one at least (`IncreasingByOne`). Ranks are an injection
  of the drops into as many places, so a ranking lists every drop once and after
  those that outrank it (`RankedFacts`).

Only model-checked: `CallsEnd`, a liveness property under fairness, which
is out of the prover's reach; that the runs of two modules, one as the layer
below the other, fit together is argued in section 2 and neither checked nor
proved, except for `CatalogBatch` and `BatchPromise`.

The proofs found two statements that only the bounds of a run had made true. An
offer that falls to a price of 0 is no drop, and drops are compared by their
rounded percentage and then by amount, so a slightly smaller exact percentage
may come first (`price-drops.ts:128`, `price-drops.ts:210`); `Fall` and
`PayloadTellsTheFalls` now say so.

## 5. Where code and documents disagree

Shown by a run:

* `replay`: a batch that failed to reconcile once and then succeeds is saved as
  completed with the old error still on its run (`cmvp-catalog-batch.ts:281`);
  its checkpoint never validates again, although the runbook says a completed
  batch replays.
* `direct_twice`: the drift check runs before the transaction and outside the
  advisory lock. Two processes given one report both pass it, and the second
  writes the same rows again after the first has committed; the report's own terms
  ask for a new run of the gate "before any future write"
  (`direct-refresh-prewrite-gate.ts:738`).

Met while modelling; the models follow the code:

* `gh release upload --clobber` removes the old asset before it stores the new
  one (`db-state.sh:136`). A second run of the day whose upload then fails takes
  the dump of the published snapshot with it, although `docs/RUNBOOK.md:221-222`
  says that database state and snapshot never diverge, and `docs/RUNBOOK.md:176`
  that history is never deleted. What holds is that nothing else parts them
  (`OnlyUploadsPart`), and that earlier days' dumps lose nothing
  (`EarlierDaysAreKept`).
* The stores' category trees are fetched in every run
  (`resolve-refresh-plan.ts:116-122`), so two runs of one UTC date build the same
  plan only if the trees have the same one, although the comment at
  `resolve-refresh-plan.ts:89-90` says they always do. A second run of the date
  then meets checkpoints of another plan and fails. What holds is `ClashHasCause`.
* The dump is stored before the push (`daily-refresh.yml:174`), so a run that
  fails in between leaves the stored database ahead of the snapshot.
* `price_history` records changes only, so a price that was stable for longer
  than the window of 14 days has its only point before the window; when it then
  falls, no drop is told, although `docs/RUNBOOK.md:288-289` speaks of the last
  different observation. `Fall` has this window too. The same drop is told every
  day while the price stays, each day under a new feed entry, although
  `price-drops-feed.ts:4-7` says otherwise. The snapshot carries no unit price,
  so the unit price check never decides.
* The promotion gate counts the promotions captured at every store as reads of
  `carrefour`, and a read without a promotion as none (`refresh-catalog.ts:183`).
* An offer observed without a price is not read again by the top-up
  (`topup.ts:56-64`; `docs/RUNBOOK.md:140`), and a store without priced offers has
  no row in the freshness gate (`refresh-catalog.ts:145`).
* A store whose quota is below the number of its departments may skip categories
  for ever when the numbers share a divisor (`category-plan.ts:200-204` says every
  department reaches a slot and every child reappears); `CoveredInWindow` speaks of the
  stores whose quota reaches all departments. Of two categories with one name only
  the first path is searched.
* The order of sources never rotates, so a spent budget always skips the same
  last stores (`refresh-catalog.ts:285-290`; `search-budget.ts:4-6`).
* The second page of a Coto search asks for a smaller page by number when the
  limit is no multiple of 200, so it may read other records than the next ones
  (`coto/client.ts:246-250`); `StoreSearch` pages the same way.
* Neither the rollback plan of a candidate audit nor its age is ever checked in
  the code that would apply it, and a run stays SUCCESS when the reconciliation of its
  batch throws (`ingest.ts`).

## 6. Assumptions and limits

* One process works on a checkpoint at a time (the lock of the cron entry and
  the workflow's concurrency group see to it; the batch command does not).
* A dry run of a batch writes nothing and is left out of `CatalogBatch`; a dry
  run of the workflow is in `CloudRefresh`, one of the ingestion in `Ingestion`.
* Every refresh changes the snapshot, because it carries the instant it was
  generated; so the commit step always has something to commit.
* `gh` is external: an upload stores the whole dump or fails, and a failed one has
  deleted the asset of its name or not. An asset that is listed although its
  upload never finished is not modelled.
* A freshness goal is a whole percentage, although the flag takes decimals.
* `releaseReassignedSkus` follows the order of reconciliation, not of
  observation, so that a run reconciled late takes a SKU back from its newest
  EAN.
* Availability, promotions, images and text normalisation are not in
  `Reconcile`; they decide no guard that its properties depend on. In
  `ActiveWrite` the texts of a product, its availability and the other fields of
  an offer are left out, and an offer has one SKU that it may lose and get back;
  the direct write overwrites texts without the protective merge.
* The reads of a gate or a rerun are one action: they have no transaction around
  them, but each row is read by one query, and the runs that speak of drift let
  nobody commit in between. A live answer the row guards reject for whatever
  reason is the price 0.
* `Overlap = FALSE` is the runbook's "Only one writer may be active"
  (`docs/RUNBOOK.md:246`), asked only from a rerun to its commit.
* In `ActiveWrite` the kill switch is an `Abort` and the capacity evidence is left
  out; both are `EvidenceChain`'s. There a file's hash is its content, and the
  operator confirms the report that is there. Evidence has no age limit in the code and
  none in the model; the optional threshold that fails a health audit is left
  out.
* `RefreshDay` keeps of an observation whether this run, this date, the date
  before or an older one made it; `early` chooses which side of 24 hours
  yesterday's are on. The midnights come between runs, because a run reads its
  day and its date at its start. One attempt of a batch is one action: a failed
  attempt leaves a used id behind, which `CatalogBatch` models. The operator's
  flags `--date` and `--batch` are left out. The verdict of a quality gate is an
  input.
* In `Ingestion` a quote stands for price and texts, an answer of a store is any
  part of its shelf up to the size asked for, and SHA-256 is the payload it
  covers. The metrics, alerts and the shadow SLA report and change nothing else.
* In `PriceDrops` prices are cents; the rounding of a percentage is the code's.
  `PriceDropsConstants` asks for what the defaults keep by a wide margin: the
  snapshot's 90 days exceed window and age of an offer, and its 200 points what
  14 days of runs can add, one point a tick at most.

## 7. Not modelled, and what is left

* The local cron is a manual fallback around the refresh `RefreshDay` models. It
  has hazards of its own: the entry checks out master and cleans data in a
  worktree whose refresh may be running (`cron-refresh-entry.sh:34`), and the
  marker of the day is looked at before the lock is taken and not after
  (`cron-refresh.sh:25`).
* Catalog reading, basket, pages and analytics are functions of one immutable
  file. The freshness policy would be worth operators of its own.
* The rate limit's counters are the backend's; the code keeps no state between
  requests.
* Backups: upload, validation, promotion, manifest and retention would make a
  module (a manifest never without its archive, retention never takes the newest
  pair, a failing backup removes only its own files).
* Promotions and administration are single statements guarded by foreign keys.
* Proofs left: the layers. A transaction of `Reconcile` refines the commit
  `CatalogBatch` makes of it, and a day of `RefreshDay` the `Refresh` of
  `CloudRefresh`, once refinement mappings are written for them.
