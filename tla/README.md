# Verification of UK AQ Ops

TLA+ specifications of the operational core of `uk-aq-ops`: what moves, archives,
copies and deletes observations, and what schedules and watches that work. TLC
checks the modules on small instances; TLAPS checks the proofs in the `*Proofs`
modules for every value of the constants.

    tlc -config prune_one.cfg MCPruneDaily            # also prune_days, claim_retry
    tlc -config cron_race.cfg MCCronScheduler         # also cron_live
    tlc -config cron_expression.cfg MCCronExpression
    tlc -config cron_health.cfg MCCronHealth
    tlc -config outbox_flush.cfg MCOutboxFlush
    tlc -config history_tree.cfg MCHistoryTree
    tlc -config partition_drops.cfg MCPartitionMaintenance
    tlc -config snapshot_jobs.cfg MCLatestSnapshot
    tlc -config dropbox_backup.cfg MCDropboxBackup
    tlapm PruneDailyProofs.tla                        # HistoryTreeProofs, CronSchedulerProofs,
                                                      # CronHealthProofs, OutboxFlushProofs,
                                                      # PartitionMaintenanceProofs, LatestSnapshotProofs,
                                                      # DropboxBackupProofs

`PROJECT.json` lists every run, the code lines behind every definition, the
mutation each property was tried against, the hazards, the theorems and the
finding.

## 1. The system

Observations enter **IngestDB** (Supabase/PostgreSQL) from ingest functions of
another repository. An outbox carries them to **ObsAqiDB**, which serves recent
data in daily partitions; queue messages carry them to the **latest snapshot** in
R2. **Prune Daily** archives old days of IngestDB to Parquet under a tree of
manifests in Cloudflare **R2** and then deletes them. **Partition maintenance**
drops the days of ObsAqiDB that R2 holds. The R2 tree is copied to **Dropbox**,
which the integrity tools use when they repair R2. Everything runs from a minute
scheduler on Cloudflare, with a watchdog on another machine beside it.

| part | module | state it keeps | operations | talks to | hard because |
|---|---|---|---|---|---|
| Prune Daily (`workers/uk_aq_prune_daily`) | `PruneDaily` | candidate rows, connector-day gates, run memory | Phase B backup, compare, repair, late arrivals, deletion transaction | both databases, R2 | rows change under it at every step; crashes; ambiguous COMMIT; irreversible deletion |
| Gate and source identity (`workers/shared/uk_aq_connector_day_gate.mjs`, `uk_aq_prune_connector_source_identity.mjs`) | `PruneEvidence` | gate row | close, open, validate | IngestDB | evidence written by one run, trusted by another |
| Observation history (`workers/shared/uk_aq_observation_history_*_v3.mjs`, `uk_aq_r2_*`, `scripts/uk_aq_history_integrity`) | `HistoryTree` | connector, day, month, year, root manifests, index | publish a batch, finalise, repair a day, rebuild aggregates | R2, advisory lock | many objects, no transaction |
| Outbox flush (`workers/uk_aq_observs_outbox_flush_service`) | `OutboxFlush` | claimed entries | claim, upsert, receipts, resolve | both databases | four RPCs, any may fail |
| Cron scheduler (`cloudflare/scheduler`) | `CronScheduler`, `CronExpression` | D1 tables of runs and dispatches | claim minute, evaluate, claim dispatch, dispatch, record | D1, GitHub, Cloud Run, Workers | two triggers race; failures between claim, effect and record |
| Watchdog (`scripts/mbpro_scheduler_watchdog`) | `CronHealth` | observations, outages | request a minute, record an answer, report | the scheduler, a mailer | answers late and out of order; a sliding window |
| Partition maintenance (`workers/uk_aq_observs_partition_maintenance_service`) | `PartitionMaintenance` | partitions of ObsAqiDB | create, index, check, drop | ObsAqiDB, R2 | irreversible drop; checks go stale |
| Latest snapshot (`workers/uk_aq_latest_snapshot_cloud_run`) | `LatestSnapshot` | state, products, manifest | pull, store, acknowledge, publish, reconcile | queue, ObsAqiDB, R2 | redelivery; several objects under one manifest |
| R2 to Dropbox backup (`scripts/backup_r2`) | `DropboxBackup` | inventory, copied tree, checkpoint | inventory, copy, checkpoint, currentness check | R2, Dropbox | interrupted copies; skipping by hash |
| Backfill, dumps, WHO daily, API workers, dashboards, JSON generation | none | reports, caches | rebuild, read | R2, databases | see section 10 |

How they interact: the scheduler starts the other parts and knows nothing of
them but an HTTP status. Prune Daily opens a gate only on content `HistoryTree`
would have finalised: `PruneDaily`'s variables `tree` and `index` are the image
of `HistoryTree`'s `Archive` and `latest`, and `HistoryArchive`, which
`HistoryTree` implements, is what `PruneDaily` takes that image for. Partition
maintenance reads the day manifests of the same tree, the backup its hashes. The
global operation lock keeps Prune Daily, the repair and the backup apart; each
module therefore has one writer of R2 at a time, and losing the lock is a crash.

What makes each correct:

* *Prune Daily*: a row leaves IngestDB only when R2 holds that row; a
  connector-day is drained once; committed history is never replaced; no
  interrupted run blocks the next for ever.
* *Gate and identity*: an open gate vouches for R2 content; a candidate
  beside it that says complete is of the same run and identity.
* *History*: what a gate was opened on stays reachable, through writers that
  died anywhere; the index never lists what the tree does not.
* *Outbox*: an entry is resolved only after its rows are in ObsAqiDB.
* *Scheduler*: a (job, minute) is dispatched at most once, by whichever trigger
  comes first.
* *Watchdog*: every outage is told, once, and closed on certain evidence only.
* *Partition maintenance*: no partition is dropped whose rows R2 lacks; days that
  are retained keep theirs.
* *Latest snapshot*: an acknowledged observation is in the state; a manifest
  describes the objects that are there.
* *Backup*: when the check says Dropbox is current, it is.

In each section below, "observed" lists behaviour met while modelling that a
reader of the code may want to know; the model has it, and no property counts it
as wrong.

## 2. Prune Daily

### Modules

* `PruneEvidence`: the data (contents of a connector-day) and the two evidence
  rows, `history_candidates` and `prune_connector_day_gates`. One operator per
  UPDATE the code issues, and the deletion's verdict on the pair of rows
  (`classifyLockedEvidence`).
* `PruneWindow`: the pure decisions of a deletion window (`compareBuckets`,
  `classifyRepairMismatches`, replay, `deletionPlanCoversCurrentConnectorDay`,
  `deleteOneHour`).
* `PruneDaily`: one worker, the two databases, R2, the pipeline that writes
  beside it, and everything that goes wrong.
* `ArchiveThenDelete`: the abstract promise. Per connector-day: stage a
  snapshot, archive one staged snapshot for good, then remove exactly the
  archived rows, once, while rows keep arriving. `PruneDaily!ArchivesThenDeletes`
  is the refinement.
* `PruneDailyClaims`: what the repository says and the worker does not do.
* `PruneDailyInv`, `PruneDailyProofs`: inductive invariants and proofs.
* `MCPruneDaily`: instances for TLC.

### State and code

| variables | code |
|---|---|
| `ingest`, `observs` | `uk_aq_core.observations`, `uk_aq_observs` |
| `cand`, `gate` | `uk_aq_ops.history_candidates`, `uk_aq_ops.prune_connector_day_gates` |
| `tree`, `index` | content reachable from the R2 root manifest; content listed by the index_v3 latest object |
| `pc`, `run`, `phaseB` | where the run is, its id, whether Phase B is enabled |
| `scope`, `active`, `queue`, `cur`, `frozen`, `batch`, `gated`, `unconfirmed`, `failed`, `stopped` | memory of `runPhaseBBackup` |
| `agenda`, `claimed`, `work`, `seen`, `repairs`, `plan`, `snap` | memory of `runPruneSingleWindow`, `runLateArrival*` and of the deletion transaction |
| `drained` | history variable: committed deletions of a connector-day |

A step is what the code does atomically: a SQL statement or transaction, or a
PUT that makes something reachable. Writers may act between any two steps. The
phases follow `runPrune`: `populate` (upsert of candidates), `revalidate` (a
transaction per complete candidate), `candidates` (claim, freeze under
repeatable read, publish, or refuse because history is committed), `finalize`
(hierarchy), `index`, `gates` (a transaction per connector-day), `day_gates`,
then per window `compare`, `repair`, `recompare`, plan, and one deletion
transaction per planned connector-day. `phase_b_end` implements the rule that a
failed or stopped Phase B skips all deletion.

A batch leaves `batch` for `gated` gate by gate, and gate transactions that failed
or lost their answer are in `unconfirmed` until `RecordGateFailure` has marked their
candidates. One catch surrounds the whole of a batch's finalisation
(`phase_b_history_r2.mjs:4941-4978`): `FinalizationRaises` lists what reaches it,
the recording of a gate failure (4880) and the blocking of a day gate (4920)
included, when gates may be open already. `FinalizationFails` then marks every
candidate of the batch, in `batch` or `gated`, whatever it says by then, and
leaves the gates; `MarkingFails` is the catch failing on its way through the batch.

### What is abstracted

* A source identity (SHA-256 and row count) is the content it hashes; an hour
  fingerprint is the rows of the hour. Hash collisions are out of scope.
* Manifest keys and hashes, byte counts and completion sources are folded into
  that content, as they change with it.
* The raw and the canonical row set of a connector-day coincide; pollutant
  allow-lists, dry runs, the candidate limit of a run, repair-only Phase A, day
  gates, AQI export and the JSONgen outbox are left out. None of them can add a
  deletion.
* `Agenda` stands for the windows a run computes and the late days it finds.
* A publication writes objects reachable from nothing and has no step that
  others can see; partial hierarchies (days written, root not) are invisible to
  readers of the root and are one step.
* One worker: the observations global-operation advisory lock serialises runs
  (`job.mjs`). Losing the lock is a `Crash`.

### Runs

All runs end: `MaxRuns`, `MaxWrites` and `MaxFaults` bound the runs started,
the ingest writes and the faults, so deadlock is not checked.

| run | instance | asks |
|---|---|---|
| `prune_one` | a connector-day of two rows in one hour and two values, beside a legacy one (complete before first-delete markers existed) of the same day; three runs with Phase B on or off, two writes, two faults; a window, then the same day as late arrival | `FirstDeletionOnce`, `OpenGateVouches`, `ArchivedBeforeDeletion`, `CommittedHistoryStable`, `NoAbandonedClaim`, `WindowDeletesReplicated`, `LegacyFailsClosed`, and the refinement of `ArchiveThenDelete` |
| `prune_days` | two connectors of one day, finalised in one batch and deleted in two hours under a cap of one row an hour, and one connector of the next day deleted directly; two runs with Phase B, one write, one fault; fair job | `DeletionIsWhole`, `ConsumedRemembered`, `RunsEnd`, `CleanRunDrains` |
| `claim_retry` | as `prune_one` without the legacy day and without crashes | the finding below |

Neither uses symmetry: the refinement and the liveness are checked on the whole
reachable graph.

Why the bounds suffice: a defect here needs at most a first run that leaves
evidence, a change of the rows, a run that acts on it and a third that repeats
it; two rows distinguish "changed", "added" and "same count, different row"; two
values distinguish a correction from a replay; two faults allow a failure while
recovering from a failure. Two hours and three rows make the cap bite in one
hour only; two connectors of one day make a batch, and two days make two deletion
modes meet in one run.

Fairness: only `WF(PhaseB \/ Deletion)`, the job process executing its own
steps. Nothing forces a writer, a fault, the outbox or another run.
`CleanRunDrains` speaks of runs that meet no further fault or writer, and whose
history is not torn (`tree = index`); without that premise the liveness fails,
which is the finding.

`ConsumedRemembered` is checked with Phase B always enabled. With a run that has
it disabled, a deletion attempt on a drained, closed connector-day overwrites the
consumed marker; `FirstDeletionOnce` still holds (`prune_one` and the
theorem), because history stays committed.

### Finding

`claim_retry`: a finalisation failure between hierarchy and index reports
`next_action: "retry_run_finalization"` (`phase_b_history_r2.mjs:4966`), but
the retry is refused in every later run and takes all deletion with it.

### Observed

* A failure after connector gates were opened (above) marks READY candidates
  failed and overwrites `GATE_RECOVERY_UNPROVEN`, while their gates stay open. The
  next run takes such a candidate up again, closes its gate when it freezes, and is
  refused, its history being committed: its rows are not deleted without an
  operator. Nothing is deleted on the open gate alone, as the deletion needs READY
  too; so `OpenGateVouches` asks agreement only of a candidate that says complete.
* Buckets beyond ObsAqiDB's retention are deleted unverified
  (`server.mjs:2515-2681`), where README.md:89-90 speaks of verified buckets only.
* `UK_AQ_R2_HISTORY_ADOPT_EXISTING_MANIFEST_ENABLED` (README.md:126) does not
  exist in code; committed history blocks its candidate even when identical
  (`committed_history_guard.mjs:273`).

### Proofs

`PruneDailyProofs` proves, for every finite set of rows, every set of
connector-days, values, days, agenda and bound, from the named ASSUMEs of
`PruneEvidence` and `PruneDaily`: `TypeOK`, `FirstDeletionOnce`,
`OpenGateVouches`, `ReadyHasGate`, `ArchivedBeforeDeletion`,
`CommittedHistoryStable` and the refinement `ArchivesThenDeletes`. `TypeOK`,
`IInv` and `ReadyHasGate` were checked with TLC while the proof was made; now
that they are theorems no run repeats them.

None of the safety properties is inductive alone. `IInv` adds to the type what
each phase has established and the next relies on. `Consistent` ties a candidate
row, its gate, hierarchy, index and the number of deletions together: a gate with
an identity names the content both R2 structures hold of a connector-day never
drained, a READY candidate agrees with its gate, and one that says complete beside
an open gate is READY. `BatchHeld` says that a published connector-day is still claimed by this
run, frozen and undrained, unreachable before `finalize`, reachable in `index`,
indexed in `gates`. `DrainedArchived` says that a drained connector-day has
committed history; it is what survives the loss of a consumed marker. Then
`ArchivedBeforeDeletion` is immediate: the transaction deletes a snapshot equal
to an identity that `Consistent` ties to R2. The preservation proof has a lemma per kind of evidence update
(`EmptyType` to `RevokedIsConsistent`) and one case per action in `EvidenceStep`
and `TypeStep`.

The rest of the module proves what `IInv` does not imply, with a second
invariant, `Bookkeeping`, that every step keeping `IInv` keeps:

* `LegacyKept`: a connector-day completed before first-delete markers is never
  claimed, so it is never published, never READY and never drained
  (`LegacyNeverDeleted`).
* `ClaimsAccounted`: whatever a run has claimed is at hand, published, or waiting
  to be recorded as unconfirmed, so a run that ends by itself has none left
  (`ClaimsSettled`).
* `PlanHeld`: rows leave IngestDB only in the deletion of their own
  connector-day, so what a plan was made from is still there at its turn
  (`DeletedWhole`), and what was compared is still in ObsAqiDB although the
  transaction compares counts alone (`WindowReplicated`). An `Agenda` that names
  a day twice, or in two modes, is covered.
* `MarkerKept`: a drained connector-day stays out of every plan, so no
  invalidation reaches its consumed marker. `ConsumptionRemembered` has the
  hypothesis `PhaseBModes \subseteq {TRUE}`: with Phase B off the gate is not
  consulted and the theorem is not claimed.

Model-checked only: liveness.

## 3. Cron scheduler and watchdog

### Modules

* `CronScheduler`: the handler `runScheduler` behind its two triggers, the D1
  tables, the config sync, and the watchdog's reading of the answers.
* `CronExpression`: the two day fields of a cron expression as `sync_jobs.py`
  checks them and as the Worker parses and matches them.
* `CronSchedulerInv`, `CronSchedulerProofs`: inductive invariants and proofs; the
  last section is about `CronExpression`.
* `MCCronScheduler`, `MCCronExpression`: instances for TLC.

### State and code

| variables | code |
|---|---|
| `jobs` | `scheduler_jobs`, written by `sync_jobs.py` at any time |
| `runs` | `scheduler_runs`, unique by scheduler and `minute_slot` |
| `dispatches` | `dispatch_status` of `scheduler_dispatches`, unique by `(job_key, due_at)` |
| `inv` | locals of every `runScheduler` call; `pc` names the await it is at |
| `requests`, `accepted` | what the targets saw: history of the outside world |
| `now`, `crons` | the clock, and cron events that have not fired |

One action per await. `StoreWrite(i)` is the D1 statement invocation `i` is
about to execute; the ordinary action makes it and goes on, `StoreFails` makes it
or not and goes where the code's try blocks send the exception (`Raised`).
`Stopped` ends an invocation anywhere. `CronFires` may be arbitrarily late with
its scheduled minute; a watchdog POST is for the minute of its arrival, so a
delayed one is a POST of that minute. A dropped cron event never fires.

Abstracted: a job row is what the loop tells apart (enabled, dry run, parses,
minutes it is due), the three target kinds are one request with an answer, and
previews, secrets and messages are left out. Success is 2xx, for GitHub 204.
Expressions are checked apart, in `CronExpression`. A number is kept with the
programs that can read it as written, Python's `int()` in the sync
(`sync_jobs.py:167,200`) and JavaScript's `Number()` in the Worker
(`worker.mjs:193,217`): plain digits are read by both, `1_0` by the first alone,
`0x10`, `1e1` and `5.0` by the second alone; what both read they read alike. Which
characters make up a number, and the split into five fields, are left out.

### Runs

| run | instance | asks |
|---|---|---|
| `cron_race` | two jobs in every mix of due always, due once as a dry run, and unreadable; one row edited meanwhile, two invocations, two minutes, two failures | races of triggers, truthful rows, ownership of minutes, accounting, the watchdog's evidence |
| `cron_live` | two jobs, also disabled ones, two fair invocations, one failure | due jobs settle, runs finish |
| `cron_expression` | values 0, 6, 7, 8 and 1, 31, 32, ranges, steps, a 31 only the sync and a 7 and a step only the Worker reads, lists of two | `SyncedExpressionsRun`: of numbers both read, the sync accepts what the Worker parses and no more; what both accept matches on the days of either restricted field, as the sync has read them |

Invocations and failures are bounded, so every behaviour stops and deadlock is
not checked. Two invocations race for one minute, or run a minute and a late cron
event of the one before (the proofs below cover any number of them); two minutes
make the lead and late cron events matter; two failures (a failed request whose
recording fails, a failed recording whose second recording fails) exhaust the
nesting of the try blocks. Invocations are interchangeable, hence the symmetry;
it is not used with liveness.

Fairness: `WF(Handler(i))`, a started invocation goes on. No trigger, tick or
edit is owed: the README of the scheduler promises no replay of missed minutes
(lines 213-218). Both liveness properties start after the last failure.

### Proofs

For every set of jobs, order, configuration, number of invocations, minutes and
failures: `TypeOK`, `RequestedAtMostOnce`, `RecordedTruthfully`,
`RequestsClaimedMinutes`, `EvidenceMatchesClaims`, `MinuteBelongsToFirst`.

A request is made at `send`, between two writes of a row, so "at most once" needs
to know who holds the row. `IInv` adds: an invocation past its claim is the
recorded owner of the minute (`OwnersRecorded`); the slots it goes through are
the minute itself (`SlotsWithinRun`, from the lemma `DueSlotsExact` on the half
minute of lead); what it holds at each await says whether the request was made
(`HeldDispatch`); no two invocations hold one dispatch (`HeldOnce`). The
proof splits a step by whom it can disturb: `StepEffects` bounds what a step of
one invocation does to tables and targets, `OthersUndisturbed` follows for the
others, `OwnStep` goes through the actions, and `TruthKept` relates targets and
rows.

`FinishedRunAccounts` counts rows, and is proved with a second invariant, for
every finite set of jobs (`JobsAssumption`). `Accounts` beside `IInv` says that
an unclaimed minute has no dispatches, that no two invocations own one minute
(`OwnedOnce`), and that the counters an invocation keeps in memory are those of
its rows (`Tally`), short of the dispatch at hand and of the one whose failure is
counted before it is recorded. The lemmas `TallyClaimed` to `TallyFailed` are
about one write each, `OwnTally` goes through the actions, `OthersTally` and
`RowsElsewhere` say that nobody else writes the minute, and `FinishedKept` takes
the tally at the last write over to the table.

`SyncedExpressionsRun` is proved for any numbers, whoever reads them, steps and
lists of weekdays. The invariant is only that fields hold tokens; the work is in
`SameToken`, by shape of token, `SameValues` and `DaysAreNamed`.

Model-checked only: liveness.

### Observed

* The two programs do not accept the same expressions: a number only `int()`
  reads passes the sync and leaves the job idle, passed over in every minute; one
  only `Number()` reads is refused although it would run.
* Day 7 is folded before a range is checked, in both programs alike: `0-7` is
  Sunday alone, `5-7` is refused.
* Only a bare `*` is unrestricted. `*/1` names every day and counts as
  restricted, so beside a restricted day field it selects every day.
* Recording the outcome shares the try block with the request
  (`worker.mjs:880-917`), so when D1 fails, or a body cannot be read, after a
  target accepted, the dispatch is recorded `failed`; the README
  (`src/cloudflare/scheduler/README.md:109-111`) calls every 2xx response
  successful. Nothing is sent twice.
* A failure or a stop after the claim of a minute loses the minute's remaining
  jobs; by the same design nothing runs twice.

## 4. Outbox flush

### Modules

* `OutboxFlush`: the outbox, the two databases, and runs of
  `flushObservsOutbox`, several at once.
* `OutboxFlushInv`, `OutboxFlushProofs`: inductive invariant and proofs.
* `MCOutboxFlush`: instances for TLC.

### State and code

`status` is an entry's state in the outbox, `observs` the values of ObsAqiDB,
`receipts` the daily receipts, `run` the memory of every `POST /run`: the
batch, the chunks still to upsert with their split depth, the attempt, the
counters behind `alert_condition`. One action per remote call, and one per way it
fails: `UpsertFails` retries, halves the chunk after timeouts, or gives up, as
`upsertObservsRowsWithFallback` does; normalisation throws outside the try block,
so it ends the run with its batch claimed. `Crash` is the end of the instance.

The functions `uk_aq_rpc_observs_outbox_claim`, `..._outbox_resolve`,
`..._observations_upsert` and `..._receipts_upsert` belong to another repository.
They are modelled as this caller takes them: a claim returns some pending
entries, at most the limit, and no entry another run holds; resolving makes a
delivered entry leave and a failed one wait again; an upsert is atomic, and rolled
back by a statement timeout. A claim whose run is gone becomes claimable at some
time. A lease that expires under a live run is not modelled: nothing here says
how long it is.

A row is a key and a value; an entry with an unreadable row is `wellFormed =
FALSE`. Which rows fall into which half depends on their order, which is left
open (`Halves`).

### Runs

| run | instance | asks |
|---|---|---|
| `outbox_flush` | entries of three rows, of two that correct them, and an unreadable one; two fair runs of at most three batches of two entries, two attempts, three failures, halving once down to one row | `ResolvedIsDelivered`, `HeldExclusively`, `QuietRunResolved`, `RunDelivers` |

Three rows are the least odd chunk worth halving; two attempts and three failures
reach a split whose second half fails; two runs and a batch limit of two below
three entries make them share the outbox. Fairness is `WF(Service(r))`, the
instance executing a started run; no run is owed, and `RunDelivers` begins with a
fresh run after the last failure, with batches enough for every entry, and asks
nothing once the unreadable entry is there.

### Proofs

For every set of runs and payloads, all limits and any number of failures, and
any finite set of entries with an order: `TypeOK`, `ResolvedIsDelivered`,
`HeldExclusively`, `QuietRunResolved`.

An entry is resolved long after its rows were cut into chunks, so `IInv` follows
the rows. `Holding`: what a run holds is claimed in the outbox, by no other live
run. `BatchHeld` and `BatchProgress`: every row of the batch is in ObsAqiDB or
waits in a chunk, and a batch about to be reported delivered has no chunk and no
receipt left. `QuietSoFar`: a run that has counted no failure resolved what it
claimed in earlier batches. The lemma `Cover` says that normalising a batch, which
keeps one row per key, leaves no key of any payload out; it is what lets the
invariant speak of entries again when the chunks are gone.

Model-checked only: `RunDelivers`.

### Observed

* An unreadable entry may hold back good ones it is claimed with for as long as
  the claim function batches them together.
* An entry delivered again after a newer one may overwrite it if the upsert
  function allows.

## 5. The history tree

### Modules

* `HistoryTree`: the manifests in R2, the runs that write them one PUT after
  another, the repair and the rebuild.
* `HistoryArchive`: the abstract promise: a committed connector-day stays as it
  is, unless a repair has withdrawn its day. `HistoryTree!ImplementsArchive` is the
  refinement, `archive` being what the root vouches for and the day's manifest has.
* `HistoryTreeInv`, `HistoryTreeProofs`: inductive invariant and proofs.
* `MCHistoryTree`: the instance for TLC.

### State and code

| variables | code |
|---|---|
| `conn`, `day`, `month`, `year`, `root` | the manifests of each level under `history/v3/observations` |
| `scoped`, `latest` | index_v3: a connector-day's scoped index, and the latest object that pins them |
| `run` | the process holding the global operation lock: which PUT comes next, and the batch in memory |
| `acked`, `withdrawn` | history: what a finished finalisation vouched for; days a repair took down |

A hash is what it hashes: a month *is* a function from days to days, so an object
that "pins" a child holds the child's value, and a pin that disagrees is an
inequality. One action per PUT or deletion, so that a reader, or a crash
(`Abandon`), comes between any two. `Path` is the guard's descent from the root
(`inspectPruneFrozenConnectorSnapshot`): each reference is held, torn or absent,
and the walk stops at the first that is not held. `Absent` is the only outcome
that admits a publication.

A repair starts only when the backup it is planned from holds each listed day as
the root pins it (`Backed`): the copy of a day is verified against its pinned hash
(`sync_history_to_dropbox.mjs:992-1003`) and the check before a repair compares the
checkpoint with the live root.

Abstracted: Parquet parts, pollutant and connector manifests are one content;
the backup a repair starts from is what the root vouches for; the shared tail of
a repair runs in one fixed order; the removal of days that became empty
(`allowMissingAffectedDays`) and the lock's own protocol are left out.

### Run

`history_tree`: five connector-days of four days, three months and two years, one
already committed; two batches of Prune Daily, one repair, one rebuild, two
faults. It checks `FinalizedIsKept`, `IndexFollowsRoot`,
`CommittedNeverReplaced`, `ImplementsArchive` over about 229 thousand states. Two
connectors of a day make peers, two days of a month siblings, and the other month
and year the checks higher up; two runs and two faults let a run meet what another
left half done. Nothing is fair: every property is about safety.

### Proofs

For any calendar, connector-days, contents and initial history that satisfy
`CalendarAssumption`, `ContentsAssumption` and `CommittedAssumption`, and any number
of runs, repairs, rebuilds and failures: `TypeOK`, `FinalizedIsKept`,
`IndexFollowsRoot`, `CommittedNeverReplaced` and the refinement `ImplementsArchive`.

Runs that died leave levels whose hashes disagree, so the invariant cannot speak of
hashes: it speaks of what each level *holds* for a connector-day (`InDay`, `InMonth`,
`InYear`, `Vouched`, whatever the level above pins). `KeptIsChained` is its core: if
the root and the day agree on a connector-day (`Confirmed`), or a gate was opened on
it, all four levels hold the same content, and rewriting any level from the one below
loses nothing. A torn tree is covered, since tearing is a disagreement about *other*
connector-days under the same manifest. `IndexedIsConfirmed` ties the index to this.
The rest says what the process with the lock has achieved: `BatchPublished`, what each
level published so far holds and that the root did not vouch for the batch before
(hence publishing replaces nothing); `YearAgrees`; `RepairShape` and
`RepairPublished`, the order of a repair, whose day is `withdrawn`;
`RebuildPublished`.

A lemma per action shows that it keeps the invariant. `AbsentIsUnvouched` is the
guard: a walk that ends at a missing reference, whatever its length, proves that the
root vouches for nothing there. `RebuiltHolds` says what a tree derived from days
holds. `TreeStep` reduces a PUT to two facts: what is kept is still held at every
level, and whatever becomes confirmed is chained; the same facts give `CommittedStays`,
which makes the step a `Commit` of the refinement. Every conjunct of `IInv` was checked
with TLC on an instance of four runs, a repair, a rebuild and two failures (1.4 million
states) before it was proved. The proof needs `Backed`: without it `IndexFollowsRoot` fails
after the leftovers of dead runs, a repair planned beside them and a rebuild.

### Observed

* In a year or month the root does not list yet, a run that dies after the year's
  manifest and another that dies after publishing the day again leave a year that is
  older than its day. A run on another month of that year then checks its siblings by
  the month's hash alone (`loadMonthChildrenFromYear`) and makes the older version
  reachable from the root, where the day's manifest no longer has it. No gate was
  opened on it and the guard reads it as torn, so Prune Daily is blocked for that
  connector until a run on its month or a rebuild brings the day's version up. `Archive` therefore
  counts what the root vouches for *and* the day's manifest has.
* A run that dies between the month's PUT and the year's leaves the tree torn;
  finalisations of other months of that year then PUT their month and throw at the
  check of the year, until an operator rebuilds the aggregates.
* An interrupted day is adopted by the next finalisation of its month, through
  LIST, and becomes reachable without an index scope; the guard then blocks its
  connector. A repair's fallback reconstruction heals the index.
* The rebuild tool takes no lock (the model starts it only when nothing runs),
  throws when a day prefix has no manifest, and drops a day whose repair died after
  deleting it.
* A day manifest whose connector was PUT again makes the finalisation of its peers
  throw until that connector is in the batch.

## 6. The scheduler watchdog

`CronHealth` is the tracker of one Worker: requests each minute, answers as much as
`Timeout` minutes late and in any order, a window of `Retention` minutes of
evidence, outages recomputed from it whenever some arrives, and a report thread
per outage. `TakeoverRuns`, `QualifyingEpisodes` and `RecomputeOutages` are the
functions of that name in `uk_aq_scheduler_watchdog.py`. Episodes are a set: no two
start in one minute, so that the loop over the sorted list is `AfterMinute`, which
takes the minutes in order and, where an episode starts, gives it its outage
(`Assign`). `Record` is the handler that calls them. `CronScheduler` says what an
answer may tell (`EvidenceMatchesClaims`); here any evidence may come with any
answer, which is more.

`CronHealthInv` holds the inductive invariant, `CronHealthProofs` the proofs,
`MCCronHealth` the instance.

`cron_health`: eight minutes, threshold 2, window 5, timeout 2, two requests under
way, one retry of a report; 409 thousand states. `EachOutageOnce` is the promise
of `src/scripts/mbpro_scheduler_watchdog/README.md:123-126`, `EveryOutageRecorded`
and `RecoveredIsCertain` its counterparts. The window must exceed timeout plus
threshold (`SettingsAssumption`; 120 against 15 and 10 in the code): without that
TLC finds an outage reported twice, its anchor having left the window before late
answers join it. The program takes any positive threshold from its environment: the
assumption is a condition on that setting. The eight minutes are the window, plus the
timeout, plus one.

### Proofs

For every threshold, window, timeout, limit on requests, number of retries and of
minutes, as far as `SettingsAssumption` allows: type correctness, `EachOutageOnce`,
`EveryOutageRecorded`, `RecoveredIsCertain`.

None of the three is inductive: each speaks of the outages and the evidence, and a
recomputation sees only the window and what earlier ones left. What makes them so is
that the window is wider than an answer can be late by more than a threshold. An
answer names a minute after `Oldest + Threshold`, where `Oldest` is the first minute
that may be retained (`Window`), so what is retained of the first `Threshold` minutes
is final. `IInv` builds on it:

* An outage that ends there (`Settled`) meets no episode again. Its run is followed
  by a minute that is not the watchdog's and stays so.
* Every other outage is one of the episodes of the observations (`Founded`), and
  each episode is an outage (`Covered`). Together with `Distinct` the outages that
  are not settled and the episodes are in bijection.
* If Cron missed everything since the run an outage was detected by, the outage
  begins at `Oldest`: that is how an outage whose anchor has aged out is known to be
  the first episode, and the only one to claim it by overlap.
* Between the runs of two outages there is a minute that Cron claimed, or a final
  one that is not known to be missed (`Apart`). Evidence that arrives cannot undo
  either, and both keep the two out of one episode.

An arrival is proved in three parts. The lemmas on runs and episodes read the
observations: an episode begins and ends with a missed minute, every long enough run
is in one, and between two there is a Cron minute (`EpisodeIs`, `EpisodeHolds`,
`EpisodesApart`). The matching follows: there is at most one outage
that an episode may take (`ExclusiveNow`), and what the recursion over the minutes
gives is, for each outage, one of three things: it is left alone, moved to its
episode, or opened for an episode without one (`Outcome`). The three are then shown to
restore `Founded` (`FoundedLeft`, `FoundedMoves`, `FoundedOpens`) and `Apart`
(`ApartAfter`). `AfterMinute` is a recursive function; its value at a minute from the
one before is the only fact about recursion used, under an invariant of the loop.

Nothing of the module is model-checked only; no liveness is stated, as no answer is owed.

Observed: an outage whose run ages out of the window before Cron comes back stays
active for ever; a restart forgets all outages; evidence contradicting what is
recorded is ignored.

## 7. Partition maintenance

`PartitionMaintenance` is `runObservsPartitionMaintenance` on several instances,
one action per remote call, with midnight, deliveries, and the publication and
withdrawal of manifests in between. The contents of a day manifest are not modelled: a day's
manifest is none, invalid or valid. `PartitionMaintenanceInv` and
`PartitionMaintenanceProofs` hold the proof, `MCPartitionMaintenance` the instance.

| variables | code |
|---|---|
| `parts`, `rows`, `staleCounts` | partitions of ObsAqiDB, rows by day (also in the default partition), day-count rows left behind |
| `manifest` | the day manifests a drop is gated on |
| `run` | cutoff, ensured days, remaining candidates and the day in hand of each instance |
| `archived`, `lost`, `unseen` | history: what a drop destroyed, and why |

`partition_drops`: the service (three hot days) and the workflow (one) with a
retention of one day run over midnight, from day 3 to 4; rows and manifests of days
1 and 2 come and go, one of them never vouched for; two RPC attempts, one failure.
1.6 million states. The settings are parsed apart (`server.mjs:318-329`), so the
service may create days it will drop in the same run, and does here.
Two instances with different settings, three days past and a
midnight are the least in which a stale cutoff and a stuck first candidate matter.
Fairness: `WF(StartRun)`, as runs are scheduled again and again, and
`WF(RunStep)`, as each call returns. `ExpiredDaysGo` asks only for days that stay
archived and past every retention and every hot window: a day in a hot window is
created again by each run.

`RetainedDaysHavePartitions` holds from the moment a run has seen to the
partitions: its own cutoff may be of yesterday, others drop by theirs, and yet
every day that all instances retain by the clock keeps its partition.

Proved, for any instances and settings of each, days, rows and failures: `TypeOK`,
`LossIsExplained`, `RetainedDaysHavePartitions`. `IInv` relates a run's memory to
the history: a run at `drop` works on a day that was archived, or whose rows its
check did not see (`DropIsChecked`), and whatever it may drop is before its cutoff
(`CutoffParts`). `RetentionInv` adds that a cutoff is past the run's retention
whatever the hour, and that the days ensured reach from it to the last the run
creates (`WindowsStand`): a retained day is among them, and before no cutoff.
`SettingsAssumption` only says that settings are positive and days are numbers.
Model-checked only: `ExpiredDaysGo`.

Observed:

* The gate vouches for the day, not for its rows or connectors.
* An answer of the day-has-rows function without rows, or with a value the service
  does not know, counts as "no rows" (`AnswerMisread`; `server.mjs:369-375,813-826`),
  and the day is dropped with the rows it has; an answer of the drop without rows
  counts as "not dropped".
* Between a valid manifest and the drop a repair may withdraw the day; retries of
  the drop do not look again.
* Rows in the day-count table that outlive their partition are not tried again.
* With more hot days than the retention keeps, each run creates a day and drops it
  again.
* The gate's default prefix is `history/v1/observations` (`server.mjs:357`); Phase B
  publishes under its generation's prefix.

## 8. Latest snapshot

`LatestSnapshot` is the job of `uk_aq_latest_snapshot_cloud_run`: pull messages,
read and store the state, acknowledge, publish products and the manifest, or
reconcile with the database. Jobs are scheduled, manual or reconciling and
follow one another; each call may fail and the job may die between two calls.
`LatestSnapshotInv` and `LatestSnapshotProofs` hold the proof, `MCLatestSnapshot` the
instance.

| variables | code |
|---|---|
| `message` | Pub/Sub messages, redelivered until acknowledged |
| `core`, `cache` | the core snapshot, and the metadata cache object made from it |
| `state`, `objects`, `manifest` | the latest-state object, a product object per pollutant, the manifest of them |
| `job` | memory of the job: pulled rows, state as read, entries gathered for the manifest |
| `forgotten`, `left` | history: series dropped by a job that read no state; products put and not recorded yet |

`snapshot_jobs`: two series of two products, four messages (an observation, a newer
one whose value is not to be shown, one of a series the core snapshot does not
know, one that does not decode), two candidates of reconciliation (a correction, a
newer row), three jobs, two failures; 2.2 million states. Three jobs are one that leaves something behind, one that builds on it and
one that reuses the second's manifest.

Abstracted: metadata has one meaning, the set of series it resolves; the value
policy (`evaluateLatestCurrentValue`) is a set of values per product, `Current`; the local
cache is transparent; the order of products is any; the bound on state entries
(500 000, beyond which every run throws before acknowledging), the bound of eight
pulls and the reports are left out.

Proved, for any series, products, messages, values and failures: `TypeOK`,
`AckedIsKept`, `ManifestVouches`, `ObjectsRecorded`. The invariant ties the
job's memory to the durable objects: what it read is the stored state (`JobReadsState`),
what it will acknowledge is stored (`StoredBeforeAck`), entries it has gathered are
true of the objects (`EntriesTrue`), and hashes it has not produced yet are larger
than all known ones (`HashesAreOld`, `Fresh`), which stands for the absence of
collisions.

Observed:

* A state that cannot be read is taken for empty unless reading is strict
  (`run_job.ts:1008`): with rows pulled it is then written back without the other
  series; with none, empty products are published. `AckedIsKept` leaves out the
  series forgotten that way.
* An object put by a job that died before recording it, whose content then returns
  to the recorded hash, is skipped as unchanged and stays wrong.
* Of two messages with one `observed_at` in one pull the first wins and both are
  acknowledged; redelivery of a superseded value overwrites its correction.
* Messages of series missing from the core snapshot, and of values that are not to
  be shown, are acknowledged and dropped.
* A failed product after an unreadable manifest gets a null entry, although the
  worker's README asks to preserve the previous one.

## 9. R2 to Dropbox backup

### Modules

* `DropboxBackup`: the inventory, the copy, the checkpoint, the currentness check.
* `DropboxBackupInv`, `DropboxBackupProofs`: inductive invariant and proofs.
* `MCDropboxBackup`: the instance for TLC.

### State and code

| variables | code |
|---|---|
| `live` | the version of each day manifest in R2; the manifests above follow from it |
| `invRoot`, `invShard` | the inventory's root and month shards (`backup_inventory`, `hierarchical_backup_v2.mjs`) |
| `copy`, `tops` | Dropbox: a day's manifest and Parquet files; month, year, root and latest manifests |
| `shard`, `ckpt` | Dropbox: the checkpoint's month states and its root state |
| `run` | locals of `sync_history_to_dropbox.mjs`, `pc` naming the call it is at |
| `newest`, `reverted` | history: the newest version a day has had; days that came back to an earlier one |

A run walks the years and months whose hash the checkpoint does not have, copies
their days, writes the month's state after each batch (`FlushMonth`), closes a
month whose days are all recorded (`EndDays`), then the year, latest and the root,
and saves the checkpoint root last. Errors the code catches write out what the run
has (`CopyFails` to `flush` or `save`); those it does not catch end the run at once
(`Dies`). A copy that fails leaves any part of the day on Dropbox.

Abstracted: the hash of a month, a year or the root is the function of day
versions it is computed from; bindings, packs, core, run manifests and verification
are one step that passes or stops the run; retries happen inside one failing call;
a shard's `copied_at` is left out, so a shard may be authenticated more often than
in the code. Days withdrawn from R2 (Dropbox keeps them), the pruning of stale
Parquet files, forced rechecks, dry runs and full scans are not modelled.

### Run

`dropbox_backup`: three days in two months of two years, written up to three
versions by two writes, the second version naming the files of the first; runs
that reuse files without a limit, or copy in full one day at a time; batches of two;
two failures. 1.8 million states. The second write comes while a run's remains lie
on Dropbox, the second failure while the next run recovers; two days in one month
make a month that is part copied, two years a root over a year left closed.
Fairness: `WF(Start)`, the schedule, and `WF(RunStep)`, the process.

### Proofs

For any calendar, versions, settings, batch size and number of failures:
`TypeOK`, `CurrentMeansCopied`, `CheckpointAgrees`.

What Dropbox holds is spread over objects written at different times, by runs that
may have died between them. `IInv` therefore gives each record a meaning that does
not depend on who wrote it when, relative to a view of R2 and the tree (`View`): a
recorded day was copied no earlier than in the version recorded (`Recorded`); a
month hash says so of its days, and if it is the live one the month's manifest is
there (`MonthClosed`); a closed year or root implies the records below it
(`YearClosed`, `RootClosed`). `MonthSound` and `RootSound` hold of each state on
Dropbox and in memory. `Keeps` says what a step may do to the view; a lemma per kind
of record shows that such a step undoes none (`RecordedKept` to `RootSoundKept`),
and each action is then shown to keep (`CopyKeeps`, `TopsKeeps`, `WriteSound`) and
to add sound records only (`CopyDaySound`, `SummarizedSound`, `YearClosedBy`).

Versions only grow except in `Revert`, and `reverted` days are excluded wherever
"no earlier" would be used for "equal". `ParquetAssumption`, that the files of a
day do not come back under a newer manifest, is used where reused files stand in for
current ones (`CopiedWhole`) and where a newer manifest must not name older files
(`WriteSound`).

Model-checked only: `BackupCatchesUp`.

### Observed

* A run copies days of a month and dies before the checkpoint root is saved; then
  the day comes back to its earlier, byte-identical version. The month is skipped
  by hash, the root confirmed, and the check allows, Dropbox holding the other
  version. `CurrentMeansCopied` leaves such days out.
* A month whose inventory shard was written by a run that died before the
  inventory root, and that then comes back, makes every run throw "Inventory month
  shard hash mismatch" until the month changes or a full scan is asked for.
* The failure of latest is caught; the root is closed all the same and the check
  allows with an older latest.
* The reuse of files trusts the byte size of what is on Dropbox.
* Errors outside the try blocks (month, year or root manifest, run manifests)
  leave the checkpoint root unsaved; the next run goes on from the month states.

## 10. Not modelled

* Local backfill (`workers/uk_aq_backfill_local`), the index_v3 migration and the
  detection side of the integrity tools: operator-run conversions of source files;
  as writers of R2 they follow the same order as the repair in `HistoryTree`.
* R2 API workers, caches and dashboards: read-only.
* The WHO aggregation: arithmetic without a protocol. Database dumps: a sequence of
  external calls. JSON generation, geography and postcode tools, feeds, task health:
  reports.
* Prune Daily's repair-only Phase A, day gates, dry runs, pollutant allow-lists,
  JSONgen outbox and AQI export.
* The SQL functions the outbox and partition services call are of another
  repository and are modelled as these callers take them.

Out of the prover's reach, and left to TLC: liveness, induction over data in general
(what a fold computes for every input) and operators declared RECURSIVE, of which
there are none here. The safety properties of every passing run are proved.

## 11. Plan

What a next step would add, in order:

1. The global operation lock with its delegated child process, under the writers
   that each module now takes to be alone.
2. An abstract scheduler ("each minute's due jobs, at most once") and an abstract
   outbox ("an entry is delivered, then gone"), with refinements.
3. Local backfill as a rival writer of the tree.
