--------------------------- MODULE DropboxBackup ---------------------------
(***************************************************************************)
(* The backup of the R2 history tree to Dropbox, and the check that lets   *)
(* the integrity tools trust it.                                           *)
(*                                                                         *)
(* A run builds an inventory of the months that changed, copies the days a *)
(* checkpoint on Dropbox does not list, records them month by month, and   *)
(* ends with the checkpoint's root, which names the R2 root it reached.    *)
(* Hashes decide what is skipped: here the hash of a month, a year or the  *)
(* root is the function of day versions it is computed from.  A run dies   *)
(* anywhere and the next one goes on from what it finds.  The global lock  *)
(* keeps writers of R2 and the check out while a run is under way.         *)
(***************************************************************************)
EXTENDS Integers, FiniteSets

CONSTANTS
    Days,               \* days of the tree, numbered in time
    MonthOf, YearOf,    \* the month of a day, the year of a month
    ParquetOf,          \* the Parquet files a day manifest version names
    BatchUnits,         \* checkpoint_batch_units
    Modes,              \* settings a run may be given: observation_parquet_
                        \* copy_mode reuse_matching or not, max_days_per_run
    MaxVersion, MaxWrites, MaxFaults,   \* bounds of the model
    NoHash, NoState

Absent   == 0
Versions == 1..MaxVersion

ASSUME CalendarAssumption ==
    /\ Days \subseteq Nat \ {0} /\ IsFiniteSet(Days)
    /\ MonthOf \in [Days -> Nat \ {0}]
    /\ YearOf \in [{MonthOf[d] : d \in Days} -> Nat \ {0}]
    /\ \A d, e \in Days : d <= e => MonthOf[d] <= MonthOf[e]
    /\ \A d, e \in Days : d <= e => YearOf[MonthOf[d]] <= YearOf[MonthOf[e]]

ASSUME SettingsAssumption ==
    /\ MaxVersion \in Nat \ {0} /\ BatchUnits \in Nat \ {0}
    /\ MaxWrites \in Nat /\ MaxFaults \in Nat
    /\ Modes \subseteq [reuse : BOOLEAN, limit : Nat]

(* The files of a day never come back to an earlier content under a newer  *)
(* manifest: the reuse of files would take them for it by their size.      *)
ASSUME ParquetAssumption ==
    /\ ParquetOf \in [Versions -> Nat \ {0}]
    /\ \A v, w \in Versions : v <= w => ParquetOf[v] <= ParquetOf[w]

Months == {MonthOf[d] : d \in Days}
Years  == {YearOf[m] : m \in Months}

VARIABLES
    live,       \* R2: the version of each day manifest, Absent if none
    invRoot,    \* R2: the tree the inventory root lists, or NoHash
    invShard,   \* R2: the inventory shard of each month, or NoHash
    copy,       \* Dropbox: the manifest and the files of each day
    tops,       \* Dropbox: month, year and root manifests and latest
    shard,      \* Dropbox: the checkpoint's month states, or NoState
    ckpt,       \* Dropbox: the checkpoint's root, or NoState
    run,        \* memory of the run under way
    newest,     \* history: the newest version each day has had
    reverted,   \* history: days that came back to an earlier version
    writes, faults      \* counters of the model's bounds

r2      == <<live, newest, reverted, writes>>
inv     == <<invRoot, invShard>>
dropbox == <<copy, tops, shard, ckpt>>

vars == <<r2, inv, dropbox, run, faults>>

DaysOf(m)  == {d \in Days : MonthOf[d] = m}

(* What a manifest of the tree f hashes: its days' versions.               *)
Listed(f, S)   == [d \in {e \in S : f[e] # Absent} |-> f[d]]
MonthHash(f, m) == Listed(f, DaysOf(m))
YearHash(f, y)  == Listed(f, {d \in Days : YearOf[MonthOf[d]] = y})

MonthsIn(f) == {MonthOf[d] : d \in {e \in Days : f[e] # Absent}}
YearsIn(f)  == {YearOf[m] : m \in MonthsIn(f)}

EmptyMonth == [hash |-> NoHash, days |-> [d \in Days |-> Absent]]

EmptyRoot == [root |-> NoHash, latest |-> NoHash,
              years |-> [y \in Years |-> NoHash],
              months |-> [m \in Months |-> [hash |-> NoHash, shard |-> NoState]]]

Idle == [pc |-> "idle", reuse |-> FALSE, limit |-> 0, copied |-> 0,
         state |-> EmptyRoot,
         dirty |-> FALSE, year |-> 0, month |-> 0, ms |-> EmptyMonth,
         prior |-> [d \in Days |-> Absent], monthDirty |-> FALSE,
         units |-> 0, stopping |-> FALSE]

Init ==
    /\ live \in [Days -> {Absent, 1}] /\ MonthsIn(live) # {}
    /\ invRoot = NoHash
    /\ invShard = [m \in Months |-> NoHash]
    /\ copy = [d \in Days |-> [manifest |-> Absent, parquet |-> Absent]]
    /\ tops = [months |-> [m \in Months |-> NoHash],
               years |-> [y \in Years |-> NoHash],
               root |-> NoHash, latest |-> NoHash]
    /\ shard = [m \in Months |-> NoState]
    /\ ckpt = NoState
    /\ run = Idle
    /\ newest = live
    /\ reverted = {}
    /\ writes = 0
    /\ faults = 0

At(pc) == run.pc = pc

Least(S) == CHOOSE x \in S : \A y \in S : x <= y

-----------------------------------------------------------------------------
(***************************************************************************)
(* Writers of R2, under the lock.  Each republishes a day and the manifests*)
(* above it.                                                               *)
(***************************************************************************)
Publish(d, v) ==
    /\ At("idle") /\ writes < MaxWrites
    /\ live' = [live EXCEPT ![d] = v]
    /\ writes' = writes + 1
    /\ UNCHANGED <<inv, dropbox, run, faults>>

Write(d) ==
    /\ newest[d] + 1 \in Versions
    /\ Publish(d, newest[d] + 1)
    /\ newest' = [newest EXCEPT ![d] = @ + 1]
    /\ UNCHANGED reverted

(* A connector published into the day is removed again, or the day is      *)
(* restored from an older copy: the manifest is the same bytes as before.  *)
Revert(d) ==
    /\ \E v \in Versions : v < live[d] /\ Publish(d, v)
    /\ reverted' = reverted \union {d}
    /\ UNCHANGED newest

-----------------------------------------------------------------------------
(***************************************************************************)
(* The inventory.                                                          *)
(***************************************************************************)
StartRun(mode) ==
    /\ At("idle")
    /\ run' = [Idle EXCEPT !.pc = "inventory", !.reuse = mode.reuse,
                           !.limit = mode.limit]
    /\ UNCHANGED <<r2, inv, dropbox, faults>>

(* Months whose hash the previous inventory root does not have, and that   *)
(* this run has not written yet.                                           *)
ChangedMonths ==
    {m \in MonthsIn(live) :
        /\ m > run.month
        /\ \/ invRoot = NoHash
           \/ MonthHash(invRoot, m) # MonthHash(live, m)}

PutInventoryShard ==
    /\ At("inventory") /\ ChangedMonths # {}
    /\ LET m == Least(ChangedMonths)
       IN  /\ invShard' = [invShard EXCEPT ![m] = MonthHash(live, m)]
           /\ run' = [run EXCEPT !.month = m]
    /\ UNCHANGED <<r2, invRoot, dropbox, faults>>

PutInventoryRoot ==
    /\ At("inventory") /\ ChangedMonths = {}
    /\ invRoot' = live
    /\ run' = [run EXCEPT !.pc = "years", !.month = 0,
                          !.state = IF ckpt = NoState THEN EmptyRoot ELSE ckpt,
                          !.dirty = (ckpt = NoState)]
    /\ UNCHANGED <<r2, invShard, dropbox, faults>>

-----------------------------------------------------------------------------
(***************************************************************************)
(* The loop over years and months: those whose hash the checkpoint has are *)
(* skipped.                                                                *)
(***************************************************************************)
PendingYears ==
    {y \in YearsIn(invRoot) :
        y > run.year /\ run.state.years[y] # YearHash(invRoot, y)}

PendingMonths ==
    {m \in MonthsIn(invRoot) :
        /\ YearOf[m] = run.year /\ m > run.month
        /\ run.state.months[m].hash # MonthHash(invRoot, m)}

NextYear ==
    /\ At("years")
    /\ run' = IF PendingYears = {} THEN [run EXCEPT !.pc = "domains"]
              ELSE [run EXCEPT !.pc = "months", !.year = Least(PendingYears)]
    /\ UNCHANGED <<r2, inv, dropbox, faults>>

(* The state of the month as a former run left it on Dropbox, if the root  *)
(* vouches for exactly that state: files may be reused on its word.        *)
Authenticated(m) ==
    /\ shard[m] # NoState
    /\ run.state.months[m].shard = shard[m]
    /\ shard[m].hash # NoHash
    /\ run.state.months[m].hash = shard[m].hash

InspectMonth ==
    /\ At("months") /\ PendingMonths # {}
    /\ LET m == Least(PendingMonths)
       IN  run' = IF invShard[m] # MonthHash(invRoot, m) THEN Idle
                  ELSE [run EXCEPT
                        !.pc = "copy", !.month = m, !.units = 0,
                        !.ms = IF shard[m] = NoState THEN EmptyMonth
                               ELSE shard[m],
                        !.monthDirty = (shard[m] = NoState),
                        !.prior = IF Authenticated(m) THEN shard[m].days
                                  ELSE EmptyMonth.days]
    /\ UNCHANGED <<r2, inv, dropbox, faults>>

EndMonths ==
    /\ At("months") /\ PendingMonths = {}
    /\ run' = [run EXCEPT !.pc = "yearEnd"]
    /\ UNCHANGED <<r2, inv, dropbox, faults>>

-----------------------------------------------------------------------------
(***************************************************************************)
(* The days of a month.                                                    *)
(***************************************************************************)
(* planObservationMonthCopies                                              *)
Candidates ==
    IF run.ms.hash = MonthHash(invRoot, run.month) THEN {}
    ELSE {d \in DaysOf(run.month) :
             invRoot[d] # Absent /\ run.ms.days[d] # invRoot[d]}

(* A limit of 0 is none.                                                   *)
Spent == run.limit > 0 /\ run.copied >= run.limit

(* Files named by the prior manifest, found on Dropbox with it, are not    *)
(* copied when the current manifest names them too.                        *)
Reusable(d) ==
    /\ run.reuse
    /\ run.prior[d] # Absent
    /\ copy[d].manifest = run.prior[d]
    /\ copy[d].parquet # Absent
    /\ ParquetOf[run.prior[d]] = ParquetOf[live[d]]

Copied(d) ==
    [manifest |-> live[d],
     parquet  |-> IF Reusable(d) THEN copy[d].parquet ELSE ParquetOf[live[d]]]

(* The copy succeeds and the day's manifest is read back; its record is    *)
(* written out when the batch is full or its time has passed.              *)
CopyDay ==
    /\ At("copy") /\ Candidates # {} /\ ~Spent
    /\ LET d == Least(Candidates)
       IN  /\ copy' = [copy EXCEPT ![d] = Copied(d)]
           /\ \E flush \in {TRUE, run.units + 1 >= BatchUnits} :
                run' = [run EXCEPT
                        !.pc = IF flush THEN "flush" ELSE "copy",
                        !.ms = [hash |-> NoHash,
                                days |-> [@.days EXCEPT ![d] = invRoot[d]]],
                        !.monthDirty = TRUE, !.units = @ + 1,
                        !.copied = IF run.limit > 0 THEN @ + 1 ELSE @]
    /\ UNCHANGED <<r2, inv, tops, shard, ckpt, faults>>

(* Mutated form: the day is recorded before its copy is known to be whole. *)
CopyFailsRecorded ==
    /\ At("copy") /\ Candidates # {} /\ ~Spent
    /\ faults < MaxFaults /\ faults' = faults + 1
    /\ LET d == Least(Candidates)
       IN  \E manifest \in {copy[d].manifest, live[d]},
              parquet \in {copy[d].parquet, Copied(d).parquet} :
            /\ copy' = [copy EXCEPT ![d] = [manifest |-> manifest,
                                            parquet |-> parquet]]
            /\ run' = [run EXCEPT !.pc = "flush", !.stopping = TRUE,
                          !.ms = [hash |-> NoHash,
                                  days |-> [@.days EXCEPT ![d] = invRoot[d]]]]
    /\ UNCHANGED <<r2, inv, tops, shard, ckpt>>

(* The copy breaks, with any part of the day on Dropbox; the run writes    *)
(* out what it has, or dies at once.                                       *)
CopyFails ==
    /\ At("copy") /\ Candidates # {} /\ ~Spent
    /\ faults < MaxFaults /\ faults' = faults + 1
    /\ LET d == Least(Candidates)
       IN  \E manifest \in {copy[d].manifest, live[d]},
              parquet \in {copy[d].parquet, Copied(d).parquet} :
            copy' = [copy EXCEPT ![d] = [manifest |-> manifest,
                                         parquet |-> parquet]]
    /\ \/ run' = [run EXCEPT !.pc = IF run.monthDirty THEN "flush" ELSE "save",
                             !.stopping = TRUE]
       \/ run' = Idle
    /\ UNCHANGED <<r2, inv, tops, shard, ckpt>>

(* Mutated form: the year and the root stay as they were.                  *)
SummarizedMonthOnly(state, m, ms) ==
    [state EXCEPT !.months[m] = [hash |-> ms.hash, shard |-> ms]]

(* upsertStateMonthSummary: the year and the root are open again.          *)
Summarized(state, m, ms) ==
    [state EXCEPT !.months[m] = [hash |-> ms.hash, shard |-> ms],
                  !.years[YearOf[m]] = NoHash,
                  !.root = NoHash]

(* flushMonthState                                                         *)
WriteMonth(next) ==
    /\ shard' = [shard EXCEPT ![run.month] = run.ms]
    /\ run' = [run EXCEPT !.pc = next, !.monthDirty = FALSE, !.units = 0,
                          !.state = Summarized(@, run.month, run.ms),
                          !.dirty = TRUE]
    /\ UNCHANGED <<r2, inv, copy, tops, ckpt, faults>>

FlushMonth ==
    /\ At("flush")
    /\ WriteMonth(IF run.stopping THEN "save" ELSE "copy")

(* Mutated form: only a run that copied a day closes the month.            *)
MonthCompletedNow ==
    /\ run.monthDirty
    /\ \A d \in DaysOf(run.month) :
           invRoot[d] # Absent => run.ms.days[d] = invRoot[d]

(* Every listed day is recorded: the month's manifest goes to Dropbox.     *)
MonthComplete ==
    \A d \in DaysOf(run.month) :
        invRoot[d] # Absent => run.ms.days[d] = invRoot[d]

EndDays ==
    /\ At("copy")
    /\ Candidates = {} \/ Spent
    /\ IF MonthComplete
       THEN /\ tops' = [tops EXCEPT !.months[run.month] =
                                            MonthHash(live, run.month)]
            /\ run' = [run EXCEPT !.pc = "flushEnd",
                          !.ms.hash = MonthHash(invRoot, run.month),
                          !.monthDirty = TRUE]
       ELSE /\ run' = [run EXCEPT !.pc = IF run.monthDirty THEN "flushEnd"
                                         ELSE "months"]
            /\ UNCHANGED tops
    /\ UNCHANGED <<r2, inv, copy, shard, ckpt, faults>>

FlushAtEnd ==
    /\ At("flushEnd")
    /\ WriteMonth("months")

YearComplete(y) ==
    \A m \in MonthsIn(invRoot) :
        YearOf[m] = y => run.state.months[m].hash = MonthHash(invRoot, m)

EndYear ==
    /\ At("yearEnd")
    /\ IF YearComplete(run.year)
       THEN /\ tops' = [tops EXCEPT !.years[run.year] = YearHash(live, run.year)]
            /\ run' = [run EXCEPT !.pc = "years", !.month = 0, !.dirty = TRUE,
                          !.state.years[run.year] = YearHash(invRoot, run.year),
                          !.state.root = NoHash]
       ELSE /\ run' = [run EXCEPT !.pc = "years", !.month = 0]
            /\ UNCHANGED tops
    /\ UNCHANGED <<r2, inv, copy, shard, ckpt, faults>>

-----------------------------------------------------------------------------
(***************************************************************************)
(* After the tree: bindings, packs, core and run manifests, which a run    *)
(* gets through or stops at; latest, whose failure it only reports; the    *)
(* root.                                                                   *)
(***************************************************************************)
OtherDomains ==
    /\ At("domains")
    /\ run' = [run EXCEPT !.pc = "latest", !.dirty = TRUE]
    /\ UNCHANGED <<r2, inv, dropbox, faults>>

OtherDomainsFail ==
    /\ At("domains")
    /\ faults < MaxFaults /\ faults' = faults + 1
    /\ run' = [run EXCEPT !.pc = "save", !.dirty = TRUE, !.stopping = TRUE]
    /\ UNCHANGED <<r2, inv, dropbox>>

LatestDone == run.state.latest = invRoot /\ tops.latest # NoHash

CopyLatest ==
    /\ At("latest")
    /\ \/ /\ LatestDone
          /\ run' = [run EXCEPT !.pc = "root"]
          /\ UNCHANGED <<tops, faults>>
       \/ /\ ~LatestDone
          /\ tops' = [tops EXCEPT !.latest = live]
          /\ run' = [run EXCEPT !.pc = "root", !.state.latest = invRoot]
          /\ UNCHANGED faults
       \/ /\ ~LatestDone
          /\ faults < MaxFaults /\ faults' = faults + 1
          /\ run' = [run EXCEPT !.pc = "root"]
          /\ UNCHANGED tops
    /\ UNCHANGED <<r2, inv, copy, shard, ckpt>>

AllYearsComplete ==
    \A y \in YearsIn(invRoot) : run.state.years[y] = YearHash(invRoot, y)

CopyRoot ==
    /\ At("root")
    /\ IF AllYearsComplete
       THEN /\ tops' = [tops EXCEPT !.root = live]
            /\ run' = [run EXCEPT !.pc = "save", !.state.root = invRoot]
       ELSE /\ run' = [run EXCEPT !.pc = "save"]
            /\ UNCHANGED tops
    /\ UNCHANGED <<r2, inv, copy, shard, ckpt, faults>>

(* The checkpoint's root is written once, at the end of the run or when it *)
(* stops; a stopping run that changed no month leaves the old one.         *)
SaveRoot ==
    /\ At("save")
    /\ ckpt' = IF run.dirty THEN run.state ELSE ckpt
    /\ run' = Idle
    /\ UNCHANGED <<r2, inv, copy, tops, shard, faults>>

(* A killed process, a lost lock, an error nothing catches.                *)
Dies ==
    /\ ~At("idle")
    /\ faults < MaxFaults /\ faults' = faults + 1
    /\ run' = Idle
    /\ UNCHANGED <<r2, inv, dropbox>>

RunStep ==
    \/ PutInventoryShard \/ PutInventoryRoot
    \/ NextYear \/ InspectMonth \/ EndMonths
    \/ CopyDay \/ FlushMonth \/ EndDays \/ FlushAtEnd \/ EndYear
    \/ OtherDomains \/ CopyLatest \/ CopyRoot \/ SaveRoot

Start == \E mode \in Modes : StartRun(mode)

Next ==
    \/ \E d \in Days : Write(d) \/ Revert(d)
    \/ Start
    \/ RunStep
    \/ CopyFails \/ OtherDomainsFail \/ Dies

Spec == Init /\ [][Next]_vars

(* Backups are scheduled for ever, and the process takes its steps.        *)
FairSpec == Spec /\ WF_vars(Start) /\ WF_vars(RunStep)

-----------------------------------------------------------------------------
(***************************************************************************)
(* Properties.                                                             *)
(***************************************************************************)
(* requireCompleteCheckpoint: every year and month the checkpoint lists is *)
(* closed, and latest has been copied once.                                *)
CheckpointComplete ==
    /\ ckpt # NoState
    /\ ckpt.root # NoHash /\ ckpt.latest # NoHash
    /\ \A m \in Months :
        ckpt.months[m].shard # NoState =>
            /\ ckpt.months[m].hash # NoHash
            /\ ckpt.years[YearOf[m]] # NoHash

(* checkIntegrityDropboxCurrentness, which holds the lock.                 *)
Allowed == At("idle") /\ CheckpointComplete /\ ckpt.root = live

(* The Dropbox copy of a day is the live one, files and manifest.          *)
CopyIsLive(d) ==
    copy[d] = [manifest |-> live[d], parquet |-> ParquetOf[live[d]]]

(* When the check lets the integrity tools rely on Dropbox, every live day *)
(* is there whole and as it is now, and so are the manifests above it,     *)
(* through runs that died anywhere: save days that came back to an earlier *)
(* version (sync_history_to_dropbox.mjs:1513-1838).                        *)
CurrentMeansCopied ==
    Allowed =>
        /\ \A d \in Days \ reverted : live[d] # Absent => CopyIsLive(d)
        /\ \A m \in MonthsIn(live) :
              reverted \intersect DaysOf(m) = {}
                  => tops.months[m] = MonthHash(live, m)
        /\ reverted = {} =>
              /\ tops.root = live
              /\ \A y \in YearsIn(live) : tops.years[y] = YearHash(live, y)

(* The root a checkpoint names is the one its years and months add up to:  *)
(* no month is opened again under a year or a root that is still closed.   *)
CheckpointAgrees ==
    (ckpt # NoState /\ ckpt.root # NoHash) =>
        /\ \A y \in YearsIn(ckpt.root) :
              ckpt.years[y] = YearHash(ckpt.root, y)
        /\ \A m \in MonthsIn(ckpt.root) :
              ckpt.months[m].hash = MonthHash(ckpt.root, m)

(* Runs that may each copy a few days only, and die, still bring Dropbox   *)
(* up to date once R2 rests, as long as no day comes back to an earlier    *)
(* version.                                                                *)
BackupCatchesUp ==
    [](reverted = {}) =>
        <>[](/\ ckpt # NoState /\ ckpt.root = live
             /\ \A d \in Days : live[d] # Absent => CopyIsLive(d))

=============================================================================
