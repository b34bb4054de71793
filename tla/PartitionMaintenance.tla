------------------------ MODULE PartitionMaintenance ------------------------
(***************************************************************************)
(* ObsAqiDB keeps its observations in one partition per UTC day.  The      *)
(* maintenance service creates the partitions of coming days and drops     *)
(* those older than the retention, each behind a check of R2's manifest of *)
(* that day.  A drop cannot be undone.                                     *)
(*                                                                         *)
(* Runs overlap (POST /run beside the workflow), rows keep arriving, days  *)
(* are archived and, while a repair rebuilds them, withdrawn.  The SQL     *)
(* functions are of another repository: they do what their names say; what *)
(* the service makes of their answers is its own.                          *)
(***************************************************************************)
EXTENDS Integers, FiniteSets

CONSTANTS
    Runs,               \* instances that execute runs, one after another
    Rows,               \* the rows a day may have
    Retention, Hot, DryRun,     \* observsRetentionDays, hotPartitionDays,
                                \* dropDryRun of each instance's runs
    Future,             \* futurePartitionDays
    RpcAttempts,        \* DEFAULT_RPC_RETRY_ATTEMPTS
    Unvouched,          \* days whose manifest fails validateManifestHash
    FirstDay, MaxDay,   \* today at the start, and the model's last day
    LateDays, MaxFaults \* bounds of the model: days whose rows and manifest
                        \* still change, failures

(* The settings are parsed apart from each other: there may be more hot    *)
(* days than the retention keeps.                                          *)
ASSUME SettingsAssumption ==
    /\ Retention \in [Runs -> Nat \ {0}]
    /\ Hot \in [Runs -> Nat \ {0}]
    /\ DryRun \in [Runs -> BOOLEAN]
    /\ Future \in Nat /\ RpcAttempts \in Nat \ {0}
    /\ FirstDay \in Nat \ {0} /\ MaxDay \in Nat /\ FirstDay <= MaxDay

Days == 1..(MaxDay + Future)
NoDay == 0

VARIABLES
    today,
    parts,              \* days that have a partition
    rows,               \* rows of each day, in its partition or in the
                        \* default one
    staleCounts,        \* days whose day-count row outlives the partition
    manifest,           \* R2's manifest of each day
    run,                \* the memory of each instance's run
    archived,           \* history: days that had a valid manifest
    lost,               \* history: rows dropped of days that had none,
                        \* and not delivered again
    unseen,             \* history: rows a run's check of the day did not
                        \* see, or that came after it and before the drop
    faults              \* counter of the model's bound

db == <<parts, rows, staleCounts>>
r2 == <<manifest, archived>>
history == <<lost, unseen>>

vars == <<today, db, r2, run, history, faults>>

Idle == [pc |-> "idle", cutoff |-> 0, ensured |-> {}, todo |-> {},
         day |-> NoDay, attempt |-> 1]

Init ==
    /\ today = FirstDay
    /\ parts = {d \in Days : d <= FirstDay + Future}
    /\ rows = [d \in Days |-> {}]
    /\ staleCounts = {}
    /\ manifest = [d \in Days |-> IF d \in Unvouched THEN "invalid" ELSE "none"]
    /\ run = [r \in Runs |-> Idle]
    /\ lost = [d \in Days |-> {}]
    /\ archived = {}
    /\ unseen = [d \in Days |-> {}]
    /\ faults = 0

Fault == faults < MaxFaults /\ faults' = faults + 1

Becomes(r, me) == run' = [run EXCEPT ![r] = me]

At(r, pc) == run[r].pc = pc

-----------------------------------------------------------------------------
(***************************************************************************)
(* Around the service.                                                     *)
(***************************************************************************)
Midnight ==
    /\ today < MaxDay
    /\ today' = today + 1
    /\ UNCHANGED <<db, r2, run, history, faults>>

(* The outbox flush delivers a row, late or again.                         *)
Deliver(d, x) ==
    /\ d \in LateDays /\ d <= today /\ x \notin rows[d]
    /\ rows' = [rows EXCEPT ![d] = @ \cup {x}]
    /\ lost' = [lost EXCEPT ![d] = @ \ {x}]
    /\ unseen' = IF \E r \in Runs : run[r].day = d /\ run[r].pc = "drop"
                 THEN [unseen EXCEPT ![d] = @ \cup {x}] ELSE unseen
    /\ UNCHANGED <<today, parts, staleCounts, r2, run, faults>>

(* Phase B or a repair publishes the day's manifest.                       *)
PublishManifest(d) ==
    /\ d \in LateDays /\ d < today /\ manifest[d] # "valid"
    /\ manifest' = [manifest EXCEPT ![d] = "valid"]
    /\ archived' = archived \cup {d}
    /\ UNCHANGED <<today, db, run, history, faults>>

(* A repair deletes the day before it writes it again.                     *)
WithdrawManifest(d) ==
    /\ d \in LateDays /\ manifest[d] = "valid"
    /\ manifest' = [manifest EXCEPT ![d] = "none"]
    /\ UNCHANGED <<today, db, run, history, archived, faults>>

-----------------------------------------------------------------------------
(***************************************************************************)
(* runObservsPartitionMaintenance.  Its clock is read once.                *)
(***************************************************************************)
Least(a, b) == IF a <= b THEN a ELSE b

StartRun(r) ==
    LET cutoff   == today - Retention[r]
        hotStart == today - (Hot[r] - 1)
    IN  /\ At(r, "idle")
        /\ Becomes(r, [Idle EXCEPT
               !.pc = "ensure", !.cutoff = cutoff,
               !.ensured = {d \in Days : /\ d >= Least(hotStart, cutoff)
                                         /\ d <= today + Future}])
        /\ UNCHANGED <<today, db, r2, history, faults>>

(* Partitions, their indexes, and the diagnostics of the default partition.*)
EnsurePartitions(r) ==
    /\ At(r, "ensure")
    /\ parts' = parts \cup run[r].ensured
    /\ staleCounts' = staleCounts \ run[r].ensured
    /\ Becomes(r, [run[r] EXCEPT !.pc = "list"])
    /\ UNCHANGED <<today, rows, r2, history, faults>>

(* Mutated form: the day at the cutoff goes too.                           *)
CandidatesToCutoff(cutoff) == {d \in parts : d <= cutoff}

DropCandidates(cutoff) == {d \in parts : d < cutoff}

(* A dry run skips every candidate.                                        *)
ListCandidates(r) ==
    /\ At(r, "list")
    /\ Becomes(r, IF DryRun[r] THEN Idle
                  ELSE [run[r] EXCEPT !.pc = "next",
                                      !.todo = DropCandidates(run[r].cutoff)])
    /\ UNCHANGED <<today, db, r2, history, faults>>

NextCandidate(r) ==
    /\ At(r, "next")
    /\ \E d \in run[r].todo :
         Becomes(r, [run[r] EXCEPT !.pc = "head", !.day = d, !.attempt = 1,
                                   !.todo = @ \ {d}])
    /\ UNCHANGED <<today, db, r2, history, faults>>

FinishRun(r) ==
    /\ At(r, "next") /\ run[r].todo = {}
    /\ Becomes(r, Idle)
    /\ UNCHANGED <<today, db, r2, history, faults>>

-----------------------------------------------------------------------------
(***************************************************************************)
(* historyManifestExists and checkDayHasRows.                              *)
(***************************************************************************)
(* Mutated form: an object under the day's key is taken for the manifest.  *)
HeadIsEnough(r) ==
    /\ At(r, "head")
    /\ Becomes(r, [run[r] EXCEPT !.pc =
           IF manifest[run[r].day] = "none" THEN "rows" ELSE "drop"])
    /\ UNCHANGED <<today, db, r2, history, faults>>

HeadManifest(r) ==
    /\ At(r, "head")
    /\ Becomes(r, [run[r] EXCEPT !.pc =
           IF manifest[run[r].day] = "none" THEN "rows" ELSE "get"])
    /\ UNCHANGED <<today, db, r2, history, faults>>

GetManifest(r) ==
    /\ At(r, "get")
    /\ Becomes(r, [run[r] EXCEPT !.pc =
           IF manifest[run[r].day] = "valid" THEN "drop" ELSE "rows"])
    /\ UNCHANGED <<today, db, r2, history, faults>>

(* Any failure of R2 counts as an unconfirmed manifest.                    *)
ManifestUnread(r) ==
    /\ run[r].pc \in {"head", "get"}
    /\ Fault
    /\ Becomes(r, [run[r] EXCEPT !.pc = "rows"])
    /\ UNCHANGED <<today, db, r2, history>>

(* Mutated form: the first day that cannot be dropped ends the run.        *)
EndsTheRun(r) == Idle

Skipped(r) == [run[r] EXCEPT !.pc = "next", !.day = NoDay]

DayHasRows(r) ==
    /\ At(r, "rows")
    /\ Becomes(r, IF rows[run[r].day] = {}
                  THEN [run[r] EXCEPT !.pc = "drop"] ELSE Skipped(r))
    /\ UNCHANGED <<today, db, r2, history, faults>>

(* An answer without rows, or without a value it knows, counts as "no      *)
(* rows".                                                                  *)
AnswerMisread(r) ==
    /\ At(r, "rows")
    /\ Fault
    /\ Becomes(r, [run[r] EXCEPT !.pc = "drop"])
    /\ unseen' = [unseen EXCEPT ![run[r].day] = @ \cup rows[run[r].day]]
    /\ UNCHANGED <<today, db, r2, lost>>

(* A day whose rows could not be checked is skipped.                       *)
RowsUnchecked(r) ==
    /\ At(r, "rows")
    /\ Fault
    /\ Becomes(r, Skipped(r))
    /\ UNCHANGED <<today, db, r2, history>>

-----------------------------------------------------------------------------
(***************************************************************************)
(* The drop and the day's count.                                           *)
(***************************************************************************)
Drop(d) ==
    /\ parts' = parts \ {d}
    /\ rows' = [rows EXCEPT ![d] = {}]
    /\ staleCounts' = staleCounts \cup {d}
    /\ lost' = IF d \in archived THEN lost
               ELSE [lost EXCEPT ![d] = @ \cup rows[d]]

(* A partition another run has dropped is not dropped again: the day's     *)
(* count is left to that run.                                              *)
DropPartition(r) ==
    /\ At(r, "drop")
    /\ IF run[r].day \in parts
       THEN /\ Drop(run[r].day)
            /\ Becomes(r, [run[r] EXCEPT !.pc = "count"])
       ELSE /\ Becomes(r, Skipped(r))
            /\ UNCHANGED <<db, lost>>
    /\ UNCHANGED <<today, r2, unseen, faults>>

(* Lock timeouts are retried without another look at the day.              *)
RetryDrop(r) ==
    /\ At(r, "drop") /\ run[r].attempt < RpcAttempts
    /\ Fault
    /\ Becomes(r, [run[r] EXCEPT !.attempt = @ + 1])
    /\ UNCHANGED <<today, db, r2, history>>

(* The drop is applied and its answer lost, and the run throws; or the     *)
(* answer says nothing the run knows, and counts as "not dropped".         *)
DropAnswerLost(r) ==
    /\ At(r, "drop") /\ run[r].day \in parts
    /\ Fault
    /\ Drop(run[r].day)
    /\ Becomes(r, Idle) \/ Becomes(r, Skipped(r))
    /\ UNCHANGED <<today, r2, unseen>>

DeleteDayCount(r) ==
    /\ At(r, "count")
    /\ staleCounts' = staleCounts \ {run[r].day}
    /\ Becomes(r, Skipped(r))
    /\ UNCHANGED <<today, parts, rows, r2, history, faults>>

(* Its failure is only reported.                                           *)
DayCountKept(r) ==
    /\ At(r, "count")
    /\ Fault
    /\ Becomes(r, Skipped(r))
    /\ UNCHANGED <<today, db, r2, history>>

(* A call that is not caught fails, or the process is stopped.             *)
RunDies(r) ==
    /\ ~ At(r, "idle")
    /\ Fault
    /\ Becomes(r, Idle)
    /\ UNCHANGED <<today, db, r2, history>>

-----------------------------------------------------------------------------
RunStep(r) ==
    \/ EnsurePartitions(r) \/ ListCandidates(r) \/ NextCandidate(r)
    \/ FinishRun(r) \/ HeadManifest(r) \/ GetManifest(r) \/ DayHasRows(r)
    \/ DropPartition(r) \/ DeleteDayCount(r)

RunFault(r) ==
    \/ ManifestUnread(r) \/ AnswerMisread(r) \/ RowsUnchecked(r)
    \/ RetryDrop(r) \/ DropAnswerLost(r) \/ DayCountKept(r) \/ RunDies(r)

Next ==
    \/ Midnight
    \/ \E d \in Days :
         \/ \E x \in Rows : Deliver(d, x)
         \/ PublishManifest(d) \/ WithdrawManifest(d)
    \/ \E r \in Runs : StartRun(r) \/ RunStep(r) \/ RunFault(r)

Spec == Init /\ [][Next]_vars

(* Runs are scheduled again and again, and every call returns.             *)
Fairness ==
    \A r \in Runs : WF_vars(StartRun(r)) /\ WF_vars(RunStep(r))

FairSpec == Spec /\ Fairness

-----------------------------------------------------------------------------
(***************************************************************************)
(* Properties.                                                             *)
(***************************************************************************)
(* Every variable has its type; a run has a day in hand while it works on  *)
(* one and at no other time.                                               *)
TypeOK ==
    /\ today \in FirstDay..MaxDay
    /\ parts \subseteq Days /\ staleCounts \subseteq Days /\ archived \subseteq Days
    /\ rows \in [Days -> SUBSET Rows]
    /\ lost \in [Days -> SUBSET Rows] /\ unseen \in [Days -> SUBSET Rows]
    /\ manifest \in [Days -> {"none", "valid", "invalid"}]
    /\ run \in [Runs ->
         [pc : {"idle", "ensure", "list", "next", "head", "get", "rows",
                "drop", "count"},
          cutoff : Int, ensured : SUBSET Days, todo : SUBSET Days,
          day : Days \cup {NoDay}, attempt : 1..RpcAttempts]]
    /\ \A r \in Runs :
         run[r].day = NoDay <=> run[r].pc \in {"idle", "ensure", "list", "next"}

(* Rows leave ObsAqiDB only with a day R2 has vouched for, or if the check *)
(* that found the day empty did not see them: they came after it, or the   *)
(* service misread its answer (server.mjs:813-826, 1020-1075).             *)
LossIsExplained ==
    \A d \in Days : d \in archived \/ lost[d] \subseteq unseen[d]

(* From the moment a run has seen to the partitions until it ends, every   *)
(* day that all instances retain, up to the last the run creates, has one: *)
(* whatever other runs drop by cutoffs computed earlier, before or after   *)
(* midnight (ensureStartDayUtc and retentionCutoffUtc).                    *)
RetainedDaysHavePartitions ==
    \A r \in Runs, d \in Days :
        /\ run[r].pc \notin {"idle", "ensure"}
        /\ d <= run[r].cutoff + Retention[r] + Future
        /\ \A s \in Runs : d >= today - Retention[s]
        => d \in parts

(* A day past every retention and every hot window that stays archived     *)
(* loses its partition, whatever days before it cannot be dropped.         *)
ExpiredDaysGo ==
    \A d \in Days :
        <>[](/\ manifest[d] = "valid"
             /\ \A r \in Runs : d < today - Retention[r] /\ d < today - (Hot[r] - 1))
            => <>[](d \notin parts)
=============================================================================
