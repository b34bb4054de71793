----------------------------- MODULE PruneDaily -----------------------------
(***************************************************************************)
(* One Prune Daily worker, the databases and the R2 history it works on,   *)
(* the ingest pipeline that writes beside it, and its crashes.             *)
(*                                                                         *)
(* A run first backs connector-days up to R2 (Phase B): it refreshes the   *)
(* candidate rows, freezes and publishes each pending connector-day, makes *)
(* a UTC day's publications root-reachable and then opens one gate per     *)
(* connector-day.  Only then does it compare, repair and delete.  Runs are *)
(* serialised by the observations global-operation advisory lock, so at    *)
(* most one worker exists.                                                 *)
(***************************************************************************)
EXTENDS PruneWindow, Sequences

CONSTANTS
    ConnectorDays,
    NoConnectorDay,
    DayOf,          \* the UTC day of a connector-day
    Order,          \* position in the worker's (day, connector) order
    Agenda,         \* the deletion windows of a run, in order
    PhaseBModes,    \* values UK_AQ_R2_HISTORY_PHASE_B_ENABLED may take
    Legacy,         \* connector-days completed before first-delete markers
    Initial,        \* their rows, and everybody's, when the model starts
    DeleteCap,      \* delete batch size times the batches allowed per hour
    MaxRuns, MaxWrites, MaxFaults       \* bounds of the model

Modes == {"window", "late_repair", "late_direct"}
Days  == {DayOf[c] : c \in ConnectorDays}

ASSUME OrderAssumption == Order \in [ConnectorDays -> Nat]
ASSUME AgendaAssumption == Agenda \in Seq([day : Days, mode : Modes])
ASSUME PhaseBAssumption == PhaseBModes \subseteq BOOLEAN
ASSUME LegacyAssumption == Legacy \subseteq ConnectorDays
ASSUME InitialAssumption == Initial \in [ConnectorDays -> Contents]
ASSUME NobodyAssumption == NoConnectorDay \notin ConnectorDays

VARIABLES
    \* IngestDB and ObsAqiDB
    ingest,         \* uk_aq_core.observations
    observs,        \* uk_aq_observs
    cand,           \* uk_aq_ops.history_candidates
    gate,           \* uk_aq_ops.prune_connector_day_gates
    \* R2
    tree,           \* connector content reachable from the root manifest
    index,          \* connector content listed by the index_v3 latest object
    \* the worker
    pc, run,
    phaseB,         \* whether this run has Phase B enabled
    scope,          \* connector-days the upsert returned, not yet revalidated
    active,         \* connector-days the upsert returned
    queue,          \* pending candidates still to process
    cur,            \* the connector-day being published or deleted
    frozen,         \* repeatable-read snapshots taken for publication
    batch,          \* published, gate transaction still to come
    gated,          \* of the same batch, gate transaction made
    unconfirmed,    \* gate transactions that raised an error
    failed, stopped,    \* Phase B outcome
    agenda,         \* deletion windows left; the head is being processed
    claimed,        \* processedConnectorDays
    work,           \* claimed for the window at hand
    seen,           \* their ingest buckets as last read
    repairs,        \* buckets still to replay
    plan,           \* connector-days planned for deletion
    snap,           \* the rows the deletion transaction sees
    \* observed by the properties only
    drained,        \* committed deletions of each connector-day
    \* counters of the model's bounds
    writes, faults

database   == <<ingest, observs, cand, gate>>
r2         == <<tree, index>>
phaseBVars == <<scope, active, queue, frozen, batch, gated, unconfirmed,
                failed, stopped>>
deleteVars == <<agenda, claimed, work, seen, repairs, plan, snap>>
worker     == <<pc, run, phaseB, cur, phaseBVars, deleteVars>>
vars       == <<database, r2, worker, drained, writes, faults>>

PhaseBSteps ==
    {"populate", "revalidate", "fetch", "candidates", "claimed", "frozen",
     "finalize", "index", "gates", "day_gates", "phase_b_end"}
DeleteSteps ==
    {"days", "compare", "repair", "recompare", "plan", "delete", "txn"}

Nothing == [c \in ConnectorDays |-> NoContent]

Fault == faults < MaxFaults /\ faults' = faults + 1

(* The worker's memory when no run is in progress.                         *)
WorkerIdle ==
    /\ pc' = "idle" /\ phaseB' = TRUE /\ cur' = NoConnectorDay
    /\ scope' = {} /\ active' = {} /\ queue' = {}
    /\ frozen' = Nothing /\ batch' = {} /\ gated' = {} /\ unconfirmed' = {}
    /\ failed' = FALSE /\ stopped' = FALSE
    /\ agenda' = <<>> /\ claimed' = {} /\ work' = {}
    /\ seen' = [c \in ConnectorDays |-> Empty]
    /\ repairs' = {} /\ plan' = {} /\ snap' = Empty
    /\ UNCHANGED run

Init ==
    /\ ingest = Initial
    /\ observs = [c \in ConnectorDays |-> Empty]
    /\ cand = [c \in ConnectorDays |->
                 IF c \in Legacy
                 THEN [AbsentCandidate EXCEPT !.status = "complete",
                         !.expected = Aggregate(Initial[c])]
                 ELSE AbsentCandidate]
    /\ gate = [c \in ConnectorDays |->
                 IF c \in Legacy THEN OpenGate(NoRun, NoContent)
                                 ELSE ClosedGate]
    /\ tree = [c \in ConnectorDays |->
                 IF c \in Legacy THEN Initial[c] ELSE NoContent]
    /\ index = tree
    /\ pc = "idle" /\ run = NoRun /\ phaseB = TRUE /\ cur = NoConnectorDay
    /\ scope = {} /\ active = {} /\ queue = {}
    /\ frozen = Nothing /\ batch = {} /\ gated = {} /\ unconfirmed = {}
    /\ failed = FALSE /\ stopped = FALSE
    /\ agenda = <<>> /\ claimed = {} /\ work = {}
    /\ seen = [c \in ConnectorDays |-> Empty]
    /\ repairs = {} /\ plan = {} /\ snap = Empty
    /\ drained = [c \in ConnectorDays |-> 0]
    /\ writes = 0 /\ faults = 0

-----------------------------------------------------------------------------
(***************************************************************************)
(* The pipeline beside the worker.                                         *)
(***************************************************************************)

(* An ingest function inserts or corrects a row, at any age.               *)
IngestWrite(c, k, v) ==
    /\ writes < MaxWrites
    /\ ingest[c][k] # v
    /\ ingest' = [ingest EXCEPT ![c][k] = v]
    /\ writes' = writes + 1
    /\ UNCHANGED <<observs, cand, gate, r2, worker, drained, faults>>

(* The outbox flush carries a row's latest value to ObsAqiDB.              *)
OutboxDelivers(c, k) ==
    /\ ingest[c][k] \notin {NoRow, observs[c][k]}
    /\ observs' = [observs EXCEPT ![c][k] = ingest[c][k]]
    /\ UNCHANGED <<ingest, cand, gate, r2, worker, drained, writes, faults>>

-----------------------------------------------------------------------------
(***************************************************************************)
(* A run, and the ways it ends early.                                      *)
(***************************************************************************)
StartRun ==
    /\ pc = "idle" /\ run < MaxRuns
    /\ run' = run + 1
    /\ \E enabled \in PhaseBModes :
         /\ phaseB' = enabled
         /\ pc' = IF enabled THEN "populate" ELSE "days"
         /\ agenda' = IF enabled THEN <<>> ELSE Agenda
    /\ UNCHANGED <<database, r2, cur, phaseBVars, claimed, work, seen,
                   repairs, plan, snap, drained, writes, faults>>

(* The process dies, loses the global lock, or an error escapes: an open   *)
(* transaction rolls back and nothing is recorded.                         *)
Crash ==
    /\ pc # "idle"
    /\ Fault
    /\ WorkerIdle
    /\ UNCHANGED <<database, r2, drained, writes>>

(* Late-arrival cleanup reports an error of one day and takes the next.    *)
LateDayError ==
    /\ pc \in DeleteSteps \ {"days"}
    /\ Head(agenda).mode # "window"
    /\ Fault
    /\ pc' = "days" /\ agenda' = Tail(agenda) /\ cur' = NoConnectorDay
    /\ work' = {} /\ seen' = [c \in ConnectorDays |-> Empty]
    /\ repairs' = {} /\ plan' = {} /\ snap' = Empty
    /\ UNCHANGED <<database, r2, run, phaseB, phaseBVars, claimed, drained,
                   writes>>

-----------------------------------------------------------------------------
(***************************************************************************)
(* Phase B: candidate discovery.                                           *)
(***************************************************************************)

(* One statement upserts the candidates of every connector-day that has    *)
(* source rows, and closes the gates of completed ones whose aggregates    *)
(* changed.                                                                *)
Populate ==
    /\ pc = "populate"
    /\ LET sourced == {c \in ConnectorDays : Rows(ingest[c]) # {}}
           changed == {c \in sourced :
                         /\ cand[c].status = "complete"
                         /\ cand[c].expected # Aggregate(ingest[c])}
       IN  /\ cand' = [c \in ConnectorDays |->
                         IF c \in sourced
                         THEN Populated(cand[c], Aggregate(ingest[c]))
                         ELSE cand[c]]
           /\ gate' = [c \in ConnectorDays |->
                         IF c \in changed THEN ClosedGate ELSE gate[c]]
           /\ active' = sourced
           /\ scope' = {c \in sourced : cand'[c].status = "complete"}
    /\ pc' = "revalidate"
    /\ UNCHANGED <<ingest, observs, r2, run, phaseB, cur, queue, frozen,
                   batch, gated, unconfirmed, failed, stopped, deleteVars,
                   drained, writes, faults>>

(* Each candidate still complete is rechecked against its current rows in  *)
(* a repeatable-read transaction of its own.                               *)
Revalidate(c) ==
    /\ pc = "revalidate" /\ c \in scope
    /\ scope' = scope \ {c}
    /\ IF cand[c].error # "READY"
       THEN /\ cand' = [cand EXCEPT ![c] = BlockedWithoutProof(@)]
            /\ gate' = [gate EXCEPT ![c] = ClosedGate]
       ELSE IF ingest[c] # cand[c].hash
       THEN /\ cand' = [cand EXCEPT ![c] = Invalidated(@)]
            /\ gate' = [gate EXCEPT ![c] = ClosedGate]
       ELSE UNCHANGED <<cand, gate>>
    /\ UNCHANGED <<ingest, observs, r2, pc, run, phaseB, cur, active, queue,
                   frozen, batch, gated, unconfirmed, failed, stopped,
                   deleteVars, drained, writes, faults>>

(* Mutated form: candidates that are not pending are fetched too.          *)
ActiveUnfinished == {c \in active : cand[c].error # "READY"}

Pending == {c \in active : cand[c].status = "pending"}

FetchPending ==
    /\ pc = "revalidate" /\ scope = {}
    /\ queue' = Pending
    /\ pc' = "candidates"
    /\ UNCHANGED <<database, r2, run, phaseB, cur, scope, active, frozen,
                   batch, gated, unconfirmed, failed, stopped, deleteVars,
                   drained, writes, faults>>

(* The run budget is spent before or right after discovery.                *)
BudgetStopsDiscovery ==
    /\ pc = "populate" \/ (pc = "revalidate" /\ scope = {})
    /\ Fault
    /\ stopped' = TRUE /\ pc' = "phase_b_end"
    /\ UNCHANGED <<database, r2, run, phaseB, cur, scope, active, queue,
                   frozen, batch, gated, unconfirmed, failed, deleteVars,
                   drained, writes>>

-----------------------------------------------------------------------------
(***************************************************************************)
(* Phase B: the candidate loop.                                            *)
(***************************************************************************)
First(S) == CHOOSE c \in S : \A d \in S : Order[c] <= Order[d]

(* The published batch belongs to an earlier day than the next candidate.  *)
AtDayBoundary ==
    /\ queue # {}
    /\ \E b \in batch : DayOf[b] # DayOf[First(queue)]

StartFinalization ==
    /\ pc = "candidates"
    /\ queue = {} \/ AtDayBoundary
    /\ pc' = "finalize"
    /\ UNCHANGED <<database, r2, run, phaseB, cur, phaseBVars, deleteVars,
                   drained, writes, faults>>

BudgetStopsLoop ==
    /\ pc = "candidates" /\ queue # {} /\ ~AtDayBoundary
    /\ Fault
    /\ stopped' = TRUE /\ queue' = {}
    /\ UNCHANGED <<database, r2, pc, run, phaseB, cur, scope, active, frozen,
                   batch, gated, unconfirmed, failed, deleteVars, drained,
                   writes>>

(* markCandidateInProgress *)
Claim ==
    /\ pc = "candidates" /\ queue # {} /\ ~AtDayBoundary
    /\ LET c == First(queue)
       IN  /\ cand[c].status = "pending"
           /\ cand' = [cand EXCEPT ![c] = InProgress(@, run)]
           /\ cur' = c
           /\ queue' = queue \ {c}
    /\ pc' = "claimed"
    /\ UNCHANGED <<ingest, observs, gate, r2, run, phaseB, scope, active,
                   frozen, batch, gated, unconfirmed, failed, stopped,
                   deleteVars, drained, writes, faults>>

(* The gate is closed, then the source is frozen under repeatable read.    *)
(* A row count other than the populated one fails the candidate.           *)
Freeze ==
    /\ pc = "claimed"
    /\ gate' = [gate EXCEPT ![cur] = ClosedGate]
    /\ IF Cardinality(Rows(ingest[cur])) = cand[cur].expected.n
       THEN /\ frozen' = [frozen EXCEPT ![cur] = ingest[cur]]
            /\ pc' = "frozen"
            /\ UNCHANGED <<cand, cur, failed>>
       ELSE /\ cand' = [cand EXCEPT ![cur] = Failed(@, run, "message")]
            /\ failed' = TRUE
            /\ pc' = "candidates" /\ cur' = NoConnectorDay
            /\ UNCHANGED frozen
    /\ UNCHANGED <<ingest, observs, r2, run, phaseB, scope, active, queue,
                   batch, gated, unconfirmed, stopped, deleteVars, drained,
                   writes, faults>>

(* Mutated form: only the index is asked.                                  *)
NothingIndexed(c) == index[c] = NoContent

(* inspectCommittedV3ConnectorDay: neither hierarchy nor index lists it.    *)
NothingCommitted(c) == tree[c] = NoContent /\ index[c] = NoContent

(* admitPruneFrozenConnectorSnapshot: nothing committed, so the snapshot   *)
(* is written under its connector prefix, reachable from no manifest yet.  *)
Publish ==
    /\ pc = "frozen"
    /\ NothingCommitted(cur)
    /\ batch' = batch \cup {cur}
    /\ pc' = "candidates" /\ cur' = NoConnectorDay
    /\ UNCHANGED <<database, r2, run, phaseB, scope, active, queue, frozen,
                   gated, unconfirmed, failed, stopped, deleteVars, drained,
                   writes, faults>>

(* Committed history is never replaced: complete history blocks this       *)
(* connector-day alone, history that hierarchy and index disagree on fails *)
(* the run.                                                                *)
RefusePublication ==
    /\ pc = "frozen"
    /\ ~NothingCommitted(cur)
    /\ IF tree[cur] = index[cur]
       THEN /\ cand' = [cand EXCEPT ![cur] = Failed(@, run, "ISOLATED_BLOCK")]
            /\ UNCHANGED failed
       ELSE /\ cand' = [cand EXCEPT ![cur] = Failed(@, run, "message")]
            /\ failed' = TRUE
    /\ frozen' = [frozen EXCEPT ![cur] = NoContent]
    /\ pc' = "candidates" /\ cur' = NoConnectorDay
    /\ UNCHANGED <<ingest, observs, gate, r2, run, phaseB, scope, active,
                   queue, batch, gated, unconfirmed, stopped, deleteVars,
                   drained, writes, faults>>

(* Any other error of this candidate's work.                               *)
PublicationFails ==
    /\ pc = "frozen"
    /\ Fault
    /\ cand' = [cand EXCEPT ![cur] = Failed(@, run, "message")]
    /\ failed' = TRUE
    /\ frozen' = [frozen EXCEPT ![cur] = NoContent]
    /\ pc' = "candidates" /\ cur' = NoConnectorDay
    /\ UNCHANGED <<ingest, observs, gate, r2, run, phaseB, scope, active,
                   queue, batch, gated, unconfirmed, stopped, deleteVars,
                   drained, writes>>

BudgetStopsCandidate ==
    /\ pc = "frozen"
    /\ Fault
    /\ cand' = [cand EXCEPT ![cur] = StoppedForBudget(@, run)]
    /\ stopped' = TRUE /\ queue' = {}
    /\ frozen' = [frozen EXCEPT ![cur] = NoContent]
    /\ pc' = "candidates" /\ cur' = NoConnectorDay
    /\ UNCHANGED <<ingest, observs, gate, r2, run, phaseB, scope, active,
                   batch, gated, unconfirmed, failed, deleteVars, drained,
                   writes>>

-----------------------------------------------------------------------------
(***************************************************************************)
(* Phase B: finalising a published batch.                                  *)
(***************************************************************************)
FinalizeNothing ==
    /\ pc = "finalize" /\ batch = {}
    /\ pc' = "phase_b_end"
    /\ UNCHANGED <<database, r2, run, phaseB, cur, phaseBVars, deleteVars,
                   drained, writes, faults>>

(* Day, month, year and root manifests make the batch root-reachable.      *)
PublishHierarchy ==
    /\ pc = "finalize" /\ batch # {}
    /\ tree' = [c \in ConnectorDays |->
                  IF c \in batch THEN frozen[c] ELSE tree[c]]
    /\ pc' = "index"
    /\ UNCHANGED <<database, index, run, phaseB, cur, phaseBVars, deleteVars,
                   drained, writes, faults>>

(* Mutated form: one connector-day of the batch is indexed.                *)
PublishIndexOfFirst ==
    /\ pc = "index"
    /\ index' = [index EXCEPT ![First(batch)] = frozen[First(batch)]]
    /\ pc' = "gates"
    /\ UNCHANGED <<database, tree, run, phaseB, cur, phaseBVars, deleteVars,
                   drained, writes, faults>>

PublishIndex ==
    /\ pc = "index"
    /\ index' = [c \in ConnectorDays |->
                   IF c \in batch THEN frozen[c] ELSE index[c]]
    /\ pc' = "gates"
    /\ UNCHANGED <<database, tree, run, phaseB, cur, phaseBVars, deleteVars,
                   drained, writes, faults>>

(* markCandidateAndConnectorGateComplete, COMMIT acknowledged.             *)
OpenConnectorGate(c) ==
    /\ pc = "gates" /\ c \in batch
    /\ Completable(cand[c], run, frozen[c])
    /\ cand' = [cand EXCEPT ![c] = Completed(@, run, frozen[c])]
    /\ gate' = [gate EXCEPT ![c] = OpenGate(run, frozen[c])]
    /\ batch' = batch \ {c} /\ gated' = gated \cup {c}
    /\ UNCHANGED <<ingest, observs, r2, pc, run, phaseB, cur, scope, active,
                   queue, frozen, unconfirmed, failed, stopped, deleteVars,
                   drained, writes, faults>>

(* The same transaction fails, or commits and loses its acknowledgement.   *)
GateUnconfirmed(c) ==
    /\ pc = "gates" /\ c \in batch
    /\ Fault
    /\ \/ UNCHANGED <<cand, gate>>
       \/ /\ Completable(cand[c], run, frozen[c])
          /\ cand' = [cand EXCEPT ![c] = Completed(@, run, frozen[c])]
          /\ gate' = [gate EXCEPT ![c] = OpenGate(run, frozen[c])]
    /\ batch' = batch \ {c} /\ gated' = gated \cup {c}
    /\ unconfirmed' = unconfirmed \cup {c}
    /\ UNCHANGED <<ingest, observs, r2, pc, run, phaseB, cur, scope, active,
                   queue, frozen, failed, stopped, deleteVars, drained,
                   writes>>

(* Each gate failure is recorded on its candidate, committed or not.       *)
RecordGateFailure(c) ==
    /\ pc = "gates" /\ batch = {} /\ c \in unconfirmed
    /\ cand' = [cand EXCEPT ![c] = Failed(@, run, "GATE_RECOVERY_UNPROVEN")]
    /\ unconfirmed' = unconfirmed \ {c}
    /\ failed' = TRUE
    /\ UNCHANGED <<ingest, observs, gate, r2, pc, run, phaseB, cur, scope,
                   active, queue, frozen, batch, gated, stopped, deleteVars,
                   drained, writes, faults>>

LeaveGates ==
    /\ pc = "gates" /\ batch = {} /\ unconfirmed = {}
    /\ frozen' = Nothing
    /\ pc' = "day_gates"
    /\ UNCHANGED <<database, r2, run, phaseB, cur, scope, active, queue, batch,
                   gated, unconfirmed, failed, stopped, deleteVars, drained,
                   writes, faults>>

FinalizeDayGates ==
    /\ pc = "day_gates"
    /\ pc' = "candidates" /\ gated' = {}
    /\ UNCHANGED <<database, r2, run, phaseB, cur, scope, active, queue,
                   frozen, batch, unconfirmed, failed, stopped, deleteVars,
                   drained, writes, faults>>

(* A day gate raises and is blocked: an error fails the run, the budget    *)
(* ends the loop.                                                          *)
DayGatesFail ==
    /\ pc = "day_gates"
    /\ Fault
    /\ pc' = "candidates" /\ gated' = {}
    /\ \/ failed' = TRUE /\ UNCHANGED <<stopped, queue>>
       \/ stopped' = TRUE /\ queue' = {} /\ UNCHANGED failed
    /\ UNCHANGED <<database, r2, run, phaseB, cur, scope, active, frozen,
                   batch, unconfirmed, deleteVars, drained, writes>>

(* What is caught around the whole of a batch's finalisation: an error of  *)
(* the finaliser, before the hierarchy, between it and the index or after  *)
(* both, or the budget; a gate failure that cannot be recorded; a day gate *)
(* that cannot be blocked.                                                 *)
FinalizationRaises(budget) ==
    \/ pc \in {"finalize", "index", "gates"} /\ batch # {} /\ gated = {}
    \/ ~budget /\ pc = "gates" /\ batch = {} /\ unconfirmed # {}
    \/ ~budget /\ pc = "day_gates"

(* The candidates in S are failed, or returned to pending when it was the  *)
(* budget, whatever they say by then; their gates are left alone.          *)
MarkPublished(S, budget) ==
    cand' = [c \in ConnectorDays |->
               IF c \notin S THEN cand[c]
               ELSE IF budget THEN StoppedForBudget(cand[c], run)
               ELSE Failed(cand[c], run, "message")]

(* The whole batch is marked and the candidate loop ends.                  *)
FinalizationFails ==
    /\ Fault
    /\ \E budget \in BOOLEAN :
         /\ FinalizationRaises(budget)
         /\ MarkPublished(batch \cup gated, budget)
         /\ stopped' = (stopped \/ budget)
         /\ failed' = (failed \/ ~budget)
    /\ batch' = {} /\ gated' = {} /\ unconfirmed' = {}
    /\ queue' = {} /\ frozen' = Nothing
    /\ pc' = "finalize"
    /\ UNCHANGED <<ingest, observs, gate, r2, run, phaseB, cur, scope, active,
                   deleteVars, drained, writes>>

(* The first ones of a batch, in the order it was published in.            *)
Beginning(T, S) ==
    T \subseteq S /\ \A c \in T, d \in S : Order[d] < Order[c] => d \in T

(* Marking fails too, or the process dies over it: the run ends there.     *)
MarkingFails ==
    /\ Fault
    /\ \E budget \in BOOLEAN, marked \in SUBSET (batch \cup gated) :
         /\ FinalizationRaises(budget)
         /\ Beginning(marked, batch \cup gated)
         /\ MarkPublished(marked, budget)
    /\ WorkerIdle
    /\ UNCHANGED <<ingest, observs, gate, r2, drained, writes>>

(* A failed or budget-stopped Phase B skips every deletion of the run.     *)
EndPhaseB ==
    /\ pc = "phase_b_end"
    /\ IF failed \/ stopped
       THEN WorkerIdle
       ELSE /\ pc' = "days" /\ agenda' = Agenda
            /\ UNCHANGED <<run, phaseB, cur, phaseBVars, claimed, work, seen,
                           repairs, plan, snap>>
    /\ UNCHANGED <<database, r2, drained, writes, faults>>

-----------------------------------------------------------------------------
(***************************************************************************)
(* Deletion windows.                                                       *)
(***************************************************************************)
SeenOf(S) == [c \in ConnectorDays |-> IF c \in S THEN ingest[c] ELSE Empty]

(* Connector-days with ingest buckets are claimed, once per run, and read. *)
StartDay ==
    /\ pc = "days" /\ agenda # <<>>
    /\ LET found == {c \in ConnectorDays : /\ DayOf[c] = Head(agenda).day
                                           /\ Rows(ingest[c]) # {}}
       IN  /\ work' = found \ claimed
           /\ claimed' = claimed \cup found
           /\ seen' = SeenOf(found \ claimed)
    /\ pc' = IF Head(agenda).mode = "late_direct" THEN "plan" ELSE "compare"
    /\ UNCHANGED <<database, r2, run, phaseB, cur, phaseBVars, agenda, repairs,
                   plan, snap, drained, writes, faults>>

Compare ==
    /\ pc = "compare"
    /\ repairs' = UNION {{<<c, h>> : h \in Repairable(seen[c], observs[c])} :
                            c \in work}
    /\ pc' = "repair"
    /\ UNCHANGED <<database, r2, run, phaseB, cur, phaseBVars, agenda, claimed,
                   work, seen, plan, snap, drained, writes, faults>>

RepairBucket(c, h) ==
    /\ pc = "repair" /\ <<c, h>> \in repairs
    /\ observs' = [observs EXCEPT ![c] = Replay(@, ingest[c], h)]
    /\ repairs' = repairs \ {<<c, h>>}
    /\ UNCHANGED <<ingest, cand, gate, r2, pc, run, phaseB, cur, phaseBVars,
                   agenda, claimed, work, seen, plan, snap, drained, writes,
                   faults>>

(* A replay that fails after some of its chunks is reported and passed by. *)
RepairFails(c, h) ==
    /\ pc = "repair" /\ <<c, h>> \in repairs
    /\ Fault
    /\ \E done \in SUBSET Bucket(ingest[c], h) :
         observs' = [observs EXCEPT ![c] =
                       [k \in Keys |-> IF k \in done THEN ingest[c][k]
                                                     ELSE @[k]]]
    /\ repairs' = repairs \ {<<c, h>>}
    /\ UNCHANGED <<ingest, cand, gate, r2, pc, run, phaseB, cur, phaseBVars,
                   agenda, claimed, work, seen, plan, snap, drained, writes>>

RereadIngest ==
    /\ pc = "repair" /\ repairs = {}
    /\ seen' = SeenOf(work)
    /\ pc' = "recompare"
    /\ UNCHANGED <<database, r2, run, phaseB, cur, phaseBVars, agenda, claimed,
                   work, repairs, plan, snap, drained, writes, faults>>

(* applyConnectorHistoryGateFilter lets everything pass without Phase B.   *)
GateAllows(c) == phaseB => ValidGate(gate[c])

(* Every bucket must match ObsAqiDB, then the atomic connector-day plan is *)
(* built from the buckets whose gate is open.                              *)
PlanVerified ==
    /\ pc = "recompare"
    /\ plan' = {c \in work : /\ Rows(seen[c]) # {}
                             /\ Mismatches(seen[c], observs[c]) = {}
                             /\ GateAllows(c)}
    /\ pc' = "delete"
    /\ UNCHANGED <<database, r2, run, phaseB, cur, phaseBVars, agenda, claimed,
                   work, seen, repairs, snap, drained, writes, faults>>

(* Days beyond ObsAqiDB's retention are planned from the gate alone.       *)
PlanDirect ==
    /\ pc = "plan"
    /\ plan' = {c \in work : GateAllows(c)}
    /\ pc' = "delete"
    /\ UNCHANGED <<database, r2, run, phaseB, cur, phaseBVars, agenda, claimed,
                   work, seen, repairs, snap, drained, writes, faults>>

FinishDay ==
    /\ pc = "delete" /\ plan = {}
    /\ pc' = "days" /\ agenda' = Tail(agenda)
    /\ work' = {} /\ seen' = [c \in ConnectorDays |-> Empty]
    /\ UNCHANGED <<database, r2, run, phaseB, cur, phaseBVars, claimed,
                   repairs, plan, snap, drained, writes, faults>>

EndRun ==
    /\ pc = "days" /\ agenda = <<>>
    /\ WorkerIdle
    /\ UNCHANGED <<database, r2, drained, writes, faults>>

-----------------------------------------------------------------------------
(***************************************************************************)
(* The deletion transaction of one connector-day, under REPEATABLE READ.   *)
(***************************************************************************)
BeginDelete ==
    /\ pc = "delete" /\ plan # {}
    /\ cur' = First(plan)
    /\ plan' = plan \ {cur'}
    /\ snap' = ingest[cur']
    /\ pc' = "txn"
    /\ UNCHANGED <<database, r2, run, phaseB, phaseBVars, agenda, claimed,
                   work, seen, repairs, drained, writes, faults>>

(* Mutated forms: completion flags are trusted; rows are merely counted.   *)
IdentityByFlags ==
    cand[cur].status = "complete" /\ gate[cur].done /\ snap # Empty

IdentityByCount ==
    /\ EvidenceAgrees(cand[cur], gate[cur])
    /\ snap # Empty
    /\ Cardinality(Rows(snap)) = Cardinality(Rows(cand[cur].hash))

(* The snapshot's rows are the ones candidate and gate vouch for.          *)
IdentityHolds ==
    /\ EvidenceAgrees(cand[cur], gate[cur])
    /\ snap # Empty
    /\ snap = cand[cur].hash

(* A row of the snapshot was changed since by somebody else.               *)
WriteConflict == \E k \in Rows(snap) : ingest[cur][k] # snap[k]

LeaveTransaction ==
    /\ pc' = "delete" /\ cur' = NoConnectorDay /\ snap' = Empty
    /\ UNCHANGED <<observs, r2, run, phaseB, phaseBVars, agenda, claimed, work,
                   seen, repairs, plan, writes, faults>>

(* Evidence that contradicts the rows is voided, and that is committed.    *)
DeleteInvalidates ==
    /\ pc = "txn"
    /\ ~PreservesEvidence(cand[cur])
    /\ ~IdentityHolds
    /\ cand' = [cand EXCEPT ![cur] = IF @.status = "absent" THEN @
                                                            ELSE Invalidated(@)]
    /\ gate' = [gate EXCEPT ![cur] = ClosedGate]
    /\ LeaveTransaction
    /\ UNCHANGED <<ingest, drained>>

DeleteRollsBack ==
    /\ pc = "txn"
    /\ \/ PreservesEvidence(cand[cur])
       \/ /\ IdentityHolds
          /\ \/ ~PlanCovers(seen[cur], snap)
             \/ DeleteCapReached(snap, DeleteCap)
             \/ WriteConflict
    /\ LeaveTransaction
    /\ UNCHANGED <<ingest, cand, gate, drained>>

(* Mutated forms: nothing is consumed; the gate stays open.                *)
AuthorityKept(c) == UNCHANGED <<cand, gate>>

GateKept(c) ==
    /\ cand' = [cand EXCEPT ![c] = Consumed(@)]
    /\ UNCHANGED gate

(* consumeFirstDeletionAuthority: mark the candidate, close the gate.       *)
ConsumeFirstDeletionAuthority(c) ==
    /\ cand' = [cand EXCEPT ![c] = Consumed(@)]
    /\ gate' = [gate EXCEPT ![c].done = FALSE]

(* Every row of the snapshot goes, rows that arrived since stay, and the   *)
(* first-deletion authority is consumed in the same transaction.           *)
DeleteCommits ==
    /\ pc = "txn"
    /\ IdentityHolds
    /\ PlanCovers(seen[cur], snap)
    /\ ~DeleteCapReached(snap, DeleteCap)
    /\ ~WriteConflict
    /\ ingest' = [ingest EXCEPT ![cur] = Removed(@, snap)]
    /\ ConsumeFirstDeletionAuthority(cur)
    /\ drained' = [drained EXCEPT ![cur] = @ + 1]
    /\ LeaveTransaction

-----------------------------------------------------------------------------
Environment ==
    \E c \in ConnectorDays, k \in Keys :
        OutboxDelivers(c, k) \/ \E v \in Values : IngestWrite(c, k, v)

Failures ==
    \/ Crash \/ LateDayError
    \/ BudgetStopsDiscovery \/ BudgetStopsLoop
    \/ PublicationFails \/ BudgetStopsCandidate
    \/ FinalizationFails \/ MarkingFails \/ DayGatesFail
    \/ \E c \in ConnectorDays :
         GateUnconfirmed(c) \/ \E h \in Hours : RepairFails(c, h)

PhaseB ==
    \/ Populate \/ FetchPending
    \/ \E c \in ConnectorDays :
         Revalidate(c) \/ OpenConnectorGate(c) \/ RecordGateFailure(c)
    \/ StartFinalization \/ Claim \/ Freeze \/ Publish \/ RefusePublication
    \/ FinalizeNothing \/ PublishHierarchy \/ PublishIndex
    \/ LeaveGates \/ FinalizeDayGates \/ EndPhaseB

Deletion ==
    \/ StartDay \/ Compare \/ RereadIngest \/ PlanVerified \/ PlanDirect
    \/ \E c \in ConnectorDays, h \in Hours : RepairBucket(c, h)
    \/ BeginDelete \/ DeleteInvalidates \/ DeleteRollsBack \/ DeleteCommits
    \/ FinishDay \/ EndRun

Next == StartRun \/ PhaseB \/ Deletion \/ Failures \/ Environment

Spec == Init /\ [][Next]_vars

(* The job process runs its own steps; nothing forces writers, faults or   *)
(* the start of another run.                                               *)
Fairness == WF_vars(PhaseB \/ Deletion)

FairSpec == Spec /\ Fairness

-----------------------------------------------------------------------------
(***************************************************************************)
(* Properties.                                                             *)
(***************************************************************************)
ContentOrNone == Contents \cup {NoContent}

(* Every variable holds what the tables, objects and worker memory can.    *)
TypeOK ==
    /\ ingest \in [ConnectorDays -> Contents]
    /\ observs \in [ConnectorDays -> Contents]
    /\ cand \in [ConnectorDays -> Candidates]
    /\ gate \in [ConnectorDays -> Gates]
    /\ tree \in [ConnectorDays -> ContentOrNone]
    /\ index \in [ConnectorDays -> ContentOrNone]
    /\ pc \in {"idle"} \cup PhaseBSteps \cup DeleteSteps
    /\ run \in Nat /\ phaseB \in BOOLEAN
    /\ cur \in ConnectorDays \cup {NoConnectorDay}
    /\ scope \subseteq ConnectorDays /\ active \subseteq ConnectorDays
    /\ queue \subseteq ConnectorDays
    /\ frozen \in [ConnectorDays -> ContentOrNone]
    /\ batch \subseteq ConnectorDays /\ gated \subseteq ConnectorDays
    /\ unconfirmed \subseteq ConnectorDays
    /\ failed \in BOOLEAN /\ stopped \in BOOLEAN
    /\ agenda \in Seq([day : Days, mode : Modes])
    /\ claimed \subseteq ConnectorDays /\ work \subseteq ConnectorDays
    /\ seen \in [ConnectorDays -> Contents]
    /\ repairs \subseteq ConnectorDays \X Hours
    /\ plan \subseteq ConnectorDays
    /\ snap \in Contents
    /\ drained \in [ConnectorDays -> Nat]
    /\ writes \in Nat /\ faults \in Nat

Deletes(c, k) == ingest[c][k] # NoRow /\ ingest'[c][k] = NoRow

(* No row leaves IngestDB unless R2 holds that row, with that very value,  *)
(* reachable from the root manifest and listed by the index, whatever was  *)
(* written between freezing, publishing, planning and deleting.            *)
ArchivedBeforeDeletion ==
    [][\A c \in ConnectorDays, k \in Keys : Deletes(c, k) =>
           /\ tree[c] # NoContent
           /\ index[c] = tree[c]
           /\ tree[c][k] = ingest[c][k]]_vars

(* Original rows and an identical later replay cannot be told apart, so a  *)
(* connector-day is drained at most once, across runs, crashes, lost       *)
(* acknowledgements and runs without Phase B.                              *)
FirstDeletionOnce == \A c \in ConnectorDays : drained[c] <= 1

(* A connector-day completed before first-delete markers existed has null  *)
(* evidence and is never deleted, by any run, with Phase B or without.     *)
LegacyFailsClosed == \A c \in Legacy : drained[c] = 0

(* What is reachable from the R2 root is never replaced by a later run.    *)
CommittedHistoryStable ==
    [][\A c \in ConnectorDays : tree[c] # NoContent => tree'[c] = tree[c]]_vars

(* An open gate with an identity vouches for complete R2 content of a      *)
(* connector-day that was never drained.  The candidate beside it may have *)
(* been marked failed since, or returned to pending, by a batch that went  *)
(* wrong after its gates; one that says complete is of the same run and    *)
(* identity.                                                               *)
OpenGateVouches ==
    \A c \in ConnectorDays : ValidGate(gate[c]) =>
        /\ tree[c] = gate[c].hash
        /\ index[c] = gate[c].hash
        /\ drained[c] = 0
        /\ cand[c].status = "complete" => EvidenceAgrees(cand[c], gate[c])

(* A ready candidate and its gate carry one publication identity.          *)
ReadyHasGate ==
    \A c \in ConnectorDays : cand[c].error = "READY" =>
        EvidenceAgrees(cand[c], gate[c])

(* Once a connector-day was drained, no Phase B outcome, invalidation or   *)
(* reappearing row takes the consumed marker away (with Phase B enabled).  *)
ConsumedRemembered ==
    \A c \in ConnectorDays : drained[c] > 0 =>
        /\ cand[c].error = "CONSUMED"
        /\ cand[c].status \in {"complete", "failed"}
        /\ ~gate[c].done

(* A connector-day is deleted whole: when a row leaves IngestDB, none of   *)
(* the rows archived with it stays behind (the authority to delete is      *)
(* spent, so they would stay forever).                                     *)
DeletionIsWhole ==
    [][\A c \in ConnectorDays : (\E k \in Keys : Deletes(c, k)) =>
         \A k \in Rows(tree[c]) : ingest'[c][k] = NoRow]_vars

(* A run that ends by itself leaves no candidate it claimed in progress.   *)
NoAbandonedClaim ==
    [][(pc \in {"phase_b_end", "days"} /\ pc' = "idle" /\ faults' = faults)
         => \A c \in ConnectorDays :
              ~(cand[c].status = "in_progress" /\ cand[c].run = run)]_vars

(* What a verified window deletes is in ObsAqiDB too, under the same keys. *)
WindowDeletesReplicated ==
    [][\A c \in ConnectorDays, k \in Keys :
         Deletes(c, k) /\ Head(agenda).mode # "late_direct"
           => observs[c][k] # NoRow]_vars

(* The worker, seen from its rows, snapshots and R2 history, archives each *)
(* connector-day once and drains it once, as the abstract module says.     *)
Promise ==
    INSTANCE ArchiveThenDelete WITH
        live <- ingest, staged <- frozen, archive <- tree,
        drained <- {c \in ConnectorDays : drained[c] > 0}

ArchivesThenDeletes == Promise!Spec

(* The job's own steps end every run that starts.                          *)
RunsEnd == pc # "idle" ~> pc = "idle"

(* Nothing durable stands in the way of c: whatever earlier runs left of   *)
(* it, crashed, failed or stopped, is theirs to redo.                      *)
Drainable(c) ==
    /\ Rows(ingest[c]) # {} /\ ~DeleteCapReached(ingest[c], DeleteCap)
    /\ ~PersistentBlock(cand[c])
    /\ \/ tree[c] = NoContent
       \/ cand[c].error = "READY" /\ cand[c].hash = ingest[c]
    /\ Head(Agenda) = [day |-> DayOf[c], mode |-> "window"]

(* A run with Phase B that meets no fault and no writer deletes the rows   *)
(* of a drainable connector-day, as long as hierarchy and index agree on   *)
(* every connector-day.                                                    *)
CleanRunDrains ==
    \A c \in ConnectorDays :
        /\ pc = "populate" /\ writes = MaxWrites /\ faults = MaxFaults
        /\ tree = index /\ Drainable(c)
      ~> drained[c] > 0
=============================================================================
