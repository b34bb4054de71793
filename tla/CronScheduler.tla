--------------------------- MODULE CronScheduler ---------------------------
(***************************************************************************)
(* The ops minute scheduler: a Cloudflare Worker with two triggers, its    *)
(* own cron and the watchdog's POST /run-if-due, over D1 tables of jobs,   *)
(* runs and dispatches.                                                    *)
(*                                                                         *)
(* Both triggers reach the same handler, runScheduler, at once, late or    *)
(* never.  The handler claims the minute, reads the enabled jobs, claims   *)
(* each due dispatch, sends one request to its target and records the      *)
(* outcome.  Every D1 call may fail, applied or not, and the Worker may be *)
(* stopped anywhere.                                                       *)
(*                                                                         *)
(* A minute is its number; times inside the evaluation window are seconds. *)
(* A cron expression is modelled by the minutes it matches, a job row that *)
(* does not parse by valid = FALSE.                                        *)
(***************************************************************************)
EXTENDS Integers, FiniteSets

CONSTANTS
    Jobs, NoJob,
    JobOrder,       \* position of a job_key in "order by job_key"
    Configs,        \* rows the config sync may write to scheduler_jobs
    Invocations,    \* handler invocations, each used once
    MaxMinute, MaxSyncs, MaxFaults      \* bounds of the model

Minutes == 0 .. MaxMinute

Rows == [enabled : BOOLEAN, dry : BOOLEAN, valid : BOOLEAN,
         due : SUBSET Minutes]

ASSUME JobsAssumption == IsFiniteSet(Jobs)
ASSUME NoJobAssumption == NoJob \notin Jobs
ASSUME JobOrderAssumption ==
    /\ JobOrder \in [Jobs -> Nat]
    /\ \A j, k \in Jobs : JobOrder[j] = JobOrder[k] => j = k
ASSUME ConfigsAssumption == Configs \subseteq Rows
ASSUME MaxMinuteAssumption == MaxMinute \in Nat

VARIABLES
    now,            \* the current UTC minute
    crons,          \* minutes whose cron event has not fired yet
    jobs,           \* scheduler_jobs
    runs,           \* scheduler_runs, unique by minute_slot
    dispatches,     \* dispatch_status, unique by (job_key, due_at)
    inv,            \* the memory of every invocation
    requests,       \* requests made for a job and minute
    accepted,       \* those answered with success: 2xx, by GitHub 204
    syncs, faults   \* counters of the model's bounds

d1     == <<runs, dispatches>>
target == <<requests, accepted>>
vars   == <<now, crons, jobs, d1, inv, target, syncs, faults>>

RunStatuses      == {"none", "started", "finished", "failed"}
DispatchStatuses == {"none", "claimed", "dry_run", "dispatched", "failed"}
Sources          == {"cloudflare_cron", "external_watchdog"}

NoMinuteRun == [status |-> "none", source |-> "none",
                claimed |-> 0, dispatched |-> 0, failed |-> 0]

NoRow == [enabled |-> FALSE, dry |-> FALSE, valid |-> FALSE, due |-> {}]

Idle ==
    [pc |-> "idle", slot |-> 0, source |-> "none",
     rows |-> [j \in Jobs |-> NoRow], todo |-> {}, slots |-> {},
     job |-> NoJob, at |-> 0, result |-> "none",
     claimed |-> 0, dispatched |-> 0, failed |-> 0, reply |-> "none"]

(* An invocation that is over leaves nothing but its answer.               *)
Over(me, reply) ==
    [Idle EXCEPT !.pc = "done", !.slot = me.slot, !.source = me.source,
                 !.reply = reply]

(* The locals of one dispatch are gone when the loop goes on.              *)
GoesOn(me) == [me EXCEPT !.pc = "jobs", !.at = 0, !.result = "none"]

IsFirst(j, S) == j \in S /\ \A k \in S : JobOrder[j] <= JobOrder[k]

Earliest(S) == CHOOSE m \in S : \A n \in S : m <= n

Init ==
    /\ now = 0 /\ crons = {0}
    /\ jobs \in [Jobs -> Configs]
    /\ runs = [m \in Minutes |-> NoMinuteRun]
    /\ dispatches = [j \in Jobs |-> [m \in Minutes |-> "none"]]
    /\ inv = [i \in Invocations |-> Idle]
    /\ requests = [j \in Jobs |-> [m \in Minutes |-> 0]]
    /\ accepted = {}
    /\ syncs = 0 /\ faults = 0

Fault == faults < MaxFaults /\ faults' = faults + 1

-----------------------------------------------------------------------------
(***************************************************************************)
(* Which minutes are due.                                                  *)
(***************************************************************************)
MinuteSeconds == 60

DispatchLead == 30

(* cronDueTimes over (start, end], both in seconds.                        *)
CronDueTimes(due, start, end) ==
    {m \in due : /\ start \div MinuteSeconds + 1 <= m
                 /\ m <= end \div MinuteSeconds}

(* dueSlotsForJob over currentMinuteEvaluationWindow of the slot.          *)
DueSlots(row, slot) ==
    CronDueTimes(row.due,
                 MinuteSeconds * slot - MinuteSeconds + DispatchLead,
                 MinuteSeconds * slot + DispatchLead)

-----------------------------------------------------------------------------
(***************************************************************************)
(* D1 writes, apart from what the handler makes of their answer.           *)
(***************************************************************************)
(* Mutated form: a failed minute may be claimed again.                     *)
FreeAfterFailure(slot) == runs[slot].status \in {"none", "failed"}

(* The unique index over (scheduler_name, minute_slot) admits the insert.  *)
MinuteFree(slot) == runs[slot].status = "none"

WriteMinute(i) ==
    /\ runs' = IF MinuteFree(inv[i].slot)
               THEN [runs EXCEPT ![inv[i].slot] =
                       [NoMinuteRun EXCEPT !.status = "started",
                                           !.source = inv[i].source]]
               ELSE runs
    /\ UNCHANGED dispatches

DispatchFree(j, m) == dispatches[j][m] = "none"

Due(i) == Earliest(inv[i].slots)

WriteClaim(i) ==
    /\ dispatches' = IF DispatchFree(inv[i].job, Due(i))
                     THEN [dispatches EXCEPT ![inv[i].job][Due(i)] = "claimed"]
                     ELSE dispatches
    /\ UNCHANGED runs

WriteOutcome(i, status) ==
    /\ dispatches' = [dispatches EXCEPT ![inv[i].job][inv[i].at] = status]
    /\ UNCHANGED runs

(* finishRun: counters are stored with success and zeroed with failure.    *)
Counted(status, n) == IF status = "finished" THEN n ELSE 0

WriteEnd(i, status) ==
    /\ runs' = [runs EXCEPT ![inv[i].slot] =
                  [status |-> status, source |-> @.source,
                   claimed    |-> Counted(status, inv[i].claimed),
                   dispatched |-> Counted(status, inv[i].dispatched),
                   failed     |-> Counted(status, inv[i].failed)]]
    /\ UNCHANGED dispatches

(* Mutated form: the last job's slots are left over.                       *)
OutOfJobs(i) == inv[i].todo = {}

Exhausted(i) == inv[i].todo = {} /\ inv[i].slots = {}

(* The D1 call invocation i is about to make, if any.                      *)
InStoreCall(i) ==
    \/ inv[i].pc \in {"claim", "list", "dry", "record", "catch", "fail"}
    \/ inv[i].pc = "jobs" /\ (inv[i].slots # {} \/ Exhausted(i))

StoreWrite(i) ==
    \/ inv[i].pc = "claim"  /\ WriteMinute(i)
    \/ inv[i].pc = "list"   /\ UNCHANGED d1
    \/ inv[i].pc = "jobs"   /\ inv[i].slots # {} /\ WriteClaim(i)
    \/ inv[i].pc = "dry"    /\ WriteOutcome(i, "dry_run")
    \/ inv[i].pc = "record" /\ WriteOutcome(i, inv[i].result)
    \/ inv[i].pc = "catch"  /\ WriteOutcome(i, "failed")
    \/ inv[i].pc = "jobs"   /\ Exhausted(i) /\ WriteEnd(i, "finished")
    \/ inv[i].pc = "fail"   /\ WriteEnd(i, "failed")

-----------------------------------------------------------------------------
(***************************************************************************)
(* Triggers, time and configuration.                                       *)
(***************************************************************************)
Tick ==
    /\ now < MaxMinute
    /\ now' = now + 1
    /\ crons' = crons \cup {now + 1}
    /\ UNCHANGED <<jobs, d1, inv, target, syncs, faults>>

Start(i, slot, source) ==
    /\ inv[i].pc = "idle"
    /\ inv' = [inv EXCEPT ![i].pc = "claim", ![i].slot = slot,
                          ![i].source = source]

(* A cron event carries its scheduled minute, however late it fires.       *)
CronFires(i, m) ==
    /\ m \in crons
    /\ Start(i, m, "cloudflare_cron")
    /\ crons' = crons \ {m}
    /\ UNCHANGED <<now, jobs, d1, target, syncs, faults>>

(* A POST is for the minute in which it is handled; delayed ones of        *)
(* earlier minutes may crowd into the same one.                            *)
WatchdogPosts(i) ==
    /\ Start(i, now, "external_watchdog")
    /\ UNCHANGED <<now, crons, jobs, d1, target, syncs, faults>>

(* sync_jobs.py upserts a row, at any time.                                *)
SyncJob(j, row) ==
    /\ syncs < MaxSyncs /\ jobs[j] # row
    /\ jobs' = [jobs EXCEPT ![j] = row]
    /\ syncs' = syncs + 1
    /\ UNCHANGED <<now, crons, d1, inv, target, faults>>

-----------------------------------------------------------------------------
(***************************************************************************)
(* runScheduler and dispatchDueJobsForWindow, one await at a time.         *)
(***************************************************************************)
Becomes(i, me) == inv' = [inv EXCEPT ![i] = me]

ClaimMinute(i) ==
    /\ inv[i].pc = "claim"
    /\ StoreWrite(i)
    /\ Becomes(i, IF MinuteFree(inv[i].slot)
                  THEN [inv[i] EXCEPT !.pc = "list"]
                  ELSE Over(inv[i], runs[inv[i].slot].source))
    /\ UNCHANGED <<now, crons, jobs, target, syncs, faults>>

ListEnabledJobs(i) ==
    /\ inv[i].pc = "list"
    /\ inv' = [inv EXCEPT ![i].pc = "jobs", ![i].rows = jobs,
                          ![i].todo = {j \in Jobs : jobs[j].enabled}]
    /\ UNCHANGED <<now, crons, jobs, d1, target, syncs, faults>>

(* The memory once j's row has parsed and its due slots are known.         *)
Evaluated(me, j) ==
    [me EXCEPT !.todo = @ \ {j}, !.job = j,
               !.slots = DueSlots(me.rows[j], me.slot)]

(* Mutated form: a row that does not parse ends the run.                   *)
EvaluateJobStrictly(i) ==
    /\ inv[i].pc = "jobs" /\ inv[i].slots = {} /\ inv[i].todo # {}
    /\ \E j \in Jobs :
         /\ IsFirst(j, inv[i].todo)
         /\ Becomes(i, IF inv[i].rows[j].valid
                       THEN Evaluated(inv[i], j)
                       ELSE [inv[i] EXCEPT !.pc = "fail"])
    /\ UNCHANGED <<now, crons, jobs, d1, target, syncs, faults>>

(* A row that does not parse is counted and passed over.                   *)
EvaluateJob(i) ==
    /\ inv[i].pc = "jobs" /\ inv[i].slots = {} /\ inv[i].todo # {}
    /\ \E j \in Jobs :
         /\ IsFirst(j, inv[i].todo)
         /\ Becomes(i, IF inv[i].rows[j].valid
                       THEN Evaluated(inv[i], j)
                       ELSE [inv[i] EXCEPT !.todo = @ \ {j}, !.failed = @ + 1])
    /\ UNCHANGED <<now, crons, jobs, d1, target, syncs, faults>>

(* A dispatch somebody claimed already is skipped.                         *)
ClaimDispatch(i) ==
    /\ inv[i].pc = "jobs" /\ inv[i].slots # {}
    /\ StoreWrite(i)
    /\ LET me == [inv[i] EXCEPT !.slots = @ \ {Due(i)}, !.at = Due(i)]
       IN  Becomes(i, IF ~DispatchFree(me.job, me.at)
                      THEN GoesOn(me)
                      ELSE [me EXCEPT
                              !.pc = IF me.rows[me.job].dry THEN "dry"
                                     ELSE "send",
                              !.claimed = @ + 1])
    /\ UNCHANGED <<now, crons, jobs, target, syncs, faults>>

(* Mutated form: the dry run goes on to the target.                        *)
RecordDryRunAndSend(i) ==
    /\ inv[i].pc = "dry"
    /\ StoreWrite(i)
    /\ inv' = [inv EXCEPT ![i].pc = "send"]
    /\ UNCHANGED <<now, crons, jobs, target, syncs, faults>>

RecordDryRun(i) ==
    /\ inv[i].pc = "dry"
    /\ StoreWrite(i)
    /\ Becomes(i, GoesOn(inv[i]))
    /\ UNCHANGED <<now, crons, jobs, target, syncs, faults>>

Request(i) ==
    requests' = [requests EXCEPT ![inv[i].job][inv[i].at] = @ + 1]

Accept(i) == accepted' = accepted \cup {<<inv[i].job, inv[i].at>>}

Answered(ok) == IF ok THEN "dispatched" ELSE "failed"

(* dispatchTarget returns: the target answered success, or something else. *)
TargetAnswers(i, ok) ==
    /\ inv[i].pc = "send"
    /\ Request(i)
    /\ IF ok THEN Accept(i) ELSE UNCHANGED accepted
    /\ inv' = [inv EXCEPT ![i].pc = "record", ![i].result = Answered(ok)]
    /\ UNCHANGED <<now, crons, jobs, d1, syncs, faults>>

(* dispatchTarget throws: a missing secret, a broken connection, or an     *)
(* unreadable body under any response status.                              *)
DispatchThrows(i, made, ok) ==
    /\ inv[i].pc = "send"
    /\ ok => made
    /\ Fault
    /\ IF made THEN Request(i) ELSE UNCHANGED requests
    /\ IF ok THEN Accept(i) ELSE UNCHANGED accepted
    /\ inv' = [inv EXCEPT ![i].pc = "catch", ![i].failed = @ + 1]
    /\ UNCHANGED <<now, crons, jobs, d1, syncs>>

RecordOutcome(i) ==
    /\ inv[i].pc = "record"
    /\ StoreWrite(i)
    /\ Becomes(i, IF inv[i].result = "dispatched"
                  THEN GoesOn([inv[i] EXCEPT !.dispatched = @ + 1])
                  ELSE GoesOn([inv[i] EXCEPT !.failed = @ + 1]))
    /\ UNCHANGED <<now, crons, jobs, target, syncs, faults>>

RecordFailure(i) ==
    /\ inv[i].pc = "catch"
    /\ StoreWrite(i)
    /\ Becomes(i, GoesOn(inv[i]))
    /\ UNCHANGED <<now, crons, jobs, target, syncs, faults>>

FinishRun(i) ==
    /\ inv[i].pc = "jobs" /\ Exhausted(i)
    /\ StoreWrite(i)
    /\ Becomes(i, Over(inv[i], "triggered"))
    /\ UNCHANGED <<now, crons, jobs, target, syncs, faults>>

FailRun(i) ==
    /\ inv[i].pc = "fail"
    /\ StoreWrite(i)
    /\ Becomes(i, Over(inv[i], "error"))
    /\ UNCHANGED <<now, crons, jobs, target, syncs, faults>>

-----------------------------------------------------------------------------
(***************************************************************************)
(* What goes wrong.                                                        *)
(***************************************************************************)
(* Mutated forms: a failed recording is retried from the request on; the   *)
(* success is counted before it is recorded.                               *)
RaisedRetrying(me) ==
    CASE me.pc = "record" -> [me EXCEPT !.pc = "send"]
      [] me.pc \in {"claim", "fail"} -> Over(me, "error")
      [] OTHER -> [me EXCEPT !.pc = "fail"]

RaisedAfterCounting(me) ==
    CASE me.pc = "record" -> [me EXCEPT !.pc = "catch", !.failed = @ + 1,
                                        !.dispatched = @ + 1]
      [] me.pc \in {"claim", "fail"} -> Over(me, "error")
      [] OTHER -> [me EXCEPT !.pc = "fail"]

(* Where an exception out of a D1 call lands.  Recording an outcome shares *)
(* its try block with the request; claiming the minute is outside of any;  *)
(* recording the failure of the run is best effort.                        *)
Raised(me) ==
    CASE me.pc = "record" -> [me EXCEPT !.pc = "catch", !.failed = @ + 1]
      [] me.pc \in {"claim", "fail"} -> Over(me, "error")
      [] OTHER -> [me EXCEPT !.pc = "fail"]

(* A D1 call fails; it may have been applied all the same.                 *)
StoreFails(i) ==
    /\ InStoreCall(i)
    /\ Fault
    /\ StoreWrite(i) \/ UNCHANGED d1
    /\ Becomes(i, Raised(inv[i]))
    /\ UNCHANGED <<now, crons, jobs, target, syncs>>

(* The platform stops the invocation.                                      *)
Stopped(i) ==
    /\ inv[i].pc \notin {"idle", "done"}
    /\ Fault
    /\ Becomes(i, Over(inv[i], "error"))
    /\ UNCHANGED <<now, crons, jobs, d1, target, syncs>>

-----------------------------------------------------------------------------
Handler(i) ==
    \/ ClaimMinute(i) \/ ListEnabledJobs(i) \/ EvaluateJob(i)
    \/ ClaimDispatch(i) \/ RecordDryRun(i)
    \/ \E ok \in BOOLEAN : TargetAnswers(i, ok)
    \/ RecordOutcome(i) \/ RecordFailure(i) \/ FinishRun(i) \/ FailRun(i)

Failures(i) ==
    \/ StoreFails(i) \/ Stopped(i)
    \/ \E made, ok \in BOOLEAN : DispatchThrows(i, made, ok)

Triggers(i) == WatchdogPosts(i) \/ \E m \in Minutes : CronFires(i, m)

Next ==
    \/ Tick
    \/ \E j \in Jobs, row \in Configs : SyncJob(j, row)
    \/ \E i \in Invocations : Triggers(i) \/ Handler(i) \/ Failures(i)

Spec == Init /\ [][Next]_vars

(* A started invocation runs to its end; no trigger is owed.               *)
Fairness == \A i \in Invocations : WF_vars(Handler(i))

FairSpec == Spec /\ Fairness

-----------------------------------------------------------------------------
(***************************************************************************)
(* Properties.                                                             *)
(***************************************************************************)
Steps == {"idle", "claim", "list", "jobs", "dry", "send", "record", "catch",
          "fail", "done"}

Memory ==
    [pc : Steps, slot : Minutes, source : Sources \cup {"none"},
     rows : [Jobs -> Rows], todo : SUBSET Jobs, slots : SUBSET Minutes,
     job : Jobs \cup {NoJob}, at : Minutes,
     result : DispatchStatuses, claimed : Nat, dispatched : Nat, failed : Nat,
     reply : Sources \cup {"none", "triggered", "error"}]

MinuteRuns ==
    [status : RunStatuses, source : Sources \cup {"none"},
     claimed : Nat, dispatched : Nat, failed : Nat]

(* Every table and every invocation's memory holds what the code can put.  *)
TypeOK ==
    /\ now \in Minutes /\ crons \subseteq Minutes
    /\ jobs \in [Jobs -> Rows]
    /\ runs \in [Minutes -> MinuteRuns]
    /\ dispatches \in [Jobs -> [Minutes -> DispatchStatuses]]
    /\ inv \in [Invocations -> Memory]
    /\ requests \in [Jobs -> [Minutes -> Nat]]
    /\ accepted \subseteq Jobs \X Minutes
    /\ syncs \in Nat /\ faults \in Nat

(* Whatever fails, and whichever triggers meet, a target is asked at most  *)
(* once for a job and minute: nothing is retried or replayed.              *)
RequestedAtMostOnce ==
    \A j \in Jobs, m \in Minutes : requests[j][m] <= 1

(* A minute belongs to the trigger that claimed it first and is never      *)
(* evaluated again, not even after its run failed.                         *)
MinuteBelongsToFirst ==
    [][\A m \in Minutes : runs[m].status # "none" =>
         /\ runs'[m].source = runs[m].source
         /\ runs'[m].status = "started" => runs[m].status = "started"]_vars

(* The dispatch table never claims more than happened: "dispatched" means  *)
(* one request, answered with success; "dry_run" and a missing row mean    *)
(* none.                                                                   *)
RecordedTruthfully ==
    \A j \in Jobs, m \in Minutes :
        /\ dispatches[j][m] = "dispatched" =>
             requests[j][m] = 1 /\ <<j, m>> \in accepted
        /\ dispatches[j][m] \in {"none", "dry_run"} => requests[j][m] = 0

(* No request is made for a minute nobody has claimed: the dispatch lead   *)
(* never reaches past the minute that is being run.                        *)
RequestsClaimedMinutes ==
    \A j \in Jobs, m \in Minutes :
        requests[j][m] > 0 => runs[m].status # "none"

InStatus(m, status) == {j \in Jobs : dispatches[j][m] = status}

(* A finished run accounts for its dispatches: none is left in "claimed",  *)
(* and its counters are those of the rows.                                 *)
FinishedRunAccounts ==
    \A m \in Minutes : runs[m].status = "finished" =>
        /\ InStatus(m, "claimed") = {}
        /\ runs[m].claimed = Cardinality(Jobs \ InStatus(m, "none"))
        /\ runs[m].dispatched = Cardinality(InStatus(m, "dispatched"))
        /\ runs[m].failed >= Cardinality(InStatus(m, "failed"))

(* Mutated form: any claim found is taken for the cron's.                  *)
ObservationOfAnyClaim(reply) ==
    CASE reply = "triggered" -> "watchdog_takeover"
      [] reply \in Sources   -> "cloudflare_cron"
      [] OTHER               -> "none"

(* cron_health_observation: what the watchdog concludes from the answer    *)
(* to its POST.                                                            *)
CronHealthObservation(reply) ==
    CASE reply = "triggered"       -> "watchdog_takeover"
      [] reply = "cloudflare_cron" -> "cloudflare_cron"
      [] OTHER                     -> "none"

(* The watchdog's evidence on who ran a minute is what D1 says, so two     *)
(* answers about one minute never contradict each other.                   *)
EvidenceMatchesClaims ==
    \A i \in Invocations :
        inv[i].pc = "done" /\ inv[i].source = "external_watchdog" =>
            CASE CronHealthObservation(inv[i].reply) = "watchdog_takeover" ->
                   runs[inv[i].slot].source = "external_watchdog"
              [] CronHealthObservation(inv[i].reply) = "cloudflare_cron" ->
                   runs[inv[i].slot].source = "cloudflare_cron"
              [] OTHER -> TRUE

(* Once a minute is claimed and its jobs are read, and nothing fails any   *)
(* more, every valid due job is settled, invalid rows beside it or not.    *)
DueJobsSettle ==
    \A i \in Invocations, j \in Jobs :
        /\ inv[i].pc = "jobs" /\ faults = MaxFaults
        /\ j \in inv[i].todo /\ inv[i].rows[j].valid
        /\ inv[i].slot \in inv[i].rows[j].due
      ~> dispatches[j][inv[i].slot] \in {"dry_run", "dispatched", "failed"}

(* A claimed minute whose invocation meets no more failures is finished.   *)
RunsFinish ==
    \A i \in Invocations :
        inv[i].pc = "list" /\ faults = MaxFaults
          ~> runs[inv[i].slot].status = "finished"
=============================================================================
