------------------------ MODULE CronSchedulerProofs ------------------------
(***************************************************************************)
(* Theorems about the scheduler Worker: about CronScheduler, for every set *)
(* of jobs, rows, invocations and every bound, and, last, about the        *)
(* expressions of CronExpression.                                          *)
(***************************************************************************)
EXTENDS CronSchedulerInv, CronExpression, FiniteSetTheorems, TLAPS

-----------------------------------------------------------------------------
(***************************************************************************)
(* The operators of the handler.                                           *)
(***************************************************************************)

(* The half-minute lead and the one-minute window select the minute of the *)
(* run and no other.                                                       *)
LEMMA DueSlotsExact ==
    ASSUME NEW row \in Rows, NEW slot \in Minutes
    PROVE  DueSlots(row, slot) = row.due \cap {slot}
<1>1. slot \in Nat /\ row.due \subseteq Nat
  BY MaxMinuteAssumption DEF Minutes, Rows
<1>2. (60 * slot - 60 + 30) \div 60 + 1 = slot
  BY <1>1
<1>3. (60 * slot + 30) \div 60 = slot
  BY <1>1
<1>4. \A m \in row.due : slot <= m /\ m <= slot <=> m = slot
  BY <1>1
<1> QED
  BY <1>2, <1>3, <1>4
  DEF DueSlots, CronDueTimes, MinuteSeconds, DispatchLead

(* The only slot of a singleton is its earliest.                           *)
LEMMA EarliestOfOne == \A m \in Minutes : Earliest({m}) = m
  BY MaxMinuteAssumption DEF Earliest, Minutes

(* The memory of an invocation after every assignment of the handler.      *)
LEMMA MemoryUpdates ==
    ASSUME NEW me \in Memory
    PROVE  /\ \A s \in Sources \cup {"none", "error", "triggered"} :
                Over(me, s) \in Memory
           /\ GoesOn(me) \in Memory
           /\ Raised(me) \in Memory
           /\ \A j \in Jobs : Evaluated(me, j) \in Memory
<1>1. 0 \in Minutes
  BY MaxMinuteAssumption DEF Minutes
<1>2. [j \in Jobs |-> NoRow] \in [Jobs -> Rows]
  BY DEF NoRow, Rows
<1>3. Idle \in Memory
  BY <1>1, <1>2 DEF Idle, Memory, Steps, DispatchStatuses
<1>4. \A s \in Sources \cup {"none", "error", "triggered"} : Over(me, s) \in Memory
  BY <1>3 DEF Over, Memory, Steps
<1>5. GoesOn(me) \in Memory
  BY <1>1 DEF GoesOn, Memory, Steps, DispatchStatuses
<1>6. Raised(me) \in Memory
  <2>1. CASE me.pc = "record"
    <3>1. Raised(me) = [me EXCEPT !.pc = "catch", !.failed = @ + 1]
      BY <2>1 DEF Raised
    <3>2. me.failed + 1 \in Nat /\ "catch" \in Steps
      BY DEF Memory, Steps
    <3> QED
      BY <3>1, <3>2 DEF Memory
  <2>2. CASE me.pc \in {"claim", "fail"}
    <3>1. Raised(me) = Over(me, "error")
      BY <2>2 DEF Raised
    <3> QED
      BY <3>1, <1>4
  <2>3. CASE me.pc \notin {"record", "claim", "fail"}
    <3>1. Raised(me) = [me EXCEPT !.pc = "fail"]
      BY <2>3 DEF Raised
    <3> QED
      BY <3>1 DEF Memory, Steps
  <2> QED
    BY <2>1, <2>2, <2>3
<1>7. ASSUME NEW j \in Jobs PROVE Evaluated(me, j) \in Memory
  <2>1. me.rows[j] \in Rows /\ me.slot \in Minutes
    BY DEF Memory
  <2>2. DueSlots(me.rows[j], me.slot) \in SUBSET Minutes
    BY <2>1, DueSlotsExact
  <2> QED
    BY <2>2 DEF Evaluated, Memory
<1> QED
  BY <1>4, <1>5, <1>6, <1>7

-----------------------------------------------------------------------------
(***************************************************************************)
(* Effects of the D1 calls.                                                *)
(***************************************************************************)

(* Whatever an invocation writes, the tables keep their type.              *)
LEMMA StoreWriteType ==
    ASSUME TypeOK, NEW i \in Invocations, StoreWrite(i)
    PROVE  /\ runs' \in [Minutes -> MinuteRuns]
           /\ dispatches' \in [Jobs -> [Minutes -> DispatchStatuses]]
<1>1. inv[i] \in Memory
  BY DEF TypeOK
<1>2. /\ inv[i].claimed \in Nat /\ inv[i].dispatched \in Nat
      /\ inv[i].failed \in Nat /\ inv[i].result \in DispatchStatuses
      /\ inv[i].source \in Sources \cup {"none"}
  BY <1>1 DEF Memory
<1>3. \A m \in Minutes : runs[m] \in MinuteRuns
  BY DEF TypeOK
<1>4. ASSUME WriteMinute(i)
      PROVE  /\ runs' \in [Minutes -> MinuteRuns]
             /\ dispatches' = dispatches
  <2>1. [NoMinuteRun EXCEPT !.status = "started", !.source = inv[i].source]
          \in MinuteRuns
    BY <1>2 DEF NoMinuteRun, MinuteRuns, RunStatuses
  <2> QED
    BY <1>4, <2>1 DEF WriteMinute, TypeOK
<1>5. ASSUME WriteClaim(i)
      PROVE  /\ runs' = runs
             /\ dispatches' \in [Jobs -> [Minutes -> DispatchStatuses]]
  BY <1>5 DEF WriteClaim, TypeOK, DispatchStatuses
<1>6. ASSUME NEW s \in DispatchStatuses, WriteOutcome(i, s)
      PROVE  /\ runs' = runs
             /\ dispatches' \in [Jobs -> [Minutes -> DispatchStatuses]]
  BY <1>6 DEF WriteOutcome, TypeOK
<1>7. ASSUME NEW s \in {"finished", "failed"}, WriteEnd(i, s)
      PROVE  /\ runs' \in [Minutes -> MinuteRuns]
             /\ dispatches' = dispatches
  <2>1. \A n \in Nat : Counted(s, n) \in Nat
    BY DEF Counted
  <2>2. inv[i].slot \in Minutes
    BY <1>1 DEF Memory
  <2>3. [status |-> s, source |-> runs[inv[i].slot].source,
         claimed    |-> Counted(s, inv[i].claimed),
         dispatched |-> Counted(s, inv[i].dispatched),
         failed     |-> Counted(s, inv[i].failed)] \in MinuteRuns
    BY <1>2, <1>3, <2>1, <2>2 DEF MinuteRuns, RunStatuses
  <2> QED
    BY <1>7, <2>2, <2>3 DEF WriteEnd, TypeOK
<1> QED
  BY <1>2, <1>4, <1>5, <1>6, <1>7
  DEF StoreWrite, TypeOK, DispatchStatuses, d1

(* The slot an invocation goes on with is the minute of its run.           *)
LEMMA DueIsSlot ==
    ASSUME TypeOK, SlotsWithinRun, NEW i \in Invocations,
           inv[i].pc = "jobs", inv[i].slots # {}
    PROVE  Due(i) = inv[i].slot /\ inv[i].slots = {inv[i].slot}
<1>1. inv[i].slot \in Minutes
  BY DEF TypeOK, Memory
<1>2. inv[i].slots = {inv[i].slot}
  BY DEF SlotsWithinRun, SlotsWithin, Owns
<1> QED
  BY <1>1, <1>2, EarliestOfOne DEF Due

-----------------------------------------------------------------------------
(***************************************************************************)
(* Type correctness.                                                       *)
(***************************************************************************)

(* The initial state has the declared type.                                *)
LEMMA TypeInit == Init => TypeOK
<1> SUFFICES ASSUME Init PROVE TypeOK
  OBVIOUS
<1>1. 0 \in Minutes
  BY MaxMinuteAssumption DEF Minutes
<1>2. Idle \in Memory
  <2>1. [j \in Jobs |-> NoRow] \in [Jobs -> Rows]
    BY DEF NoRow, Rows
  <2> QED
    BY <1>1, <2>1 DEF Idle, Memory, Steps, DispatchStatuses
<1>3. runs \in [Minutes -> MinuteRuns]
  BY DEF Init, NoMinuteRun, MinuteRuns, RunStatuses
<1>4. dispatches \in [Jobs -> [Minutes -> DispatchStatuses]]
  BY DEF Init, DispatchStatuses
<1>5. requests \in [Jobs -> [Minutes -> Nat]]
  BY DEF Init
<1> QED
  BY <1>1, <1>2, <1>3, <1>4, <1>5, ConfigsAssumption DEF Init, TypeOK

(* Every step keeps the declared type.                                     *)
LEMMA TypeStep ==
    TypeOK /\ SlotsWithinRun /\ HeldDispatch /\ [Next]_vars => TypeOK'
<1> SUFFICES ASSUME TypeOK, SlotsWithinRun, HeldDispatch, [Next]_vars
             PROVE  TypeOK'
  OBVIOUS
<1>1. ASSUME UNCHANGED vars PROVE TypeOK'
  BY <1>1 DEF vars, d1, target, TypeOK
<1>2. ASSUME Tick PROVE TypeOK'
  BY <1>2, MaxMinuteAssumption
  DEF Tick, TypeOK, d1, target, Minutes
<1>3. ASSUME NEW j \in Jobs, NEW row \in Configs, SyncJob(j, row)
      PROVE  TypeOK'
  BY <1>3, ConfigsAssumption DEF SyncJob, TypeOK, d1, target
<1>4. ASSUME NEW i \in Invocations, Triggers(i) \/ Handler(i) \/ Failures(i)
      PROVE  TypeOK'
  <2> DEFINE me == inv[i]
  <2>0. /\ me \in Memory
        /\ \A new \in Memory : [inv EXCEPT ![i] = new]
                                \in [Invocations -> Memory]
    BY DEF TypeOK
  <2>1. ASSUME WatchdogPosts(i) PROVE TypeOK'
    <3>1. [me EXCEPT !.pc = "claim", !.slot = now,
                     !.source = "external_watchdog"] \in Memory
      BY <2>0 DEF TypeOK, Memory, Steps, Sources
    <3> QED
      BY <2>1, <3>1 DEF WatchdogPosts, Start, TypeOK, d1, target
  <2>2. ASSUME NEW m \in Minutes, CronFires(i, m) PROVE TypeOK'
    <3>1. [me EXCEPT !.pc = "claim", !.slot = m,
                     !.source = "cloudflare_cron"] \in Memory
      BY <2>0 DEF TypeOK, Memory, Steps, Sources
    <3> QED
      BY <2>2, <3>1 DEF CronFires, Start, TypeOK, d1, target
  <2>3. ASSUME NEW new \in Memory, Becomes(i, new),
               UNCHANGED d1 \/ StoreWrite(i),
               UNCHANGED <<now, crons, jobs, target, syncs>>,
               UNCHANGED faults \/ Fault
        PROVE  TypeOK'
    BY <2>0, <2>3, StoreWriteType DEF Becomes, TypeOK, d1, target, Fault
  <2>4. ASSUME ClaimMinute(i) PROVE TypeOK'
    <3>1. [me EXCEPT !.pc = "list"] \in Memory
      BY <2>0 DEF Memory, Steps
    <3>2. ~MinuteFree(me.slot) => Over(me, runs[me.slot].source) \in Memory
      <4>1. runs[me.slot].source \in Sources \cup {"none"}
        BY <2>0 DEF TypeOK, Memory, MinuteRuns
      <4> HIDE DEF me
      <4> QED
        BY <2>0, <4>1, MemoryUpdates
    <3> QED
      BY <2>3, <2>4, <3>1, <3>2 DEF ClaimMinute
  <2>5. ASSUME ListEnabledJobs(i) PROVE TypeOK'
    <3>1. [me EXCEPT !.pc = "jobs", !.rows = jobs,
                     !.todo = {j \in Jobs : jobs[j].enabled}] \in Memory
      BY <2>0 DEF TypeOK, Memory, Steps
    <3> QED
      BY <2>5, <3>1 DEF ListEnabledJobs, TypeOK, d1, target
  <2>6. ASSUME EvaluateJob(i) PROVE TypeOK'
    <3>1. PICK j \in Jobs :
            Becomes(i, IF me.rows[j].valid
                       THEN Evaluated(me, j)
                       ELSE [me EXCEPT !.todo = @ \ {j}, !.failed = @ + 1])
      BY <2>6 DEF EvaluateJob
    <3>2. [me EXCEPT !.todo = @ \ {j}, !.failed = @ + 1] \in Memory
      <4>1. me.failed + 1 \in Nat /\ me.todo \ {j} \in SUBSET Jobs
        BY <2>0 DEF Memory
      <4> HIDE DEF me
      <4> QED
        BY <2>0, <4>1 DEF Memory
    <3>3. Evaluated(me, j) \in Memory
      BY <2>0, MemoryUpdates
    <3> QED
      BY <2>3, <2>6, <3>1, <3>2, <3>3 DEF EvaluateJob
  <2>7. ASSUME ClaimDispatch(i) PROVE TypeOK'
    <3> DEFINE at == [me EXCEPT !.slots = @ \ {Due(i)}, !.at = Due(i)]
    <3>1. Due(i) \in Minutes
      BY <2>0, <2>7, DueIsSlot DEF ClaimDispatch, Memory
    <3>2. at \in Memory
      BY <2>0, <3>1 DEF Memory
    <3>3. GoesOn(at) \in Memory
      BY <3>2, MemoryUpdates
    <3>4. \A pc \in Steps :
            [at EXCEPT !.pc = pc, !.claimed = @ + 1] \in Memory
      <4> HIDE DEF at
      <4>1. at.claimed + 1 \in Nat
        BY <3>2 DEF Memory
      <4> QED
        BY <3>2, <4>1 DEF Memory
    <3>5. PICK new \in Memory : Becomes(i, new)
      BY <2>7, <3>3, <3>4 DEF ClaimDispatch, Steps
    <3> QED
      BY <2>3, <2>7, <3>5 DEF ClaimDispatch
  <2>8. ASSUME RecordDryRun(i) \/ RecordFailure(i) PROVE TypeOK'
    BY <2>0, <2>3, <2>8, MemoryUpdates DEF RecordDryRun, RecordFailure
  <2>9. ASSUME FinishRun(i) \/ FailRun(i) PROVE TypeOK'
    BY <2>0, <2>3, <2>9, MemoryUpdates DEF FinishRun, FailRun
  <2>10. ASSUME RecordOutcome(i) PROVE TypeOK'
    <3>1. /\ [me EXCEPT !.dispatched = @ + 1] \in Memory
          /\ [me EXCEPT !.failed = @ + 1] \in Memory
      BY <2>0 DEF Memory
    <3>2. /\ GoesOn([me EXCEPT !.dispatched = @ + 1]) \in Memory
          /\ GoesOn([me EXCEPT !.failed = @ + 1]) \in Memory
      BY <3>1, MemoryUpdates
    <3> QED
      BY <2>3, <2>10, <3>2 DEF RecordOutcome
  <2>11. ASSUME StoreFails(i) PROVE TypeOK'
    BY <2>0, <2>3, <2>11, MemoryUpdates DEF StoreFails
  <2>12. ASSUME Stopped(i) PROVE TypeOK'
    BY <2>0, <2>3, <2>12, MemoryUpdates DEF Stopped
  <2>13. ASSUME NEW ok \in BOOLEAN, NEW made \in BOOLEAN,
                TargetAnswers(i, ok) \/ DispatchThrows(i, made, ok)
         PROVE  TypeOK'
    <3>1. me.pc = "send" /\ me.job \in Jobs /\ me.at \in Minutes
      BY <2>0, <2>13 DEF TargetAnswers, DispatchThrows, HeldDispatch, HeldBy, Holds, Memory
    <3>2. requests' \in [Jobs -> [Minutes -> Nat]]
      <4>1. /\ requests \in [Jobs -> [Minutes -> Nat]]
            /\ requests[me.job][me.at] + 1 \in Nat
        BY <3>1 DEF TypeOK
      <4>2. Request(i) => requests' \in [Jobs -> [Minutes -> Nat]]
        BY <3>1, <4>1 DEF Request
      <4> QED
        BY <2>13, <4>1, <4>2 DEF TargetAnswers, DispatchThrows
    <3>3. accepted' \subseteq Jobs \X Minutes
      BY <2>13, <3>1 DEF TargetAnswers, DispatchThrows, Accept, TypeOK
    <3>4. /\ [me EXCEPT !.pc = "record", !.result = Answered(ok)] \in Memory
          /\ [me EXCEPT !.pc = "catch", !.failed = @ + 1] \in Memory
      <4>1. /\ me.failed + 1 \in Nat /\ "catch" \in Steps /\ "record" \in Steps
            /\ Answered(ok) \in DispatchStatuses
        BY <2>0 DEF Memory, Steps, Answered, DispatchStatuses
      <4> HIDE DEF me
      <4> QED
        BY <2>0, <4>1 DEF Memory
    <3>5. inv' \in [Invocations -> Memory]
      BY <2>0, <2>13, <3>4 DEF TargetAnswers, DispatchThrows
    <3> QED
      BY <2>13, <3>2, <3>3, <3>5
      DEF TargetAnswers, DispatchThrows, TypeOK, d1, Fault
  <2> QED
    BY <1>4, <2>1, <2>2, <2>4, <2>5, <2>6, <2>7, <2>8, <2>9, <2>10, <2>11,
       <2>12, <2>13 DEF Triggers, Handler, Failures
<1> QED
  BY <1>1, <1>2, <1>3, <1>4 DEF Next

-----------------------------------------------------------------------------
(***************************************************************************)
(* What a step of one invocation does to everything else.                  *)
(***************************************************************************)

(* A minute somebody claimed keeps its source and does not start anew.     *)
RunKept(m) ==
    runs[m].status # "none" =>
        /\ runs'[m].status # "none"
        /\ runs'[m].source = runs[m].source
        /\ runs'[m].status = "started" => runs[m].status = "started"

(* A dispatch row is left alone, claimed while it is missing, or settled   *)
(* by its holder according to the step the holder is at.                   *)
RowKept(i, j, m) ==
    \/ dispatches'[j][m] = dispatches[j][m]
    \/ /\ inv[i].pc = "jobs" /\ inv[i].slots # {}
       /\ j = inv[i].job /\ m = Due(i)
       /\ dispatches[j][m] = "none" /\ dispatches'[j][m] = "claimed"
    \/ /\ j = inv[i].job /\ m = inv[i].at
       /\ \/ inv[i].pc = "dry" /\ dispatches'[j][m] = "dry_run"
          \/ inv[i].pc = "record" /\ dispatches'[j][m] = inv[i].result
          \/ inv[i].pc = "catch" /\ dispatches'[j][m] = "failed"

(* Requests are those made before, and perhaps the one at hand.            *)
RequestsKept(i) ==
    /\ accepted \subseteq accepted'
    /\ \/ requests' = requests
       \/ inv[i].pc = "send" /\ Request(i) /\ UNCHANGED d1

Effects(i) ==
    /\ \A m \in Minutes : RunKept(m)
    /\ \A j \in Jobs, m \in Minutes : RowKept(i, j, m)
    /\ RequestsKept(i)
    /\ \A k \in Invocations \ {i} : inv'[k] = inv[k]

(* A D1 call keeps claimed minutes and touches one dispatch row at most.   *)
LEMMA StoreWriteEffects ==
    ASSUME TypeOK, NEW i \in Invocations, StoreWrite(i)
    PROVE  /\ \A m \in Minutes : RunKept(m)
           /\ \A j \in Jobs, m \in Minutes : RowKept(i, j, m)
<1>1. /\ inv[i].slot \in Minutes /\ inv[i].at \in Minutes
      /\ runs \in [Minutes -> MinuteRuns]
      /\ dispatches \in [Jobs -> [Minutes -> DispatchStatuses]]
  BY DEF TypeOK, Memory
<1>2. ASSUME WriteMinute(i), NEW m \in Minutes PROVE RunKept(m)
  BY <1>1, <1>2 DEF WriteMinute, MinuteFree, RunKept
<1>3. ASSUME NEW s \in {"finished", "failed"}, WriteEnd(i, s),
             NEW m \in Minutes
      PROVE  RunKept(m)
  BY <1>1, <1>3 DEF WriteEnd, RunKept
<1>4. ASSUME runs' = runs, NEW m \in Minutes PROVE RunKept(m)
  BY <1>4 DEF RunKept
<1>5. \A m \in Minutes : RunKept(m)
  BY <1>2, <1>3, <1>4 DEF StoreWrite, WriteClaim, WriteOutcome, d1
<1>6. ASSUME NEW j \in Jobs, NEW m \in Minutes PROVE RowKept(i, j, m)
  <2>1. ASSUME inv[i].pc = "jobs", inv[i].slots # {}, WriteClaim(i)
        PROVE  RowKept(i, j, m)
    BY <1>1, <2>1 DEF WriteClaim, DispatchFree, RowKept
  <2>2. ASSUME NEW s \in DispatchStatuses, WriteOutcome(i, s)
        PROVE  /\ inv[i].pc = "dry" /\ s = "dry_run" => RowKept(i, j, m)
               /\ inv[i].pc = "record" /\ s = inv[i].result
                    => RowKept(i, j, m)
               /\ inv[i].pc = "catch" /\ s = "failed" => RowKept(i, j, m)
    BY <1>1, <2>2 DEF WriteOutcome, RowKept
  <2>3. ASSUME dispatches' = dispatches PROVE RowKept(i, j, m)
    BY <2>3 DEF RowKept
  <2>4. inv[i].result \in DispatchStatuses
    BY DEF TypeOK, Memory
  <2>5. /\ WriteMinute(i) => dispatches' = dispatches
        /\ \A s \in {"finished", "failed"} :
             WriteEnd(i, s) => dispatches' = dispatches
    BY DEF WriteMinute, WriteEnd
  <2>6. "dry_run" \in DispatchStatuses /\ "failed" \in DispatchStatuses
    BY DEF DispatchStatuses
  <2>7. \/ dispatches' = dispatches
        \/ inv[i].pc = "jobs" /\ inv[i].slots # {} /\ WriteClaim(i)
        \/ inv[i].pc = "dry" /\ WriteOutcome(i, "dry_run")
        \/ inv[i].pc = "record" /\ WriteOutcome(i, inv[i].result)
        \/ inv[i].pc = "catch" /\ WriteOutcome(i, "failed")
    BY <2>5 DEF StoreWrite, d1
  <2> QED
    BY <2>1, <2>2, <2>3, <2>4, <2>6, <2>7
<1> QED
  BY <1>5, <1>6

(* Every step of an invocation has these effects.                          *)
LEMMA StepEffects ==
    ASSUME TypeOK, NEW i \in Invocations,
           Triggers(i) \/ Handler(i) \/ Failures(i)
    PROVE  Effects(i)
<1>1. ASSUME UNCHANGED d1
      PROVE  /\ \A m \in Minutes : RunKept(m)
             /\ \A j \in Jobs, m \in Minutes : RowKept(i, j, m)
  BY <1>1 DEF d1, RunKept, RowKept
<1>2. UNCHANGED d1 \/ StoreWrite(i)
  BY DEF Triggers, Handler, Failures, WatchdogPosts, CronFires, ClaimMinute,
     ListEnabledJobs, EvaluateJob, ClaimDispatch, RecordDryRun, TargetAnswers,
     RecordOutcome, RecordFailure, FinishRun, FailRun, StoreFails, Stopped,
     DispatchThrows
<1>3. RequestsKept(i)
  BY DEF Triggers, Handler, Failures, WatchdogPosts, CronFires, ClaimMinute,
     ListEnabledJobs, EvaluateJob, ClaimDispatch, RecordDryRun, TargetAnswers,
     RecordOutcome, RecordFailure, FinishRun, FailRun, StoreFails, Stopped,
     DispatchThrows, RequestsKept, Accept, target
<1>4. \A k \in Invocations \ {i} : inv'[k] = inv[k]
  BY DEF TypeOK, Triggers, Handler, Failures, WatchdogPosts, CronFires, Start,
     ClaimMinute, ListEnabledJobs, EvaluateJob, ClaimDispatch, RecordDryRun,
     TargetAnswers, RecordOutcome, RecordFailure, FinishRun, FailRun,
     StoreFails, Stopped, DispatchThrows, Becomes
<1> QED
  BY <1>1, <1>2, <1>3, <1>4, StoreWriteEffects DEF Effects

-----------------------------------------------------------------------------
(***************************************************************************)
(* The evidence invariant.                                                 *)
(***************************************************************************)

(* It holds before anything has run.                                       *)
LEMMA EvidenceInit == Init => IInv
<1> SUFFICES ASSUME Init PROVE IInv
  OBVIOUS
<1>1. \A i \in Invocations : inv[i] = Idle
  BY DEF Init
<1>2. \A i \in Invocations : inv[i].pc = "idle"
  BY <1>1 DEF Idle
<1>4. \A i \in Invocations : inv[i].slots = {}
  BY <1>1 DEF Idle
<1>3. /\ \A j \in Jobs, m \in Minutes : requests[j][m] = 0
      /\ \A j \in Jobs, m \in Minutes : dispatches[j][m] = "none"
  BY DEF Init
<1> QED
  BY <1>2, <1>3, <1>4, TypeInit
  DEF IInv, OwnersRecorded, Recorded, Owns, Ran, SlotsWithinRun, SlotsWithin,
      HeldDispatch, HeldBy, Holds, HeldOnce, RequestedAtMostOnce, RecordedTruthfully,
      RequestsClaimedMinutes

(* A step of one invocation takes nothing from another.                    *)
LEMMA OthersUndisturbed ==
    ASSUME IInv, NEW i \in Invocations, Effects(i),
           NEW k \in Invocations, k # i
    PROVE  Recorded(k)' /\ HeldBy(k)'
<1>1. inv'[k] = inv[k] /\ inv[k] \in Memory
  BY DEF Effects, IInv, TypeOK
<1>2. Recorded(k)'
  <2>1. inv[k].slot \in Minutes
    BY <1>1 DEF Memory
  <2>2. RunKept(inv[k].slot)
    BY <2>1 DEF Effects
  <2>3. Recorded(k)
    BY DEF IInv, OwnersRecorded
  <2> QED
    BY <1>1, <2>2, <2>3 DEF Recorded, RunKept, Owns, Ran
<1>3. ASSUME Holds(k)
      PROVE  LET j == inv[k].job
                 m == inv[k].at
             IN  /\ dispatches'[j][m] = dispatches[j][m]
                 /\ requests'[j][m] = requests[j][m]
  <2> DEFINE j == inv[k].job
             m == inv[k].at
  <2>1. j \in Jobs /\ m \in Minutes /\ dispatches[j][m] # "none"
    BY <1>1, <1>3 DEF IInv, HeldDispatch, HeldBy, Memory
  <2>2. ~(Holds(i) /\ inv[i].job = j /\ inv[i].at = m)
    BY <1>3 DEF IInv, HeldOnce
  <2>3. RowKept(i, j, m)
    BY <2>1 DEF Effects
  <2>4. dispatches'[j][m] = dispatches[j][m]
    BY <2>1, <2>2, <2>3 DEF RowKept, Holds
  <2>5. requests'[j][m] = requests[j][m]
    BY <2>1, <2>2 DEF Effects, RequestsKept, Request, Holds, IInv, TypeOK
  <2> QED
    BY <2>4, <2>5
<1>4. HeldBy(k)'
  <2>1. HeldBy(k)
    BY DEF IInv, HeldDispatch
  <2>2. accepted \subseteq accepted'
    BY DEF Effects, RequestsKept
  <2> QED
    BY <1>1, <1>3, <2>1, <2>2 DEF HeldBy, Holds
<1> QED
  BY <1>2, <1>4

(* Whatever an invocation does, targets are asked once and the tables tell *)
(* the truth about it.                                                     *)
LEMMA TruthKept ==
    ASSUME IInv, NEW i \in Invocations, Effects(i)
    PROVE  /\ RequestedAtMostOnce'
           /\ RecordedTruthfully'
           /\ RequestsClaimedMinutes'
<1> SUFFICES ASSUME NEW j \in Jobs, NEW m \in Minutes
             PROVE  /\ requests'[j][m] <= 1
                    /\ dispatches'[j][m] = "dispatched" =>
                         requests'[j][m] = 1 /\ <<j, m>> \in accepted'
                    /\ dispatches'[j][m] \in {"none", "dry_run"} =>
                         requests'[j][m] = 0
                    /\ requests'[j][m] > 0 => runs'[m].status # "none"
  BY DEF RequestedAtMostOnce, RecordedTruthfully, RequestsClaimedMinutes
<1>1. /\ requests[j][m] \in Nat /\ requests[j][m] <= 1
      /\ dispatches[j][m] = "dispatched" =>
           requests[j][m] = 1 /\ <<j, m>> \in accepted
      /\ dispatches[j][m] \in {"none", "dry_run"} => requests[j][m] = 0
      /\ requests[j][m] > 0 => runs[m].status # "none"
  BY DEF IInv, TypeOK, RequestedAtMostOnce, RecordedTruthfully,
     RequestsClaimedMinutes
<1>2. RunKept(m) /\ RowKept(i, j, m) /\ accepted \subseteq accepted'
  BY DEF Effects, RequestsKept
<1>3. Recorded(i) /\ HeldBy(i) /\ inv[i] \in Memory
  BY DEF IInv, OwnersRecorded, HeldDispatch, TypeOK
<1>4. CASE requests'[j][m] = requests[j][m]
  <2>1. runs[m].status # "none" => runs'[m].status # "none"
    BY <1>2 DEF RunKept
  <2>2. /\ dispatches'[j][m] = "dispatched" =>
             requests[j][m] = 1 /\ <<j, m>> \in accepted
        /\ dispatches'[j][m] \in {"none", "dry_run"} => requests[j][m] = 0
    BY <1>1, <1>2, <1>3 DEF RowKept, HeldBy, Holds
  <2> QED
    BY <1>1, <1>2, <1>4, <2>1, <2>2
<1>5. CASE requests'[j][m] # requests[j][m]
  <2>1. /\ inv[i].pc = "send" /\ j = inv[i].job /\ m = inv[i].at
        /\ requests'[j][m] = requests[j][m] + 1 /\ UNCHANGED d1
    BY <1>5 DEF Effects, RequestsKept, Request, IInv, TypeOK
  <2>2. /\ dispatches[j][m] = "claimed" /\ requests[j][m] = 0
        /\ m = inv[i].slot
    BY <1>3, <2>1 DEF HeldBy, Holds
  <2>3. runs[m].status # "none"
    BY <1>3, <2>1, <2>2 DEF Recorded, Owns
  <2> QED
    BY <2>1, <2>2, <2>3 DEF d1
<1> QED
  BY <1>4, <1>5

(* The invocation holds what it held before, or a row nobody had.          *)
HoldsFresh(i) ==
    Holds(i)' =>
        \/ /\ Holds(i) /\ inv'[i].job = inv[i].job
           /\ inv'[i].at = inv[i].at
        \/ dispatches[inv'[i].job][inv'[i].at] = "none"

Own(i) == Recorded(i)' /\ SlotsWithin(i)' /\ HeldBy(i)' /\ HoldsFresh(i)

(* An invocation keeps its own part of the invariant at every await.       *)
LEMMA OwnStep ==
    ASSUME IInv, NEW i \in Invocations, Effects(i),
           Triggers(i) \/ Handler(i) \/ Failures(i)
    PROVE  Own(i)
<1> DEFINE me == inv[i]
<1>1. /\ TypeOK /\ me \in Memory /\ me.slot \in Minutes /\ me.at \in Minutes
      /\ inv \in [Invocations -> Memory]
  BY DEF IInv, TypeOK, Memory
<1>2. Recorded(i) /\ SlotsWithin(i) /\ HeldBy(i)
  BY DEF IInv, OwnersRecorded, SlotsWithinRun, HeldDispatch
<1>3. RunKept(me.slot)
  BY <1>1 DEF Effects
<1>4. ASSUME NEW new \in Memory, Becomes(i, new)
      PROVE  inv'[i] = new
  BY <1>1, <1>4 DEF Becomes
<1>5. ASSUME NEW m \in Minutes, WatchdogPosts(i) \/ CronFires(i, m)
      PROVE  Own(i)
  <2>1. inv'[i].pc = "claim" /\ inv'[i].slots = {}
    BY <1>1, <1>2, <1>5 DEF WatchdogPosts, CronFires, Start, SlotsWithin, Memory
  <2> QED
    BY <2>1 DEF Own, Recorded, Owns, Ran, SlotsWithin, HeldBy, Holds, HoldsFresh
<1>6. ASSUME inv'[i] = Over(me, "error") PROVE Own(i)
  <2>1. inv'[i].pc = "done" /\ inv'[i].reply = "error"
    BY <1>6 DEF Over, Idle
  <2> QED
    BY <2>1 DEF Own, Recorded, Owns, Ran, SlotsWithin, HeldBy, Holds,
       HoldsFresh, Sources
<1>7. ASSUME ClaimMinute(i) PROVE Own(i)
  <2>1. CASE MinuteFree(me.slot)
    <3>1. /\ inv'[i].pc = "list" /\ inv'[i].slot = me.slot
          /\ inv'[i].source = me.source /\ inv'[i].slots = {}
      BY <1>1, <1>2, <1>7, <2>1 DEF ClaimMinute, Becomes, SlotsWithin, Memory
    <3>2. /\ runs'[me.slot].status = "started"
          /\ runs'[me.slot].source = me.source
      <4>1. WriteMinute(i)
        BY <1>7 DEF ClaimMinute, StoreWrite
      <4>2. runs' = [runs EXCEPT ![me.slot] =
                       [NoMinuteRun EXCEPT !.status = "started", !.source = me.source]]
        BY <2>1, <4>1 DEF WriteMinute
      <4> QED
        BY <1>1, <4>2 DEF TypeOK, NoMinuteRun
    <3> QED
      BY <3>1, <3>2 DEF Own, Recorded, Owns, Ran, SlotsWithin, HeldBy, Holds,
         HoldsFresh
  <2>2. CASE ~MinuteFree(me.slot)
    <3>1. inv'[i] = Over(me, runs[me.slot].source)
      BY <1>1, <1>7, <2>2 DEF ClaimMinute, Becomes
    <3>2. /\ inv'[i].pc = "done" /\ inv'[i].slot = me.slot
          /\ inv'[i].reply = runs[me.slot].source
      BY <3>1 DEF Over, Idle
    <3>3. /\ runs'[me.slot].status # "none"
          /\ runs'[me.slot].source = runs[me.slot].source
      BY <1>3, <2>2 DEF MinuteFree, RunKept
    <3>4. runs[me.slot].source # "triggered"
      BY <1>1 DEF TypeOK, MinuteRuns, Sources
    <3> QED
      BY <3>2, <3>3, <3>4 DEF Own, Recorded, Owns, Ran, SlotsWithin, HeldBy,
         Holds, HoldsFresh
  <2> QED
    BY <2>1, <2>2
<1>8. ASSUME Owns(i), inv'[i].slot = me.slot, inv'[i].source = me.source,
             Owns(i)' \/ Ran(i)'
      PROVE  Recorded(i)'
  BY <1>2, <1>3, <1>8 DEF Recorded, RunKept, Owns, Ran, Sources
<1>9. ASSUME ListEnabledJobs(i) PROVE Own(i)
  <2>1. /\ me.pc = "list" /\ me.slots = {}
        /\ inv'[i].pc = "jobs" /\ inv'[i].slot = me.slot
        /\ inv'[i].source = me.source /\ inv'[i].slots = {}
    BY <1>1, <1>2, <1>9 DEF ListEnabledJobs, SlotsWithin, Memory
  <2> QED
    BY <1>8, <2>1 DEF Own, Owns, SlotsWithin, HeldBy, Holds, HoldsFresh
<1>10. ASSUME EvaluateJob(i) PROVE Own(i)
  <2>1. PICK j \in Jobs :
          Becomes(i, IF me.rows[j].valid
                     THEN Evaluated(me, j)
                     ELSE [me EXCEPT !.todo = @ \ {j}, !.failed = @ + 1])
    BY <1>10 DEF EvaluateJob
  <2>2. me.pc = "jobs" /\ me.slots = {}
    BY <1>10 DEF EvaluateJob
  <2>3. /\ inv'[i].pc = "jobs" /\ inv'[i].slot = me.slot
        /\ inv'[i].source = me.source
        /\ \/ inv'[i].slots = {}
           \/ /\ inv'[i].slots = DueSlots(me.rows[j], me.slot)
              /\ inv'[i].job = j
    BY <1>1, <2>1, <2>2 DEF Becomes, Evaluated, Memory
  <2>4. DueSlots(me.rows[j], me.slot) \subseteq {me.slot}
    <3>1. me.rows[j] \in Rows
      BY <1>1 DEF Memory
    <3> QED
      BY <1>1, <3>1, DueSlotsExact
  <2> QED
    BY <1>8, <2>2, <2>3, <2>4 DEF Own, Owns, SlotsWithin, HeldBy, Holds,
       HoldsFresh
<1>11. ASSUME ClaimDispatch(i) PROVE Own(i)
  <2>1. me.pc = "jobs" /\ me.slots # {} /\ me.job \in Jobs
    BY <1>2, <1>11 DEF ClaimDispatch, HeldBy
  <2>2. Due(i) = me.slot /\ me.slots = {me.slot}
    BY <1>1, <2>1, DueIsSlot DEF IInv
  <2>3. /\ inv'[i].slot = me.slot /\ inv'[i].source = me.source
        /\ inv'[i].slots = {} /\ inv'[i].job = me.job
        /\ \/ inv'[i].pc = "jobs"
           \/ /\ inv'[i].pc \in {"dry", "send"} /\ inv'[i].at = me.slot
              /\ DispatchFree(me.job, me.slot)
    BY <1>1, <1>11, <2>2 DEF ClaimDispatch, Becomes, GoesOn, Memory
  <2>4. DispatchFree(me.job, me.slot) =>
          /\ dispatches[me.job][me.slot] = "none"
          /\ dispatches'[me.job][me.slot] = "claimed"
          /\ requests'[me.job][me.slot] = 0
    <3>1. DispatchFree(me.job, me.slot) => requests[me.job][me.slot] = 0
      BY <1>1, <2>1 DEF IInv, RecordedTruthfully, DispatchFree
    <3>2. WriteClaim(i) /\ requests' = requests
      BY <1>11, <2>1 DEF ClaimDispatch, StoreWrite, Exhausted, target
    <3> QED
      BY <1>1, <2>1, <2>2, <3>1, <3>2 DEF WriteClaim, DispatchFree, TypeOK
  <2> QED
    BY <1>8, <2>1, <2>3, <2>4 DEF Own, Owns, SlotsWithin, HeldBy, Holds,
       HoldsFresh
<1>12. ASSUME Holds(i), inv'[i].pc = "jobs", inv'[i].slot = me.slot,
              inv'[i].source = me.source, inv'[i].slots = me.slots,
              inv'[i].job = me.job
       PROVE  Own(i)
  BY <1>2, <1>8, <1>12 DEF Own, Owns, SlotsWithin, HeldBy, Holds, HoldsFresh
<1>13. ASSUME RecordDryRun(i) \/ RecordFailure(i) PROVE Own(i)
  <2>1. Holds(i) /\ inv'[i] = GoesOn(me)
    BY <1>1, <1>13 DEF RecordDryRun, RecordFailure, Becomes, Holds
  <2> QED
    BY <1>1, <1>12, <2>1 DEF GoesOn, Memory
<1>14. ASSUME RecordOutcome(i) PROVE Own(i)
  <2>1. /\ Holds(i)
        /\ \/ inv'[i] = GoesOn([me EXCEPT !.dispatched = @ + 1])
           \/ inv'[i] = GoesOn([me EXCEPT !.failed = @ + 1])
    BY <1>1, <1>14 DEF RecordOutcome, Becomes, Holds
  <2> QED
    BY <1>1, <1>12, <2>1 DEF GoesOn, Memory
<1>15. ASSUME NEW ok \in BOOLEAN, TargetAnswers(i, ok) PROVE Own(i)
  <2>1. /\ me.pc = "send" /\ me.job \in Jobs
        /\ inv'[i].pc = "record" /\ inv'[i].slot = me.slot
        /\ inv'[i].source = me.source /\ inv'[i].slots = me.slots
        /\ inv'[i].job = me.job /\ inv'[i].at = me.at
        /\ inv'[i].result = Answered(ok)
    BY <1>1, <1>2, <1>15 DEF TargetAnswers, HeldBy, Holds, Memory
  <2>2. /\ requests'[me.job][me.at] = 1
        /\ dispatches'[me.job][me.at] = "claimed"
        /\ ok => <<me.job, me.at>> \in accepted'
    BY <1>1, <1>2, <1>15, <2>1
    DEF TargetAnswers, Request, Accept, HeldBy, TypeOK, d1
  <2>3. /\ Answered(ok) \in {"dispatched", "failed"}
        /\ Answered(ok) = "dispatched" => ok
    BY DEF Answered
  <2> QED
    BY <1>2, <1>8, <2>1, <2>2, <2>3 DEF Own, Owns, SlotsWithin, HeldBy, Holds,
       HoldsFresh
<1>16. ASSUME Holds(i), dispatches'[me.job][me.at] # "none",
              inv'[i].pc = "catch", inv'[i].slot = me.slot,
              inv'[i].source = me.source, inv'[i].slots = me.slots,
              inv'[i].job = me.job, inv'[i].at = me.at
       PROVE  Own(i)
  BY <1>2, <1>8, <1>16 DEF Own, Owns, SlotsWithin, HeldBy, Holds, HoldsFresh
<1>17. ASSUME NEW ok \in BOOLEAN, NEW made \in BOOLEAN,
              DispatchThrows(i, made, ok)
       PROVE  Own(i)
  <2>1. /\ Holds(i) /\ dispatches'[me.job][me.at] # "none"
    BY <1>1, <1>2, <1>17 DEF DispatchThrows, Holds, HeldBy, d1
  <2>2. inv'[i] = [me EXCEPT !.pc = "catch", !.failed = @ + 1]
    BY <1>1, <1>17 DEF DispatchThrows
  <2> QED
    BY <1>1, <1>16, <2>1, <2>2 DEF Memory
<1>18. ASSUME FinishRun(i) \/ FailRun(i) \/ Stopped(i) PROVE Own(i)
  <2>1. CASE FinishRun(i)
    <3>1. me.pc = "jobs" /\ inv'[i] = Over(me, "triggered")
      BY <1>1, <2>1 DEF FinishRun, Becomes
    <3>2. /\ inv'[i].pc = "done" /\ inv'[i].reply = "triggered"
          /\ inv'[i].slot = me.slot /\ inv'[i].source = me.source
      BY <3>1 DEF Over, Idle
    <3> QED
      BY <1>8, <3>1, <3>2 DEF Own, Owns, Ran, SlotsWithin, HeldBy, Holds,
         HoldsFresh
  <2>2. CASE FailRun(i) \/ Stopped(i)
    <3>1. inv'[i] = Over(me, "error")
      BY <1>1, <2>2 DEF FailRun, Stopped, Becomes
    <3> QED
      BY <1>6, <3>1
  <2> QED
    BY <1>18, <2>1, <2>2
<1>19. ASSUME StoreFails(i) PROVE Own(i)
  <2>1. inv'[i] = Raised(me)
    BY <1>1, <1>19 DEF StoreFails, Becomes
  <2>2. CASE me.pc = "record"
    <3>1. inv'[i] = [me EXCEPT !.pc = "catch", !.failed = @ + 1]
      BY <2>1, <2>2 DEF Raised
    <3>2. me.job \in Jobs /\ dispatches[me.job][me.at] # "none"
      BY <1>2, <2>2 DEF HeldBy, Holds
    <3>3. dispatches'[me.job][me.at] # "none"
      BY <1>1, <1>2, <2>2, <3>2 DEF Effects, RowKept, HeldBy
    <3> QED
      BY <1>1, <1>16, <2>2, <3>1, <3>3 DEF Memory, Holds
  <2>3. CASE me.pc \in {"claim", "fail"}
    <3>1. inv'[i] = Over(me, "error")
      BY <2>1, <2>3 DEF Raised
    <3> QED
      BY <1>6, <3>1
  <2>4. CASE me.pc \in {"list", "jobs", "dry", "catch"}
    <3>1. inv'[i] = [me EXCEPT !.pc = "fail"]
      BY <2>1, <2>4 DEF Raised
    <3>2. /\ inv'[i].pc = "fail" /\ inv'[i].slot = me.slot
          /\ inv'[i].source = me.source /\ inv'[i].slots = me.slots
      BY <1>1, <3>1 DEF Memory
    <3> QED
      BY <1>2, <1>8, <2>4, <3>2 DEF Own, Owns, SlotsWithin, HeldBy, Holds,
         HoldsFresh
  <2> QED
    BY <1>19, <2>2, <2>3, <2>4 DEF StoreFails, InStoreCall
<1>20. CASE Triggers(i)
  BY <1>1, <1>5, <1>20 DEF Triggers
<1>21. CASE Handler(i)
  BY <1>7, <1>9, <1>10, <1>11, <1>13, <1>14, <1>15, <1>18, <1>21 DEF Handler
<1>22. CASE Failures(i)
  BY <1>17, <1>18, <1>19, <1>22 DEF Failures
<1> QED
  BY <1>20, <1>21, <1>22

(* The invariant survives every step.                                      *)
LEMMA EvidenceStep == IInv /\ [Next]_vars => IInv'
<1> SUFFICES ASSUME IInv, [Next]_vars PROVE IInv'
  OBVIOUS
<1>1. TypeOK'
  BY TypeStep DEF IInv
<1>2. ASSUME UNCHANGED <<d1, inv, target>> PROVE IInv'
  BY <1>1, <1>2
  DEF IInv, OwnersRecorded, Recorded, Owns, Ran, SlotsWithinRun, SlotsWithin,
      HeldDispatch, HeldBy, Holds, HeldOnce, RequestedAtMostOnce,
      RecordedTruthfully, RequestsClaimedMinutes, d1, target
<1>3. ASSUME NEW i \in Invocations, Triggers(i) \/ Handler(i) \/ Failures(i)
      PROVE  IInv'
  <2>1. Effects(i) /\ Own(i)
    BY <1>3, StepEffects, OwnStep DEF IInv
  <2>2. \A k \in Invocations \ {i} : Recorded(k)' /\ HeldBy(k)'
    BY <2>1, OthersUndisturbed
  <2>3. OwnersRecorded' /\ HeldDispatch'
    BY <2>1, <2>2 DEF OwnersRecorded, HeldDispatch, Own
  <2>4. \A k \in Invocations \ {i} : inv'[k] = inv[k]
    BY <2>1 DEF Effects
  <2>5. SlotsWithinRun'
    BY <2>1, <2>4 DEF IInv, SlotsWithinRun, SlotsWithin, Own, Owns
  <2>6. HeldOnce'
    <3> SUFFICES ASSUME NEW k \in Invocations, k # i, Holds(i)', Holds(k)',
                        inv'[i].job = inv'[k].job, inv'[i].at = inv'[k].at
                 PROVE  FALSE
      BY <2>4 DEF IInv, HeldOnce, Holds
    <3>1. Holds(k) /\ dispatches[inv[k].job][inv[k].at] # "none"
      BY <2>4 DEF Holds, IInv, HeldDispatch, HeldBy
    <3> QED
      BY <2>1, <2>4, <3>1 DEF Own, HoldsFresh, IInv, HeldOnce
  <2> QED
    BY <1>1, <2>1, <2>3, <2>5, <2>6, TruthKept DEF IInv
<1> QED
  BY <1>2, <1>3 DEF Next, Tick, SyncJob, vars

-----------------------------------------------------------------------------
(***************************************************************************)
(* Theorems.                                                               *)
(***************************************************************************)

(* The invariant holds throughout.                                         *)
THEOREM EvidenceAlways == Spec => []IInv
<1>1. Init => IInv
  BY EvidenceInit
<1>2. IInv /\ [Next]_vars => IInv'
  BY EvidenceStep
<1> QED
  BY <1>1, <1>2, PTL DEF Spec

(* Tables and memories keep their type whatever fails.                     *)
THEOREM TypeCorrect == Spec => []TypeOK
<1>1. IInv => TypeOK
  BY DEF IInv
<1> QED
  BY <1>1, EvidenceAlways, PTL

(* However many triggers meet, and whatever fails, a target is asked at    *)
(* most once for a job and minute.                                         *)
THEOREM AskedAtMostOnce == Spec => []RequestedAtMostOnce
<1>1. IInv => RequestedAtMostOnce
  BY DEF IInv
<1> QED
  BY <1>1, EvidenceAlways, PTL

(* A dispatch row never claims more than happened.                         *)
THEOREM RowsTruthful == Spec => []RecordedTruthfully
<1>1. IInv => RecordedTruthfully
  BY DEF IInv
<1> QED
  BY <1>1, EvidenceAlways, PTL

(* No target is asked for a minute nobody claimed.                         *)
THEOREM OnlyClaimedMinutes == Spec => []RequestsClaimedMinutes
<1>1. IInv => RequestsClaimedMinutes
  BY DEF IInv
<1> QED
  BY <1>1, EvidenceAlways, PTL

(* What the watchdog concludes from an answer is what D1 records.          *)
THEOREM EvidenceSound == Spec => []EvidenceMatchesClaims
<1>1. IInv => EvidenceMatchesClaims
  <2> SUFFICES ASSUME IInv, NEW i \in Invocations, inv[i].pc = "done",
                      inv[i].source = "external_watchdog"
               PROVE  /\ inv[i].reply = "triggered" =>
                           runs[inv[i].slot].source = "external_watchdog"
                      /\ inv[i].reply = "cloudflare_cron" =>
                           runs[inv[i].slot].source = "cloudflare_cron"
    BY DEF EvidenceMatchesClaims, CronHealthObservation
  <2> QED
    BY DEF IInv, OwnersRecorded, Recorded, Ran, Sources
<1> QED
  BY <1>1, EvidenceAlways, PTL

(* A minute belongs to the trigger that claimed it first and is never      *)
(* evaluated again.                                                        *)
THEOREM MinuteOwned == Spec => MinuteBelongsToFirst
<1> DEFINE A == \A m \in Minutes : runs[m].status # "none" =>
                  /\ runs'[m].source = runs[m].source
                  /\ runs'[m].status = "started" => runs[m].status = "started"
<1>1. IInv /\ [Next]_vars => [A]_vars
  <2> SUFFICES ASSUME IInv, Next PROVE A
    OBVIOUS
  <2>1. ASSUME NEW i \in Invocations,
               Triggers(i) \/ Handler(i) \/ Failures(i)
        PROVE  A
    BY <2>1, StepEffects DEF IInv, Effects, RunKept
  <2>2. ASSUME UNCHANGED d1 PROVE A
    BY <2>2 DEF d1
  <2> QED
    BY <2>1, <2>2 DEF Next, Tick, SyncJob
<1> QED
  BY <1>1, EvidenceAlways, PTL DEF Spec, MinuteBelongsToFirst

-----------------------------------------------------------------------------
(***************************************************************************)
(* A finished run accounts for its dispatches.  The proof rests on IInv    *)
(* and on Accounts, which every step that keeps IInv keeps.                *)
(*                                                                         *)
(* Counting the rows of a minute.                                          *)
(***************************************************************************)

(* There are finitely many jobs, and one more or less counts one.          *)
LEMMA JobsCounted ==
    ASSUME NEW S, S \subseteq Jobs, NEW j \in Jobs
    PROVE  /\ IsFiniteSet(S) /\ Cardinality(S) \in Nat
           /\ j \notin S => Cardinality(S \cup {j}) = Cardinality(S) + 1
           /\ Cardinality(S \cup {j}) \in Nat
           /\ Cardinality(S) <= Cardinality(S \cup {j})
           /\ Cardinality(S \cup {j}) <= Cardinality(S) + 1
<1>1. IsFiniteSet(S)
  BY JobsAssumption, FS_Subset
<1>2. Cardinality(S) \in Nat
  BY <1>1, FS_CardinalityType
<1>3. Cardinality(S \cup {j}) = IF j \in S THEN Cardinality(S) ELSE Cardinality(S) + 1
  BY <1>1, FS_AddElement
<1> QED
  BY <1>1, <1>2, <1>3

(* The tallies of the next lemmas are of one minute, of an invocation that *)
(* holds the dispatch of one job j.                                        *)
SameCounters(new, me) ==
    new.claimed = me.claimed /\ new.dispatched = me.dispatched /\ new.failed = me.failed

(* A claimed dispatch is counted.                                          *)
LEMMA TallyClaimed ==
    ASSUME NEW rows \in [Jobs -> DispatchStatuses], NEW j \in Jobs, NEW me, NEW new,
           Tally(me, rows), me.pc = "jobs", rows[j] = "none",
           new.pc \in {"dry", "send"}, new.job = j, new.claimed = me.claimed + 1,
           new.dispatched = me.dispatched, new.failed = me.failed
    PROVE  Tally(new, [rows EXCEPT ![j] = "claimed"])
<1> DEFINE next == [rows EXCEPT ![j] = "claimed"]
<1>1. /\ In(next, "claimed") = In(rows, "claimed") \cup {j}
      /\ In(next, "none") = In(rows, "none") \ {j}
      /\ In(next, "dispatched") = In(rows, "dispatched") \ {j}
      /\ In(next, "failed") = In(rows, "failed") \ {j}
  <2>1. \A t : In(next, t) = IF t = "claimed" THEN In(rows, t) \cup {j}
                                              ELSE In(rows, t) \ {j}
    BY DEF In
  <2> QED
    BY <2>1
<1>2. j \in In(rows, "none") /\ j \notin In(rows, "dispatched") /\ j \notin In(rows, "failed")
  BY DEF In
<1> HIDE DEF next
<1>3. In(next, "dispatched") = In(rows, "dispatched") /\ In(next, "failed") = In(rows, "failed")
  BY <1>1, <1>2
<1>4. Jobs \ In(next, "none") = (Jobs \ In(rows, "none")) \cup {j}
  BY <1>1
<1>5. Cardinality(Jobs \ In(next, "none")) = Cardinality(Jobs \ In(rows, "none")) + 1
  BY <1>2, <1>4, JobsCounted
<1>6. Tally(new, next)
  BY <1>1, <1>3, <1>5 DEF Tally, AtHand, Spoiled
<1> QED
  BY <1>6 DEF next

(* A dry run and a recorded outcome settle the dispatch at hand.           *)
LEMMA TallySettled ==
    ASSUME NEW rows \in [Jobs -> DispatchStatuses], NEW j \in Jobs, NEW me, NEW new,
           NEW s \in {"dry_run", "dispatched", "failed"},
           Tally(me, rows), me.pc \in {"dry", "record"}, me.job = j,
           rows[j] = "claimed", new.pc = "jobs", new.claimed = me.claimed,
           new.dispatched = IF s = "dispatched" THEN me.dispatched + 1 ELSE me.dispatched,
           new.failed = IF s = "failed" THEN me.failed + 1 ELSE me.failed,
           me.failed \in Nat
    PROVE  Tally(new, [rows EXCEPT ![j] = s])
<1> DEFINE next == [rows EXCEPT ![j] = s]
<1>1. /\ In(next, "claimed") = In(rows, "claimed") \ {j}
      /\ In(next, "none") = In(rows, "none") \ {j}
      /\ In(next, "dispatched") = IF s = "dispatched" THEN In(rows, "dispatched") \cup {j}
                                  ELSE In(rows, "dispatched") \ {j}
      /\ In(next, "failed") = IF s = "failed" THEN In(rows, "failed") \cup {j}
                              ELSE In(rows, "failed") \ {j}
  <2>1. \A t : In(next, t) = IF t = s THEN In(rows, t) \cup {j} ELSE In(rows, t) \ {j}
    BY DEF In
  <2>2. "claimed" # s /\ "none" # s
    OBVIOUS
  <2> HIDE DEF next
  <2> QED
    BY <2>1, <2>2
<1>2. /\ j \notin In(rows, "none") /\ j \notin In(rows, "dispatched")
      /\ j \notin In(rows, "failed")
      /\ In(rows, "dispatched") \subseteq Jobs /\ In(rows, "failed") \subseteq Jobs
  BY DEF In
<1> HIDE DEF next
<1>3. In(next, "claimed") = {} /\ In(next, "none") = In(rows, "none")
  <2>1. In(rows, "claimed") \subseteq {j}
    BY DEF Tally, AtHand
  <2>2. In(next, "claimed") = In(rows, "claimed") \ {j}
    BY <1>1
  <2>3. In(next, "none") = In(rows, "none") \ {j}
    BY <1>1
  <2> QED
    BY <1>2, <2>1, <2>2, <2>3
<1>4. /\ me.dispatched = Cardinality(In(rows, "dispatched"))
      /\ me.failed >= Cardinality(In(rows, "failed"))
      /\ me.claimed = Cardinality(Jobs \ In(rows, "none"))
  BY DEF Tally, Spoiled
<1>5. new.dispatched = Cardinality(In(next, "dispatched"))
  <2>1. CASE s = "dispatched"
    BY <1>1, <1>2, <1>4, <2>1, JobsCounted
  <2>2. CASE s # "dispatched"
    <3>1. In(next, "dispatched") = In(rows, "dispatched")
      BY <1>1, <1>2, <2>2
    <3> QED
      BY <1>4, <2>2, <3>1
  <2> QED
    BY <2>1, <2>2
<1>6. new.failed >= Cardinality(In(next, "failed"))
  <2>1. CASE s = "failed"
    <3>1. /\ In(next, "failed") = In(rows, "failed") \cup {j}
          /\ new.failed = me.failed + 1
      BY <1>1, <2>1
    <3>2. /\ Cardinality(In(rows, "failed")) \in Nat
          /\ Cardinality(In(rows, "failed") \cup {j}) = Cardinality(In(rows, "failed")) + 1
      BY <1>2, JobsCounted
    <3>3. new.failed >= Cardinality(In(rows, "failed") \cup {j})
      BY <1>4, <3>1, <3>2
    <3> QED
      BY <3>1, <3>3
  <2>2. CASE s # "failed"
    <3>1. In(next, "failed") = In(rows, "failed") \ {j}
      BY <1>1, <2>2
    <3>2. In(next, "failed") = In(rows, "failed")
      BY <1>2, <3>1
    <3> QED
      BY <1>4, <2>2, <3>2
  <2> QED
    BY <2>1, <2>2
<1>7. Tally(new, next)
  BY <1>3, <1>4, <1>5, <1>6 DEF Tally, AtHand, Spoiled
<1> QED
  BY <1>7 DEF next

(* Its three cases.                                                        *)
LEMMA TallyDryRun ==
    ASSUME NEW rows \in [Jobs -> DispatchStatuses], NEW j \in Jobs, NEW me, NEW new,
           Tally(me, rows), me.pc = "dry", me.job = j, rows[j] = "claimed",
           new.pc = "jobs", SameCounters(new, me), me.failed \in Nat
    PROVE  Tally(new, [rows EXCEPT ![j] = "dry_run"])
<1> DEFINE s == "dry_run"
<1>1. /\ new.claimed = me.claimed
      /\ new.dispatched = IF s = "dispatched" THEN me.dispatched + 1 ELSE me.dispatched
      /\ new.failed = IF s = "failed" THEN me.failed + 1 ELSE me.failed
      /\ s \in {"dry_run", "dispatched", "failed"}
      /\ me.pc \in {"dry", "record"}
  BY DEF SameCounters
<1> HIDE DEF s
<1>2. Tally(new, [rows EXCEPT ![j] = s])
  BY <1>1, TallySettled
<1> QED
  BY <1>2 DEF s

LEMMA TallyDispatched ==
    ASSUME NEW rows \in [Jobs -> DispatchStatuses], NEW j \in Jobs, NEW me, NEW new,
           Tally(me, rows), me.pc = "record", me.job = j, rows[j] = "claimed",
           new.pc = "jobs", new.claimed = me.claimed, me.failed \in Nat,
           new.dispatched = me.dispatched + 1, new.failed = me.failed
    PROVE  Tally(new, [rows EXCEPT ![j] = "dispatched"])
<1> DEFINE s == "dispatched"
<1>1. /\ new.dispatched = IF s = "dispatched" THEN me.dispatched + 1 ELSE me.dispatched
      /\ new.failed = IF s = "failed" THEN me.failed + 1 ELSE me.failed
      /\ s \in {"dry_run", "dispatched", "failed"}
      /\ me.pc \in {"dry", "record"}
  OBVIOUS
<1> HIDE DEF s
<1>2. Tally(new, [rows EXCEPT ![j] = s])
  BY <1>1, TallySettled
<1> QED
  BY <1>2 DEF s

LEMMA TallyRecordedFailed ==
    ASSUME NEW rows \in [Jobs -> DispatchStatuses], NEW j \in Jobs, NEW me, NEW new,
           Tally(me, rows), me.pc = "record", me.job = j, rows[j] = "claimed",
           new.pc = "jobs", new.claimed = me.claimed, me.failed \in Nat,
           new.dispatched = me.dispatched, new.failed = me.failed + 1
    PROVE  Tally(new, [rows EXCEPT ![j] = "failed"])
<1> DEFINE s == "failed"
<1>1. /\ new.dispatched = IF s = "dispatched" THEN me.dispatched + 1 ELSE me.dispatched
      /\ new.failed = IF s = "failed" THEN me.failed + 1 ELSE me.failed
      /\ s \in {"dry_run", "dispatched", "failed"}
      /\ me.pc \in {"dry", "record"}
  OBVIOUS
<1> HIDE DEF s
<1>2. Tally(new, [rows EXCEPT ![j] = s])
  BY <1>1, TallySettled
<1> QED
  BY <1>2 DEF s

(* A failure is counted before it is recorded, whatever the row then says. *)
LEMMA TallySpoiled ==
    ASSUME NEW rows \in [Jobs -> DispatchStatuses], NEW j \in Jobs, NEW me, NEW new,
           NEW next \in [Jobs -> DispatchStatuses],
           Tally(me, rows), me.pc \in {"send", "record"}, me.job = j,
           rows[j] = "claimed", \A k \in Jobs \ {j} : next[k] = rows[k],
           next[j] \in {"claimed", "dispatched", "failed"},
           new.pc = "catch", new.job = j, new.claimed = me.claimed,
           new.dispatched = me.dispatched, new.failed = me.failed + 1,
           me.failed \in Nat
    PROVE  Tally(new, next)
<1>1. /\ In(next, "claimed") \subseteq In(rows, "claimed") \cup {j}
      /\ In(next, "none") = In(rows, "none")
      /\ In(next, "dispatched") \ {j} = In(rows, "dispatched")
      /\ In(next, "failed") \cup {j} = In(rows, "failed") \cup {j}
      /\ j \notin In(rows, "failed") /\ In(rows, "failed") \subseteq Jobs
  BY DEF In
<1>2. /\ Cardinality(In(rows, "failed")) \in Nat
      /\ Cardinality(In(rows, "failed") \cup {j}) = Cardinality(In(rows, "failed")) + 1
  BY <1>1, JobsCounted
<1>3. /\ me.failed >= Cardinality(In(rows, "failed"))
      /\ me.dispatched = Cardinality(In(rows, "dispatched"))
      /\ me.claimed = Cardinality(Jobs \ In(rows, "none"))
      /\ In(rows, "claimed") \subseteq {j}
  BY DEF Tally, Spoiled, AtHand
<1>4. new.failed >= Cardinality(In(rows, "failed") \cup {j})
  BY <1>2, <1>3
<1> QED
  BY <1>1, <1>3, <1>4 DEF Tally, AtHand, Spoiled

(* Recording the failure leaves no row that does not count.                *)
LEMMA TallyFailed ==
    ASSUME NEW rows \in [Jobs -> DispatchStatuses], NEW j \in Jobs, NEW me, NEW new,
           Tally(me, rows), me.pc = "catch", me.job = j, rows[j] # "none",
           new.pc = "jobs", SameCounters(new, me)
    PROVE  Tally(new, [rows EXCEPT ![j] = "failed"])
<1> DEFINE next == [rows EXCEPT ![j] = "failed"]
<1>1. /\ In(next, "claimed") = In(rows, "claimed") \ {j}
      /\ In(next, "none") = In(rows, "none") \ {j}
      /\ In(next, "dispatched") = In(rows, "dispatched") \ {j}
      /\ In(next, "failed") = In(rows, "failed") \cup {j}
      /\ j \notin In(rows, "none")
  BY DEF In
<1> HIDE DEF next
<1>2. Tally(new, next)
  BY <1>1 DEF Tally, AtHand, Spoiled, SameCounters
<1> QED
  BY <1>2 DEF next

-----------------------------------------------------------------------------
(***************************************************************************)
(* What a step does to the minutes.                                        *)
(***************************************************************************)

(* A minute is claimed, finished or failed by an invocation whose minute   *)
(* it is.                                                                  *)
LEMMA RunStep ==
    ASSUME IInv, NEW i \in Invocations, NEW m \in Minutes,
           Triggers(i) \/ Handler(i) \/ Failures(i)
    PROVE  \/ runs'[m] = runs[m]
           \/ /\ m = inv[i].slot
              /\ \/ inv[i].pc = "claim" /\ runs[m].status = "none"
                                        /\ runs'[m].status = "started"
                 \/ inv[i].pc = "fail" /\ runs'[m].status = "failed"
                 \/ inv[i].pc = "jobs" /\ Exhausted(i) /\ WriteEnd(i, "finished")
<1>1. UNCHANGED d1 \/ StoreWrite(i)
  BY DEF Triggers, Handler, Failures, WatchdogPosts, CronFires, ClaimMinute,
     ListEnabledJobs, EvaluateJob, ClaimDispatch, RecordDryRun, TargetAnswers,
     RecordOutcome, RecordFailure, FinishRun, FailRun, StoreFails, Stopped,
     DispatchThrows
<1>2. inv[i].slot \in Minutes /\ runs \in [Minutes -> MinuteRuns]
  BY DEF IInv, TypeOK, Memory
<1>3. CASE inv[i].pc = "claim" /\ WriteMinute(i)
  BY <1>2, <1>3 DEF WriteMinute, MinuteFree, NoMinuteRun
<1>4. CASE inv[i].pc = "fail" /\ WriteEnd(i, "failed")
  BY <1>2, <1>4 DEF WriteEnd
<1>5. CASE inv[i].pc = "jobs" /\ Exhausted(i) /\ WriteEnd(i, "finished")
  BY <1>2, <1>5 DEF WriteEnd
<1>6. CASE runs' = runs
  BY <1>6
<1> QED
  BY <1>1, <1>3, <1>4, <1>5, <1>6 DEF StoreWrite, d1, WriteClaim, WriteOutcome

(* The rows of a minute change while an invocation runs it, and no others. *)
LEMMA RowsElsewhere ==
    ASSUME IInv, NEW i \in Invocations, NEW m \in Minutes,
           Triggers(i) \/ Handler(i) \/ Failures(i),
           ~(Active(i) /\ inv[i].slot = m)
    PROVE  RowsOf(m)' = RowsOf(m)
<1> SUFFICES ASSUME NEW j \in Jobs PROVE dispatches'[j][m] = dispatches[j][m]
  BY DEF RowsOf
<1>1. RowKept(i, j, m)
  BY StepEffects DEF IInv, Effects
<1>2. inv[i].pc = "jobs" /\ inv[i].slots # {} => Due(i) = inv[i].slot
  BY DueIsSlot DEF IInv
<1>3. inv[i].pc \in {"dry", "record", "catch"} => inv[i].at = inv[i].slot
  BY DEF IInv, HeldDispatch, HeldBy, Holds
<1> QED
  BY <1>1, <1>2, <1>3 DEF RowKept, Active

(* How the invocation at hand writes the rows of its minute.               *)
LEMMA RowsWritten ==
    ASSUME IInv, NEW i \in Invocations, StoreWrite(i),
           NEW m \in Minutes, m = inv[i].slot
    PROVE  LET j == inv[i].job  rows == RowsOf(m) IN
           /\ inv[i].pc = "jobs" /\ inv[i].slots # {} =>
                RowsOf(m)' = IF rows[j] = "none" THEN [rows EXCEPT ![j] = "claimed"]
                             ELSE rows
           /\ inv[i].pc = "dry" => RowsOf(m)' = [rows EXCEPT ![j] = "dry_run"]
           /\ inv[i].pc = "record" => RowsOf(m)' = [rows EXCEPT ![j] = inv[i].result]
           /\ inv[i].pc = "catch" => RowsOf(m)' = [rows EXCEPT ![j] = "failed"]
<1> DEFINE j == inv[i].job
<1>0. dispatches \in [Jobs -> [Minutes -> DispatchStatuses]]
  BY DEF IInv, TypeOK
<1>1. ASSUME NEW s, j \in Jobs, dispatches' = [dispatches EXCEPT ![j][m] = s]
      PROVE  RowsOf(m)' = [RowsOf(m) EXCEPT ![j] = s]
  BY <1>0, <1>1 DEF RowsOf
<1>2. ASSUME inv[i].pc = "jobs", inv[i].slots # {}
      PROVE  RowsOf(m)' = IF RowsOf(m)[j] = "none" THEN [RowsOf(m) EXCEPT ![j] = "claimed"]
                          ELSE RowsOf(m)
  <2>1. Due(i) = m
    BY <1>2, DueIsSlot DEF IInv
  <2>2. WriteClaim(i)
    BY <1>2 DEF StoreWrite, Exhausted
  <2>3. j \in Jobs
    BY <1>2 DEF IInv, HeldDispatch, HeldBy
  <2>4. RowsOf(m)[j] = dispatches[j][m]
    BY <2>3 DEF RowsOf
  <2>5. CASE dispatches[j][m] = "none"
    <3>1. dispatches' = [dispatches EXCEPT ![j][m] = "claimed"]
      BY <2>1, <2>2, <2>5 DEF WriteClaim, DispatchFree
    <3> QED
      BY <1>1, <2>3, <2>4, <2>5, <3>1
  <2>6. CASE dispatches[j][m] # "none"
    <3>1. dispatches' = dispatches
      BY <2>1, <2>2, <2>6 DEF WriteClaim, DispatchFree
    <3> QED
      BY <2>4, <2>6, <3>1 DEF RowsOf
  <2> QED
    BY <2>5, <2>6
<1>3. ASSUME NEW s, WriteOutcome(i, s), Holds(i)
      PROVE  RowsOf(m)' = [RowsOf(m) EXCEPT ![j] = s]
  <2>1. j \in Jobs /\ inv[i].at = m
    BY <1>3 DEF IInv, HeldDispatch, HeldBy
  <2> QED
    BY <1>1, <1>3, <2>1 DEF WriteOutcome
<1> HIDE DEF j
<1>4. /\ inv[i].pc = "dry" => WriteOutcome(i, "dry_run")
      /\ inv[i].pc = "record" => WriteOutcome(i, inv[i].result)
      /\ inv[i].pc = "catch" => WriteOutcome(i, "failed")
  BY DEF StoreWrite
<1>5. /\ inv[i].pc = "dry" => RowsOf(m)' = [RowsOf(m) EXCEPT ![j] = "dry_run"]
      /\ inv[i].pc = "record" => RowsOf(m)' = [RowsOf(m) EXCEPT ![j] = inv[i].result]
      /\ inv[i].pc = "catch" => RowsOf(m)' = [RowsOf(m) EXCEPT ![j] = "failed"]
  BY <1>3, <1>4 DEF Holds
<1> QED
  BY <1>2, <1>5 DEF j

-----------------------------------------------------------------------------
(***************************************************************************)
(* The tally of an invocation.                                             *)
(***************************************************************************)

(* The same counters over the same rows, at a step that counts alike.      *)
LEMMA TallySame ==
    ASSUME NEW me, NEW new, NEW rows, Tally(me, rows), SameCounters(new, me),
           AtHand(me) \subseteq AtHand(new), Spoiled(new) = Spoiled(me)
    PROVE  Tally(new, rows)
  BY DEF Tally, SameCounters

(* An invocation keeps its tally at every await.                           *)
LEMMA OwnTally ==
    ASSUME IInv, Accounts, NEW i \in Invocations,
           Triggers(i) \/ Handler(i) \/ Failures(i)
    PROVE  Tallied(i)'
<1> DEFINE me == inv[i]
           new == inv'[i]
<1> PICK m \in Minutes : m = inv[i].slot
  BY DEF IInv, TypeOK, Memory
<1>0. /\ me \in Memory /\ inv \in [Invocations -> Memory]
      /\ me.claimed \in Nat /\ me.dispatched \in Nat /\ me.failed \in Nat
  BY DEF IInv, TypeOK, Memory
<1>1. RowsOf(m) \in [Jobs -> DispatchStatuses]
  BY DEF RowsOf, IInv, TypeOK
<1>2. Tallied(i) /\ HeldBy(i)
  BY DEF Accounts, IInv, HeldDispatch
<1>3. Active(i) => runs[m].status = "started" /\ Tally(me, RowsOf(m))
  BY <1>2 DEF Tallied
<1>4. ASSUME Active(i), Active(i)', new.slot = m,
             ~(me.pc = "jobs" /\ Exhausted(i)), Tally(new, RowsOf(m)')
      PROVE  Tallied(i)'
  <2>1. runs'[m].status = "started"
    BY <1>3, <1>4, RunStep DEF Active
  <2>2. Tally(inv[i], RowsOf(inv[i].slot))'
    BY <1>4
  <2>3. new.pc \notin {"idle", "claim"}
    BY <1>4 DEF Active
  <2> QED
    BY <1>4, <2>1, <2>2, <2>3 DEF Tallied
<1>5. ASSUME new.pc \in {"done", "fail"}
      PROVE  Tallied(i)'
  BY <1>5 DEF Tallied, Active
<1>6. \A r : Over(me, r).pc = "done"
  BY DEF Over, Idle
<1>7. UNCHANGED d1 => RowsOf(m)' = RowsOf(m)
  BY DEF d1, RowsOf
<1>8. Holds(i) => me.job \in Jobs /\ RowsOf(m)[me.job] = dispatches[me.job][me.at]
  BY <1>2 DEF HeldBy, RowsOf
<1>9. me.pc \in {"dry", "send", "record"} => RowsOf(m)[me.job] = "claimed"
  BY <1>2, <1>8 DEF HeldBy, Holds
<1>10. ASSUME Triggers(i) PROVE Tallied(i)'
  <2>1. /\ me.pc = "idle" /\ new.pc = "claim" /\ SameCounters(new, me)
    <3>1. \E slot, source : Start(i, slot, source)
      BY <1>10 DEF Triggers, WatchdogPosts, CronFires
    <3> QED
      BY <1>0, <3>1 DEF Start, SameCounters, Memory
  <2> QED
    BY <1>2, <2>1 DEF Tallied, SameCounters, Active
<1>11. ASSUME ClaimMinute(i) PROVE Tallied(i)'
  <2>1. CASE runs[m].status = "none"
    <3>1. /\ new = [me EXCEPT !.pc = "list"] /\ me.pc = "claim"
      BY <1>0, <1>11, <2>1 DEF ClaimMinute, MinuteFree, Becomes
    <3>2. /\ new.pc = "list" /\ new.slot = m /\ SameCounters(new, me)
      BY <1>0, <3>1 DEF Memory, SameCounters
    <3>3. new.claimed = 0 /\ new.dispatched = 0 /\ new.failed = 0
      BY <1>2, <3>1, <3>2 DEF Tallied, SameCounters
    <3>4. RowsOf(m)' = RowsOf(m)
      BY <1>11, <3>1, RowsElsewhere DEF Active, Handler
    <3>5. \A j \in Jobs : RowsOf(m)[j] = "none"
      BY <2>1 DEF Accounts, UnclaimedEmpty, RowsOf
    <3>6. /\ In(RowsOf(m), "claimed") = {} /\ Jobs \ In(RowsOf(m), "none") = {}
          /\ In(RowsOf(m), "dispatched") = {} /\ In(RowsOf(m), "failed") = {}
      BY <3>5 DEF In
    <3>7. AtHand(new) = {} /\ Spoiled(new) = {}
      BY <3>2 DEF AtHand, Spoiled
    <3>8. Tally(new, RowsOf(m)')
      BY <3>3, <3>4, <3>6, <3>7, FS_EmptySet DEF Tally
    <3>9. runs'[m].status = "started"
      <4>1. WriteMinute(i)
        BY <1>11, <3>1 DEF ClaimMinute, StoreWrite
      <4>2. runs' = [runs EXCEPT ![m] = [NoMinuteRun EXCEPT !.status = "started",
                                                           !.source = me.source]]
        BY <2>1, <4>1 DEF WriteMinute, MinuteFree
      <4> QED
        BY <4>2 DEF NoMinuteRun, IInv, TypeOK
    <3>10. Tally(inv[i], RowsOf(inv[i].slot))'
      BY <3>2, <3>8
    <3> QED
      BY <3>2, <3>9, <3>10 DEF Tallied
  <2>2. CASE runs[m].status # "none"
    <3>1. new = Over(me, runs[m].source)
      BY <1>0, <1>11, <2>2 DEF ClaimMinute, MinuteFree, Becomes
    <3> QED
      BY <1>5, <1>6, <3>1
  <2> QED
    BY <2>1, <2>2
<1>12. ASSUME ListEnabledJobs(i) PROVE Tallied(i)'
  <2>1. /\ me.pc = "list" /\ new.pc = "jobs" /\ new.slot = m /\ SameCounters(new, me)
        /\ UNCHANGED d1
    BY <1>0, <1>12 DEF ListEnabledJobs, SameCounters, Memory
  <2>2. Tally(new, RowsOf(m))
    BY <1>3, <2>1, TallySame DEF Active, AtHand, Spoiled
  <2> QED
    BY <1>4, <1>7, <2>1, <2>2 DEF Active
<1>13. ASSUME EvaluateJob(i) PROVE Tallied(i)'
  <2>1. PICK j \in Jobs :
          Becomes(i, IF me.rows[j].valid
                     THEN Evaluated(me, j)
                     ELSE [me EXCEPT !.todo = @ \ {j}, !.failed = @ + 1])
    BY <1>13 DEF EvaluateJob
  <2>2. /\ me.pc = "jobs" /\ ~Exhausted(i) /\ UNCHANGED d1
    BY <1>13 DEF EvaluateJob, Exhausted
  <2>3. /\ new.pc = "jobs" /\ new.slot = m /\ new.claimed = me.claimed
        /\ new.dispatched = me.dispatched
        /\ new.failed \in {me.failed, me.failed + 1}
    BY <1>0, <2>1, <2>2 DEF Becomes, Evaluated, Memory
  <2>4. Cardinality(In(RowsOf(m), "failed") \cup Spoiled(me)) \in Nat
    <3>1. In(RowsOf(m), "failed") \cup Spoiled(me) \subseteq Jobs
      BY <2>2 DEF In, Spoiled
    <3> QED
      BY <3>1, JobsAssumption, FS_Subset, FS_CardinalityType
  <2>5. Tally(new, RowsOf(m))
    BY <1>0, <1>3, <2>2, <2>3, <2>4 DEF Tally, Active, AtHand, Spoiled
  <2> QED
    BY <1>4, <1>7, <2>2, <2>3, <2>5 DEF Active
<1>14. ASSUME ClaimDispatch(i) PROVE Tallied(i)'
  <2> DEFINE at == [me EXCEPT !.slots = @ \ {Due(i)}, !.at = Due(i)]
  <2>1. me.pc = "jobs" /\ me.slots # {} /\ me.job \in Jobs /\ StoreWrite(i)
    BY <1>2, <1>14 DEF ClaimDispatch, HeldBy
  <2>2. RowsOf(m)[me.job] = dispatches[me.job][Due(i)]
    BY <2>1, DueIsSlot DEF RowsOf, IInv
  <2>3. /\ at.pc = "jobs" /\ at.slot = m /\ at.job = me.job /\ SameCounters(at, me)
        /\ at \in Memory
    <3>1. Due(i) \in Minutes
      BY <2>1, DueIsSlot DEF IInv
    <3> QED
      BY <1>0, <2>1, <3>1 DEF Memory, SameCounters
  <2>4. CASE RowsOf(m)[me.job] = "none"
    <3>1. \E pc \in {"dry", "send"} : new = [at EXCEPT !.pc = pc, !.claimed = @ + 1]
      <4> DEFINE pc == IF at.rows[at.job].dry THEN "dry" ELSE "send"
      <4>1. DispatchFree(at.job, at.at)
        BY <1>0, <2>2, <2>4 DEF DispatchFree, Memory
      <4>2. inv' = [inv EXCEPT ![i] = [at EXCEPT !.pc = pc, !.claimed = @ + 1]]
        BY <1>14, <4>1 DEF ClaimDispatch, Becomes
      <4>3. new = [at EXCEPT !.pc = pc, !.claimed = @ + 1]
        BY <1>0, <4>2
      <4>4. pc \in {"dry", "send"}
        OBVIOUS
      <4> HIDE DEF pc
      <4> QED
        BY <4>3, <4>4
    <3>2. /\ new.pc \in {"dry", "send"} /\ new.job = me.job /\ new.slot = m
          /\ new.claimed = me.claimed + 1 /\ new.dispatched = me.dispatched
          /\ new.failed = me.failed
      <4> HIDE DEF at
      <4> QED
        BY <2>3, <3>1 DEF SameCounters, Memory
    <3>3. RowsOf(m)' = [RowsOf(m) EXCEPT ![me.job] = "claimed"]
      BY <2>1, <2>4, RowsWritten
    <3>4. Tally(new, RowsOf(m)')
      BY <1>1, <1>3, <2>1, <2>4, <3>2, <3>3, TallyClaimed DEF Active
    <3> QED
      BY <1>4, <2>1, <3>2, <3>4 DEF Active, Exhausted
  <2>5. CASE RowsOf(m)[me.job] # "none"
    <3>1. new = GoesOn(at)
      BY <1>0, <1>14, <2>2, <2>5 DEF ClaimDispatch, DispatchFree, Becomes
    <3>2. new.pc = "jobs" /\ new.slot = m /\ SameCounters(new, me)
      <4> HIDE DEF at
      <4> QED
        BY <2>3, <3>1 DEF GoesOn, SameCounters, Memory
    <3>3. RowsOf(m)' = RowsOf(m)
      BY <2>1, <2>5, RowsWritten
    <3>4. Tally(new, RowsOf(m)')
      BY <1>3, <2>1, <3>2, <3>3, TallySame DEF Active, AtHand, Spoiled
    <3> QED
      BY <1>4, <2>1, <3>2, <3>4 DEF Active, Exhausted
  <2> QED
    BY <2>4, <2>5
<1>15. ASSUME RecordDryRun(i) PROVE Tallied(i)'
  <2>1. me.pc = "dry" /\ StoreWrite(i) /\ new = GoesOn(me)
    BY <1>0, <1>15 DEF RecordDryRun, Becomes
  <2>2. new.pc = "jobs" /\ new.slot = m /\ SameCounters(new, me)
    BY <1>0, <2>1 DEF GoesOn, Memory, SameCounters
  <2>3. RowsOf(m)' = [RowsOf(m) EXCEPT ![me.job] = "dry_run"]
    BY <2>1, RowsWritten
  <2>4. Tally(new, RowsOf(m)')
    <3>1. /\ Tally(me, RowsOf(m)) /\ me.job \in Jobs /\ RowsOf(m)[me.job] = "claimed"
      BY <1>3, <1>8, <1>9, <2>1 DEF Active, Holds
    <3> QED
      BY <1>0, <1>1, <2>1, <2>2, <2>3, <3>1, TallyDryRun
  <2> QED
    BY <1>4, <2>1, <2>2, <2>4 DEF Active
<1>16. ASSUME NEW ok \in BOOLEAN, TargetAnswers(i, ok) PROVE Tallied(i)'
  <2>1. /\ me.pc = "send" /\ new.pc = "record" /\ new.slot = m /\ new.job = me.job
        /\ SameCounters(new, me) /\ UNCHANGED d1
    BY <1>0, <1>16 DEF TargetAnswers, SameCounters, Memory
  <2>2. Tally(new, RowsOf(m))
    BY <1>3, <2>1, TallySame DEF Active, AtHand, Spoiled
  <2> QED
    BY <1>4, <1>7, <2>1, <2>2 DEF Active
<1>17. ASSUME NEW ok \in BOOLEAN, NEW made \in BOOLEAN, DispatchThrows(i, made, ok)
       PROVE  Tallied(i)'
  <2>1. /\ me.pc = "send" /\ new.pc = "catch" /\ new.slot = m /\ new.job = me.job
        /\ new.claimed = me.claimed /\ new.dispatched = me.dispatched
        /\ new.failed = me.failed + 1 /\ UNCHANGED d1
    BY <1>0, <1>17 DEF DispatchThrows, Memory
  <2>2. Tally(new, RowsOf(m)')
    BY <1>0, <1>1, <1>3, <1>7, <1>8, <1>9, <2>1, TallySpoiled DEF Active, Holds
  <2> QED
    BY <1>4, <2>1, <2>2 DEF Active
<1>18. ASSUME RecordOutcome(i) PROVE Tallied(i)'
  <2>1. /\ me.pc = "record" /\ StoreWrite(i) /\ me.result \in {"dispatched", "failed"}
    BY <1>2, <1>18 DEF RecordOutcome, HeldBy
  <2>2. new = IF me.result = "dispatched"
              THEN GoesOn([me EXCEPT !.dispatched = @ + 1])
              ELSE GoesOn([me EXCEPT !.failed = @ + 1])
    BY <1>0, <1>18 DEF RecordOutcome, Becomes
  <2>3. /\ new.pc = "jobs" /\ new.slot = m /\ new.claimed = me.claimed
        /\ new.dispatched = IF me.result = "dispatched" THEN me.dispatched + 1
                                                        ELSE me.dispatched
        /\ new.failed = IF me.result = "failed" THEN me.failed + 1 ELSE me.failed
    BY <1>0, <2>1, <2>2 DEF GoesOn, Memory
  <2>4. RowsOf(m)' = [RowsOf(m) EXCEPT ![me.job] = me.result]
    BY <2>1, RowsWritten
  <2>5. Tally(new, RowsOf(m)')
    <3>1. /\ Tally(me, RowsOf(m)) /\ me.job \in Jobs /\ RowsOf(m)[me.job] = "claimed"
      BY <1>3, <1>8, <1>9, <2>1 DEF Active, Holds
    <3>2. CASE me.result = "dispatched"
      BY <1>0, <1>1, <2>1, <2>3, <2>4, <3>1, <3>2, TallyDispatched
    <3>3. CASE me.result = "failed"
      BY <1>0, <1>1, <2>1, <2>3, <2>4, <3>1, <3>3, TallyRecordedFailed
    <3> QED
      BY <2>1, <3>2, <3>3
  <2> QED
    BY <1>4, <2>1, <2>3, <2>5 DEF Active
<1>19. ASSUME RecordFailure(i) PROVE Tallied(i)'
  <2>1. me.pc = "catch" /\ StoreWrite(i) /\ new = GoesOn(me)
    BY <1>0, <1>19 DEF RecordFailure, Becomes
  <2>2. new.pc = "jobs" /\ new.slot = m /\ SameCounters(new, me)
    BY <1>0, <2>1 DEF GoesOn, Memory, SameCounters
  <2>3. RowsOf(m)' = [RowsOf(m) EXCEPT ![me.job] = "failed"]
    BY <2>1, RowsWritten
  <2>4. me.job \in Jobs /\ RowsOf(m)[me.job] # "none"
    BY <1>2, <1>8, <2>1 DEF HeldBy, Holds
  <2>5. Tally(new, RowsOf(m)')
    BY <1>1, <1>3, <2>1, <2>2, <2>3, <2>4, TallyFailed DEF Active
  <2> QED
    BY <1>4, <2>1, <2>2, <2>5 DEF Active
<1>20. ASSUME FinishRun(i) \/ FailRun(i) \/ Stopped(i) PROVE Tallied(i)'
  <2>1. \E r : new = Over(me, r)
    BY <1>0, <1>20 DEF FinishRun, FailRun, Stopped, Becomes
  <2> QED
    BY <1>5, <1>6, <2>1
<1>21. ASSUME StoreFails(i) PROVE Tallied(i)'
  <2>1. new = Raised(me) /\ InStoreCall(i) /\ (StoreWrite(i) \/ UNCHANGED d1)
    BY <1>0, <1>21 DEF StoreFails, Becomes
  <2>2. CASE me.pc = "record"
    <3>1. new = [me EXCEPT !.pc = "catch", !.failed = @ + 1]
      BY <2>1, <2>2 DEF Raised
    <3>2. /\ new.pc = "catch" /\ new.slot = m /\ new.job = me.job
          /\ new.claimed = me.claimed /\ new.dispatched = me.dispatched
          /\ new.failed = me.failed + 1
      BY <1>0, <3>1 DEF Memory
    <3>3. /\ me.job \in Jobs /\ RowsOf(m)[me.job] = "claimed"
          /\ me.result \in {"dispatched", "failed"}
      BY <1>2, <1>8, <1>9, <2>2 DEF Holds, HeldBy
    <3>4. RowsOf(m)' \in {RowsOf(m), [RowsOf(m) EXCEPT ![me.job] = me.result]}
      BY <1>7, <2>1, <2>2, RowsWritten
    <3>5. /\ RowsOf(m)' \in [Jobs -> DispatchStatuses]
          /\ \A k \in Jobs \ {me.job} : (RowsOf(m)')[k] = RowsOf(m)[k]
          /\ (RowsOf(m)')[me.job] \in {"claimed", "dispatched", "failed"}
      BY <1>1, <3>3, <3>4 DEF DispatchStatuses
    <3>6. Tally(new, RowsOf(m)')
      BY <1>0, <1>1, <1>3, <2>2, <3>2, <3>3, <3>5, TallySpoiled DEF Active
    <3> QED
      BY <1>4, <2>2, <3>2, <3>6 DEF Active
  <2>3. CASE me.pc \in {"claim", "fail"}
    <3>1. new = Over(me, "error")
      BY <2>1, <2>3 DEF Raised
    <3> QED
      BY <1>5, <1>6, <3>1
  <2>4. CASE me.pc \notin {"record", "claim", "fail"}
    <3>1. new = [me EXCEPT !.pc = "fail"]
      BY <2>1, <2>4 DEF Raised
    <3> QED
      BY <1>0, <1>5, <3>1 DEF Memory
  <2> QED
    BY <2>2, <2>3, <2>4
<1> QED
  BY <1>10, <1>11, <1>12, <1>13, <1>14, <1>15, <1>16, <1>17, <1>18, <1>19, <1>20,
     <1>21 DEF Handler, Failures

(* Nobody touches the minute another invocation runs.                      *)
LEMMA OthersTally ==
    ASSUME IInv, Accounts, NEW i \in Invocations, NEW k \in Invocations, k # i,
           Triggers(i) \/ Handler(i) \/ Failures(i)
    PROVE  Tallied(k)'
<1>1. inv'[k] = inv[k]
  BY StepEffects DEF IInv, Effects
<1>2. Tallied(k)
  BY DEF Accounts
<1>3. CASE Active(k)
  <2> PICK m \in Minutes : m = inv[k].slot
    BY DEF IInv, TypeOK, Memory
  <2>1. runs[m].status = "started" /\ Tally(inv[k], RowsOf(m))
    BY <1>2, <1>3 DEF Tallied
  <2>2. ~(Owns(i) /\ inv[i].slot = m)
    BY <1>3 DEF Accounts, OwnedOnce, Owns, Active
  <2>3. RowsOf(m)' = RowsOf(m)
    BY <2>2, RowsElsewhere DEF Owns, Active
  <2>4. runs'[m].status = "started"
    BY <2>1, <2>2, RunStep DEF Owns
  <2>5. Tally(inv[k], RowsOf(inv[k].slot))'
    BY <1>1, <2>1, <2>3
  <2>6. inv'[k].pc \notin {"idle", "claim"}
    BY <1>1, <1>3 DEF Active
  <2> QED
    BY <1>1, <2>4, <2>5, <2>6 DEF Tallied
<1>4. CASE ~Active(k)
  BY <1>1, <1>2, <1>4 DEF Tallied, Active
<1> QED
  BY <1>3, <1>4

-----------------------------------------------------------------------------
(***************************************************************************)
(* The accounts of the runs.                                               *)
(***************************************************************************)

(* An invocation owns the minute it owned, or one that was free.           *)
LEMMA OwnsFrom ==
    ASSUME IInv, NEW i \in Invocations, Triggers(i) \/ Handler(i) \/ Failures(i),
           Owns(i)'
    PROVE  /\ inv'[i].slot = inv[i].slot
           /\ \/ Owns(i)
              \/ runs[inv[i].slot].status = "none"
<1>1. inv \in [Invocations -> Memory] /\ inv[i] \in Memory
  BY DEF IInv, TypeOK
<1>2. \A r : Over(inv[i], r).pc = "done"
  BY DEF Over, Idle
<1>3. CASE Triggers(i)
  <2>1. \E slot, source : Start(i, slot, source)
    BY <1>3 DEF Triggers, WatchdogPosts, CronFires
  <2>2. inv'[i].pc = "claim"
    BY <1>1, <2>1 DEF Start, Memory
  <2> QED
    BY <2>2 DEF Owns
<1>4. CASE ClaimMinute(i)
  <2>1. inv'[i] = IF MinuteFree(inv[i].slot) THEN [inv[i] EXCEPT !.pc = "list"]
                  ELSE Over(inv[i], runs[inv[i].slot].source)
    BY <1>1, <1>4 DEF ClaimMinute, Becomes
  <2> QED
    BY <1>1, <1>2, <2>1 DEF MinuteFree, Owns, Memory
<1>5. CASE ListEnabledJobs(i)
  BY <1>1, <1>5 DEF ListEnabledJobs, Owns, Memory
<1>6. CASE EvaluateJob(i)
  <2>1. PICK j \in Jobs :
          Becomes(i, IF inv[i].rows[j].valid
                     THEN Evaluated(inv[i], j)
                     ELSE [inv[i] EXCEPT !.todo = @ \ {j}, !.failed = @ + 1])
    BY <1>6 DEF EvaluateJob
  <2>2. inv[i].pc = "jobs"
    BY <1>6 DEF EvaluateJob
  <2> QED
    BY <1>1, <2>1, <2>2 DEF Becomes, Evaluated, Owns, Memory
<1>7. CASE ClaimDispatch(i)
  <2>1. inv[i].pc = "jobs" /\ inv'[i].slot = inv[i].slot
    BY <1>1, <1>7 DEF ClaimDispatch, Becomes, GoesOn, Memory
  <2> QED
    BY <2>1 DEF Owns
<1>8. CASE RecordDryRun(i) \/ RecordOutcome(i) \/ RecordFailure(i)
  <2>1. inv[i].pc \in {"dry", "record", "catch"}
    BY <1>8 DEF RecordDryRun, RecordOutcome, RecordFailure
  <2>2. \/ inv'[i] = GoesOn(inv[i])
        \/ inv'[i] = GoesOn([inv[i] EXCEPT !.dispatched = @ + 1])
        \/ inv'[i] = GoesOn([inv[i] EXCEPT !.failed = @ + 1])
    BY <1>1, <1>8 DEF RecordDryRun, RecordOutcome, RecordFailure, Becomes
  <2>3. inv'[i].slot = inv[i].slot
    BY <1>1, <2>2 DEF GoesOn, Memory
  <2> QED
    BY <2>1, <2>3 DEF Owns
<1>9. CASE \E ok \in BOOLEAN : TargetAnswers(i, ok)
  <2>1. inv[i].pc = "send" /\ inv'[i].slot = inv[i].slot
    BY <1>1, <1>9 DEF TargetAnswers, Memory
  <2> QED
    BY <2>1 DEF Owns
<1>10. CASE \E made, ok \in BOOLEAN : DispatchThrows(i, made, ok)
  <2>1. inv[i].pc = "send" /\ inv'[i].slot = inv[i].slot
    BY <1>1, <1>10 DEF DispatchThrows, Memory
  <2> QED
    BY <2>1 DEF Owns
<1>11. CASE FinishRun(i) \/ FailRun(i) \/ Stopped(i)
  <2>1. \E r : inv'[i] = Over(inv[i], r)
    BY <1>1, <1>11 DEF FinishRun, FailRun, Stopped, Becomes
  <2> QED
    BY <1>2, <2>1 DEF Owns
<1>12. CASE StoreFails(i)
  <2>1. inv'[i] = Raised(inv[i])
    BY <1>1, <1>12 DEF StoreFails, Becomes
  <2>2. CASE inv[i].pc \in {"claim", "fail"}
    <3>1. inv'[i] = Over(inv[i], "error")
      BY <2>1, <2>2 DEF Raised
    <3> QED
      BY <1>2, <3>1 DEF Owns
  <2>3. CASE inv[i].pc \in {"list", "jobs", "dry", "record", "catch"}
    <3>1. inv'[i].slot = inv[i].slot
      BY <1>1, <2>1, <2>3 DEF Raised, Memory
    <3> QED
      BY <2>3, <3>1 DEF Owns
  <2> QED
    BY <1>12, <2>2, <2>3 DEF StoreFails, InStoreCall
<1> QED
  BY <1>3, <1>4, <1>5, <1>6, <1>7, <1>8, <1>9, <1>10, <1>11, <1>12
  DEF Handler, Failures

(* No two invocations come to own one minute.                              *)
LEMMA OwnedOnceKept ==
    ASSUME IInv, OwnedOnce, NEW i \in Invocations,
           Triggers(i) \/ Handler(i) \/ Failures(i)
    PROVE  OwnedOnce'
<1>1. \A k \in Invocations \ {i} : inv'[k] = inv[k]
  BY StepEffects DEF IInv, Effects
<1> SUFFICES ASSUME NEW k \in Invocations, k # i, Owns(i)', Owns(k)',
                    inv'[i].slot = inv'[k].slot
             PROVE  FALSE
  BY <1>1 DEF OwnedOnce, Owns
<1>2. Owns(k) /\ inv[k].slot = inv[i].slot
  BY <1>1, OwnsFrom DEF Owns
<1>3. runs[inv[i].slot].status # "none"
  BY <1>2 DEF IInv, OwnersRecorded, Recorded
<1> QED
  BY <1>2, <1>3, OwnsFrom DEF OwnedOnce

(* A minute nobody has claimed stays without dispatches.                   *)
LEMMA UnclaimedEmptyKept ==
    ASSUME IInv, UnclaimedEmpty, NEW i \in Invocations,
           Triggers(i) \/ Handler(i) \/ Failures(i)
    PROVE  UnclaimedEmpty'
<1> SUFFICES ASSUME NEW m \in Minutes, runs'[m].status = "none", NEW j \in Jobs
             PROVE  dispatches'[j][m] = "none"
  BY DEF UnclaimedEmpty
<1>1. runs[m].status = "none"
  BY StepEffects DEF IInv, Effects, RunKept
<1>2. ~(Active(i) /\ inv[i].slot = m)
  BY <1>1 DEF IInv, OwnersRecorded, Recorded, Active, Owns
<1>3. RowsOf(m)' = RowsOf(m)
  BY <1>2, RowsElsewhere
<1>4. (RowsOf(m)')[j] = dispatches'[j][m] /\ RowsOf(m)[j] = dispatches[j][m]
  BY DEF RowsOf
<1> QED
  BY <1>1, <1>3, <1>4 DEF UnclaimedEmpty

(* A run is finished with what its invocation counted, and its rows are    *)
(* not touched again.                                                      *)
LEMMA FinishedKept ==
    ASSUME IInv, Accounts, NEW i \in Invocations,
           Triggers(i) \/ Handler(i) \/ Failures(i)
    PROVE  FinishedRunAccounts'
<1>0. \A m, s : m \in Minutes => /\ InStatus(m, s) = In(RowsOf(m), s)
                                /\ InStatus(m, s)' = In(RowsOf(m)', s)
  BY DEF InStatus, In, RowsOf
<1> DEFINE Told(run, rows) ==
             /\ In(rows, "claimed") = {}
             /\ run.claimed = Cardinality(Jobs \ In(rows, "none"))
             /\ run.dispatched = Cardinality(In(rows, "dispatched"))
             /\ run.failed >= Cardinality(In(rows, "failed"))
<1> SUFFICES ASSUME NEW m \in Minutes, runs'[m].status = "finished"
             PROVE  Told(runs'[m], RowsOf(m)')
  BY <1>0 DEF FinishedRunAccounts
<1>1. CASE runs'[m] = runs[m]
  <2>1. runs[m].status = "finished"
    BY <1>1
  <2>2. Told(runs[m], RowsOf(m))
    BY <1>0, <2>1 DEF Accounts, FinishedRunAccounts
  <2>3. ~(Active(i) /\ inv[i].slot = m)
    BY <2>1 DEF Accounts, Tallied
  <2>4. RowsOf(m)' = RowsOf(m)
    BY <2>3, RowsElsewhere
  <2> QED
    BY <1>1, <2>2, <2>4
<1>2. CASE m = inv[i].slot /\ inv[i].pc = "jobs" /\ WriteEnd(i, "finished")
  <2>1. Tally(inv[i], RowsOf(m))
    BY <1>2 DEF Accounts, Tallied, Active
  <2>2. AtHand(inv[i]) = {} /\ Spoiled(inv[i]) = {}
    BY <1>2 DEF AtHand, Spoiled
  <2>3. RowsOf(m)' = RowsOf(m)
    BY <1>2 DEF WriteEnd, RowsOf
  <2>4. /\ runs'[m].claimed = inv[i].claimed
        /\ runs'[m].dispatched = inv[i].dispatched
        /\ runs'[m].failed = inv[i].failed
    BY <1>2 DEF WriteEnd, Counted, IInv, TypeOK
  <2> QED
    BY <2>1, <2>2, <2>3, <2>4 DEF Tally
<1> QED
  BY <1>1, <1>2, RunStep

(* The accounts survive every step.                                        *)
LEMMA AccountsStep == IInv /\ Accounts /\ [Next]_vars => Accounts'
<1> SUFFICES ASSUME IInv, Accounts, [Next]_vars PROVE Accounts'
  OBVIOUS
<1>1. ASSUME UNCHANGED <<d1, inv>> PROVE Accounts'
  <2>1. inv' = inv /\ runs' = runs /\ dispatches' = dispatches
    BY <1>1 DEF d1
  <2>2. UnclaimedEmpty' /\ OwnedOnce' /\ FinishedRunAccounts'
    <3>1. UnclaimedEmpty' /\ OwnedOnce'
      BY <2>1 DEF Accounts, UnclaimedEmpty, OwnedOnce, Owns
    <3>2. \A m, s : InStatus(m, s)' = InStatus(m, s)
      BY <2>1 DEF InStatus
    <3>3. FinishedRunAccounts
      BY DEF Accounts
    <3> QED
      BY <2>1, <3>1, <3>2, <3>3 DEF FinishedRunAccounts
  <2>3. \A m : RowsOf(m)' = RowsOf(m)
    BY <2>1 DEF RowsOf
  <2>4. ASSUME NEW i \in Invocations PROVE Tallied(i)'
    <3>1. Tallied(i)
      BY DEF Accounts
    <3>2. Tally(inv[i], RowsOf(inv[i].slot)) = Tally(inv[i], RowsOf(inv[i].slot))'
      BY <2>1, <2>3
    <3> QED
      BY <2>1, <3>1, <3>2 DEF Tallied, Active
  <2> QED
    BY <2>2, <2>4 DEF Accounts
<1>2. ASSUME NEW i \in Invocations, Triggers(i) \/ Handler(i) \/ Failures(i)
      PROVE  Accounts'
  <2>1. \A k \in Invocations : Tallied(k)'
    BY <1>2, OwnTally, OthersTally
  <2> QED
    BY <1>2, <2>1, OwnedOnceKept, UnclaimedEmptyKept, FinishedKept DEF Accounts
<1> QED
  BY <1>1, <1>2 DEF Next, Tick, SyncJob, vars

(* They hold before anything has run.                                      *)
LEMMA AccountsInit == Init => Accounts
<1> SUFFICES ASSUME Init PROVE Accounts
  OBVIOUS
<1>1. /\ \A i \in Invocations : inv[i] = Idle
      /\ \A m \in Minutes : runs[m].status = "none"
      /\ \A j \in Jobs, m \in Minutes : dispatches[j][m] = "none"
  BY DEF Init, NoMinuteRun
<1>2. \A i \in Invocations : /\ inv[i].pc = "idle" /\ inv[i].claimed = 0
                             /\ inv[i].dispatched = 0 /\ inv[i].failed = 0
  BY <1>1 DEF Idle
<1> QED
  BY <1>1, <1>2 DEF Accounts, UnclaimedEmpty, OwnedOnce, Owns, Tallied, Active,
     FinishedRunAccounts

-----------------------------------------------------------------------------
(***************************************************************************)
(* Theorems.                                                               *)
(***************************************************************************)

(* The counters of every run in progress are those of its dispatch rows,   *)
(* and no minute is run by two invocations.                                *)
THEOREM AccountsHold == Spec => []Accounts
<1>1. Init => Accounts
  BY AccountsInit
<1>2. IInv /\ Accounts /\ [Next]_vars => Accounts'
  BY AccountsStep
<1> QED
  BY <1>1, <1>2, EvidenceAlways, PTL DEF Spec

(* A finished run accounts for its dispatches: none is left in "claimed"   *)
(* and its counters are those of the rows.                                 *)
THEOREM FinishedAccounts == Spec => []FinishedRunAccounts
<1>1. Accounts => FinishedRunAccounts
  BY DEF Accounts
<1> QED
  BY <1>1, AccountsHold, PTL

-----------------------------------------------------------------------------
(***************************************************************************)
(* The cron expressions: sync_jobs.py and the Worker read them alike where *)
(* both can read the numbers, whatever numbers, steps and lists of         *)
(* weekdays an editor may write.                                           *)
(***************************************************************************)
Numbers == [n : Int, readers : SUBSET {Sync, Worker}]

(* The fields of a job are lists of tokens of their own field.             *)
FieldsOK == dom \in Seq(Tokens(DomNumbers)) /\ dow \in Seq(Tokens(DowNumbers))

LEMMA FieldsHold == ExpressionSpec => []FieldsOK
<1>1. InitialExpression => FieldsOK
  <2> SUFFICES ASSUME InitialExpression PROVE FieldsOK
    OBVIOUS
  <2>1. PICK t \in Tokens(DomNumbers) : dom = <<t>>
    BY DEF InitialExpression
  <2>2. PICK u \in Tokens(DowNumbers) : dow = <<u>>
    BY DEF InitialExpression
  <2> QED BY <2>1, <2>2 DEF FieldsOK
<1>2. FieldsOK /\ [EditExpression]_<<dom, dow>> => FieldsOK'
  <2> SUFFICES ASSUME FieldsOK, [EditExpression]_<<dom, dow>> PROVE FieldsOK'
    OBVIOUS
  <2>1. CASE EditExpression
    <3>1. PICK t \in Tokens(DowNumbers) : dow' = Append(dow, t)
      BY <2>1 DEF EditExpression
    <3>2. dow' \in Seq(Tokens(DowNumbers))
      BY <3>1 DEF FieldsOK
    <3> QED BY <2>1, <3>2 DEF FieldsOK, EditExpression
  <2>2. CASE UNCHANGED <<dom, dow>>
    BY <2>2 DEF FieldsOK
  <2> QED BY <2>1, <2>2
<1> QED BY <1>1, <1>2, PTL DEF ExpressionSpec

(* Of a token whose numbers both programs can read, or neither, the two    *)
(* ask the same, in either field.                                          *)
LEMMA SameToken ==
    ASSUME NEW values \in SUBSET Numbers, NEW token \in Tokens(values),
           NEW field \in {DomField, DowField}, ReadAlike(token)
    PROVE  SyncTokenAccepted(token, field) <=> TokenParses(token, field)
<1>1. field.min \in Int /\ field.max \in Int /\ field.min <= field.max
  BY DEF DomField, DowField
<1>2. (token.step = NoStep \/ (Sync \in token.step.readers /\ token.step.n > 0))
        <=> (token.step # NoStep => StepAdmitted(token.step))
  BY DEF ReadAlike, StepAdmitted
<1>3. token.shape # "*" => (SyncAdmits(token.lo, field) <=> AtomAdmitted(token.lo, field))
  <2> SUFFICES ASSUME token.shape # "*"
               PROVE SyncAdmits(token.lo, field) <=> AtomAdmitted(token.lo, field)
    OBVIOUS
  <2>1. token.lo.n \in Int
    BY DEF Tokens, Numbers
  <2>2. Sync \in token.lo.readers <=> Worker \in token.lo.readers
    BY DEF ReadAlike
  <2> QED BY <1>1, <2>1, <2>2 DEF SyncAdmits, AtomAdmitted
<1>4. token.shape = "range" => (SyncAdmits(token.hi, field) <=> AtomAdmitted(token.hi, field))
  <2> SUFFICES ASSUME token.shape = "range"
               PROVE SyncAdmits(token.hi, field) <=> AtomAdmitted(token.hi, field)
    OBVIOUS
  <2>1. token.hi.n \in Int
    BY DEF Tokens, Numbers
  <2>2. Sync \in token.hi.readers <=> Worker \in token.hi.readers
    BY DEF ReadAlike
  <2> QED BY <1>1, <2>1, <2>2 DEF SyncAdmits, AtomAdmitted
<1>5. CASE token.shape = "*"
  BY <1>1, <1>2, <1>5 DEF SyncTokenAccepted, TokenParses, RangeStart, RangeEnd
<1>6. CASE token.shape = "one"
  <2>1. token.lo.n \in Int
    BY <1>6 DEF Tokens, Numbers
  <2>2. RangeStart(token, field) <= RangeEnd(token, field)
    BY <1>6, <2>1 DEF RangeStart, RangeEnd, Atom, SundayIsZero
  <2> QED BY <1>2, <1>3, <1>6, <2>2 DEF SyncTokenAccepted, TokenParses
<1>7. CASE token.shape = "range"
  <2>1. /\ RangeStart(token, field) = SyncAtom(token.lo, field)
        /\ RangeEnd(token, field) = SyncAtom(token.hi, field)
    BY <1>7 DEF RangeStart, RangeEnd, Atom, SundayIsZero, SyncAtom
  <2> QED BY <1>2, <1>3, <1>4, <1>7, <2>1 DEF SyncTokenAccepted, TokenParses
<1> QED BY <1>5, <1>6, <1>7 DEF Tokens

(* The Worker's values of a token are the numbers the sync went through,   *)
(* a weekday 7 being a Sunday.                                             *)
LEMMA SameValues ==
    ASSUME NEW numbers, NEW token \in Tokens(numbers), NEW field
    PROVE  Values(token, field) = {SundayIsZero(m, field) : m \in SyncRange(token, field)}
<1>1. token.shape \in {"*", "one", "range"}
  BY DEF Tokens
<1>2. \A number : Atom(number, field) = SyncAtom(number, field)
  BY DEF Atom, SundayIsZero, SyncAtom
<1> DEFINE start == IF token.shape = "*" THEN field.min ELSE SyncAtom(token.lo, field)
           end == CASE token.shape = "*"     -> field.max
                    [] token.shape = "one"   -> start
                    [] token.shape = "range" -> SyncAtom(token.hi, field)
<1>3. RangeStart(token, field) = start
  BY <1>2 DEF RangeStart
<1>4. RangeEnd(token, field) = end
  BY <1>1, <1>2, <1>3 DEF RangeEnd
<1>5. SyncRange(token, field) = {m \in start .. end : (m - start) % Stride(token) = 0}
  BY DEF SyncRange
<1> HIDE DEF start, end
<1> QED BY <1>3, <1>4, <1>5 DEF Values

(* The days an expression runs on are those the sync has read in it.       *)
LEMMA DaysAreNamed ==
    ASSUME FieldsOK, NEW date \in Dates, NEW weekday \in 0 .. 6
    PROVE  DayMatches(date, weekday) <=>
                \/ Any(dom) /\ Any(dow)
                \/ ~Any(dom) /\ Named(dom, DomField, date)
                \/ ~Any(dow) /\ Named(dow, DowField, weekday)
<1>1. /\ TokensOf(dom) \subseteq Tokens(DomNumbers)
      /\ TokensOf(dow) \subseteq Tokens(DowNumbers)
  BY DEF FieldsOK, TokensOf
<1>2. FieldMatches(dom, DomField, date) <=> Any(dom) \/ Named(dom, DomField, date)
  BY <1>1, SameValues DEF FieldMatches, Named
<1>3. FieldMatches(dow, DowField, weekday) <=> Any(dow) \/ Named(dow, DowField, weekday)
  BY <1>1, SameValues DEF FieldMatches, Named
<1> QED BY <1>2, <1>3 DEF DayMatches

(* Of expressions whose numbers both programs read, sync_jobs.py accepts   *)
(* exactly those the Worker can run; and what both accept runs on the days *)
(* the sync has read in the restricted fields.                             *)
THEOREM SyncedRun == ExpressionSpec => []SyncedExpressionsRun
<1>1. FieldsOK => SyncedExpressionsRun
  <2> SUFFICES ASSUME FieldsOK PROVE SyncedExpressionsRun
    OBVIOUS
  <2>1. /\ TokensOf(dom) \subseteq Tokens(DomNumbers)
        /\ TokensOf(dow) \subseteq Tokens(DowNumbers)
    BY DEF FieldsOK, TokensOf
  <2>2. DomNumbers \in SUBSET Numbers /\ DowNumbers \in SUBSET Numbers
    BY NumbersAssumption DEF Numbers
  <2>3. ASSUME \A token \in TokensOf(dom) \cup TokensOf(dow) : ReadAlike(token)
        PROVE  SyncAccepts <=> WorkerParses
    <3>1. \A token \in TokensOf(dom) :
            SyncTokenAccepted(token, DomField) <=> TokenParses(token, DomField)
      BY <2>1, <2>2, <2>3, SameToken
    <3>2. \A token \in TokensOf(dow) :
            SyncTokenAccepted(token, DowField) <=> TokenParses(token, DowField)
      BY <2>1, <2>2, <2>3, SameToken
    <3> QED BY <3>1, <3>2 DEF SyncAccepts, WorkerParses, Parses
  <2> QED BY <2>3, DaysAreNamed DEF SyncedExpressionsRun
<1> QED BY <1>1, FieldsHold, PTL
=============================================================================
