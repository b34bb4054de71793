--------------------- MODULE PartitionMaintenanceProofs ---------------------
(***************************************************************************)
(* The safety of partition maintenance, for any number of instances, days, *)
(* rows and failures, and any settings of each instance.                   *)
(***************************************************************************)
EXTENDS PartitionMaintenanceInv, TLAPS

Phases == {"idle", "ensure", "list", "next", "head", "get", "rows", "drop", "count"}

Memory == [pc : Phases, cutoff : Int, ensured : SUBSET Days, todo : SUBSET Days,
           day : Days \cup {NoDay}, attempt : 1..RpcAttempts]

(* The memory of a run that has, or has not, a day in hand.                *)
Sound(me) ==
    /\ me \in Memory
    /\ me.day = NoDay <=> me.pc \in {"idle", "ensure", "list", "next"}
    /\ \A d \in me.todo : d < me.cutoff
    /\ me.day # NoDay => me.day < me.cutoff

LEMMA DaysAreNumbers == Days \subseteq Nat /\ NoDay \notin Days
BY SettingsAssumption DEF Days, NoDay

LEMMA IdleIsSound == Sound(Idle)
BY SettingsAssumption DEF Sound, Memory, Phases, Idle, NoDay

(* The tables and the history variables have their types.                  *)
TablesOK ==
    /\ today \in FirstDay..MaxDay
    /\ parts \subseteq Days /\ staleCounts \subseteq Days /\ archived \subseteq Days
    /\ rows \in [Days -> SUBSET Rows]
    /\ lost \in [Days -> SUBSET Rows] /\ unseen \in [Days -> SUBSET Rows]
    /\ manifest \in [Days -> {"none", "valid", "invalid"}]

RunsSound == DOMAIN run = Runs /\ run = [r \in Runs |-> run[r]]
             /\ \A r \in Runs : Sound(run[r])

(* The invariant by tables and runs, now and after a step.                 *)
LEMMA Parts ==
    /\ IInv <=> /\ TablesOK /\ RunsSound
                /\ ValidIsArchived /\ DropIsChecked /\ LossIsExplained
    /\ IInv' <=> /\ TablesOK' /\ RunsSound'
                 /\ ValidIsArchived' /\ DropIsChecked' /\ LossIsExplained'
BY DEF IInv, TypeOK, CutoffParts, TablesOK, RunsSound, Sound, Memory, Phases

LEMMA Start == Init => IInv
<1> SUFFICES ASSUME Init PROVE IInv
    OBVIOUS
<1>1. TablesOK
      BY SettingsAssumption DEF Init, TablesOK, Days
<1>2. RunsSound
      BY IdleIsSound DEF Init, RunsSound
<1> QED BY <1>1, <1>2, Parts
        DEF Init, ValidIsArchived, DropIsChecked, LossIsExplained, Idle

(* A step of one run leaves the others sound.                              *)
LEMMA OneRun ==
    ASSUME RunsSound, NEW r \in Runs, NEW me, Becomes(r, me), Sound(me)
    PROVE  /\ RunsSound'
           /\ run'[r] = me
           /\ \A s \in Runs \ {r} : run'[s] = run[s]
BY DEF RunsSound, Becomes

-----------------------------------------------------------------------------
(* Midnight, deliveries and manifests.                                     *)
LEMMA OutsideStep ==
    ASSUME IInv,
           \/ Midnight
           \/ \E d \in Days :
                \/ \E x \in Rows : Deliver(d, x)
                \/ PublishManifest(d) \/ WithdrawManifest(d)
    PROVE  IInv'
<1> USE Parts
<1>1. CASE Midnight
      <2>1. TablesOK'
            BY <1>1, SettingsAssumption DEF Midnight, TablesOK, db, r2, history
      <2> QED BY <1>1, <2>1 DEF Midnight, db, r2, history, RunsSound,
                 ValidIsArchived, DropIsChecked, LossIsExplained
<1>2. ASSUME NEW d \in Days, NEW x \in Rows, Deliver(d, x) PROVE IInv'
      <2>1. TablesOK'
            BY <1>2 DEF Deliver, TablesOK, r2
      <2>2. RunsSound' /\ ValidIsArchived'
            BY <1>2 DEF Deliver, r2, RunsSound, ValidIsArchived
      <2>3. DropIsChecked'
            BY <1>2 DEF Deliver, r2, DropIsChecked, TablesOK
      <2>4. LossIsExplained'
            BY <1>2 DEF Deliver, r2, LossIsExplained, TablesOK
      <2> QED BY <2>1, <2>2, <2>3, <2>4
<1>3. ASSUME NEW d \in Days, PublishManifest(d) \/ WithdrawManifest(d) PROVE IInv'
      <2>1. TablesOK'
            BY <1>3 DEF PublishManifest, WithdrawManifest, TablesOK, db, history
      <2>2. ValidIsArchived'
            BY <1>3 DEF PublishManifest, WithdrawManifest, TablesOK, ValidIsArchived
      <2> QED BY <1>3, <2>1, <2>2 DEF PublishManifest, WithdrawManifest, db, history,
                 RunsSound, DropIsChecked, LossIsExplained
<1> QED BY <1>1, <1>2, <1>3

(* A step of a run that touches no table.                                  *)
LEMMA QuietStep ==
    ASSUME IInv, NEW r \in Runs, NEW me, Becomes(r, me), Sound(me),
           me.pc = "drop" =>
               me.day \in archived \/ rows[me.day] \subseteq unseen[me.day],
           UNCHANGED <<today, parts, rows, manifest, archived, lost, unseen>>,
           staleCounts' \subseteq Days
    PROVE  IInv'
<1> USE Parts
<1>1. RunsSound' /\ run'[r] = me /\ \A s \in Runs \ {r} : run'[s] = run[s]
      BY OneRun
<1>2. TablesOK' /\ ValidIsArchived' /\ LossIsExplained'
      BY DEF TablesOK, ValidIsArchived, LossIsExplained
<1>3. DropIsChecked'
      BY <1>1 DEF DropIsChecked
<1> QED BY <1>1, <1>2, <1>3

(* The memory of a run at its start.                                       *)
LEMMA StartStep ==
    ASSUME IInv, NEW r \in Runs, StartRun(r)
    PROVE  IInv'
<1> USE Parts
<1> DEFINE cutoff == today - Retention[r]
           hotStart == today - (Hot[r] - 1)
           ensured == {d \in Days : d >= Least(hotStart, cutoff) /\ d <= today + Future}
           me == [Idle EXCEPT !.pc = "ensure", !.cutoff = cutoff, !.ensured = ensured]
<1>1. cutoff \in Int /\ ensured \subseteq Days
      BY SettingsAssumption DEF TablesOK
<1>3. /\ me.cutoff = cutoff /\ me.ensured = ensured /\ me.todo = {}
      /\ me.day = NoDay /\ me.pc = "ensure" /\ me \in Memory
      <2>1. cutoff \in Int /\ ensured \in SUBSET Days
            BY <1>1
      <2>2. Idle \in Memory /\ Idle.todo = {} /\ Idle.day = NoDay
            BY IdleIsSound DEF Sound, Idle
      <2> HIDE DEF cutoff, ensured
      <2> QED BY <2>1, <2>2 DEF Memory, Phases
<1>4. Sound(me)
      <2> HIDE DEF me, cutoff, ensured
      <2> QED BY <1>3 DEF Sound
<1>5. Becomes(r, me)
      BY DEF StartRun
<1> QED
    <2> HIDE DEF me
    <2>1. me.pc # "drop"
          BY <1>3
    <2>2. UNCHANGED <<today, parts, rows, manifest, archived, lost, unseen, staleCounts>>
          BY DEF StartRun, db, r2, history
    <2> QED BY <1>4, <1>5, <2>1, <2>2, QuietStep DEF TablesOK

-----------------------------------------------------------------------------
(* The memory of a run that goes on, with or without a day in hand.        *)
LEMMA GoesOn ==
    ASSUME NEW me, Sound(me),
           NEW pc \in Phases,
           me.day = NoDay <=> pc \in {"idle", "ensure", "list", "next"}
    PROVE  /\ Sound([me EXCEPT !.pc = pc])
           /\ [me EXCEPT !.pc = pc].pc = pc
           /\ [me EXCEPT !.pc = pc].day = me.day
BY DEF Sound, Memory

LEMMA SkippedIsSound ==
    ASSUME NEW r \in Runs, Sound(run[r])
    PROVE  Sound(Skipped(r)) /\ Skipped(r).pc = "next"
BY DaysAreNumbers DEF Sound, Memory, Phases, Skipped

(* Steps that list and pick candidates.                                    *)
LEMMA CandidateStep ==
    ASSUME IInv, NEW r \in Runs,
           EnsurePartitions(r) \/ ListCandidates(r) \/ NextCandidate(r) \/ FinishRun(r)
    PROVE  IInv'
<1> USE Parts
<1>1. Sound(run[r]) /\ run[r].ensured \subseteq Days
      BY DEF RunsSound, Sound, Memory
<1>2. CASE EnsurePartitions(r)
      <2> DEFINE me == [run[r] EXCEPT !.pc = "list"]
      <2>1. Sound(me) /\ me.pc = "list"
            BY <1>1, <1>2, GoesOn DEF EnsurePartitions, At, Phases, Sound
      <2>2. Becomes(r, me)
            BY <1>2 DEF EnsurePartitions
      <2>3. RunsSound' /\ DropIsChecked'
            <3> HIDE DEF me
            <3> QED BY <1>2, <2>1, <2>2, OneRun
                    DEF EnsurePartitions, r2, history, DropIsChecked
      <2> QED BY <1>1, <1>2, <2>3 DEF EnsurePartitions, r2, history,
                 TablesOK, ValidIsArchived, LossIsExplained
<1>3. CASE ListCandidates(r)
      <2> DEFINE me == IF DryRun[r] THEN Idle
                       ELSE [run[r] EXCEPT !.pc = "next",
                                           !.todo = DropCandidates(run[r].cutoff)]
      <2>1. Sound(me) /\ me.pc # "drop"
            BY <1>1, <1>3, IdleIsSound
               DEF ListCandidates, At, Sound, Memory, Phases, DropCandidates, TablesOK, Idle
      <2>2. Becomes(r, me)
            BY <1>3 DEF ListCandidates
      <2> HIDE DEF me
      <2> QED BY <1>3, <2>1, <2>2, QuietStep
              DEF ListCandidates, db, r2, history, TablesOK
<1>4. CASE NextCandidate(r)
      <2>1. PICK d \in run[r].todo :
                Becomes(r, [run[r] EXCEPT !.pc = "head", !.day = d, !.attempt = 1,
                                          !.todo = @ \ {d}])
            BY <1>4 DEF NextCandidate
      <2> DEFINE me == [run[r] EXCEPT !.pc = "head", !.day = d, !.attempt = 1,
                                      !.todo = @ \ {d}]
      <2>2. d \in Days /\ d # NoDay /\ d < run[r].cutoff /\ 1 \in 1..RpcAttempts
            BY <1>1, DaysAreNumbers, SettingsAssumption DEF Sound, Memory
      <2>3. /\ me \in Memory /\ me.pc = "head" /\ me.day = d
            /\ me.todo \subseteq run[r].todo
            /\ me.ensured = run[r].ensured /\ me.cutoff = run[r].cutoff
            BY <1>1, <2>2 DEF Sound, Memory, Phases
      <2>4. Sound(me)
            <3> HIDE DEF me
            <3> QED BY <1>1, <2>2, <2>3 DEF Sound
      <2>5. Becomes(r, me)
            BY <2>1
      <2> HIDE DEF me
      <2> QED BY <1>4, <2>3, <2>4, <2>5, QuietStep
              DEF NextCandidate, db, r2, history, TablesOK
<1>5. CASE FinishRun(r)
      <2>1. Idle.pc = "idle" /\ Becomes(r, Idle)
            BY <1>5 DEF Idle, FinishRun
      <2> QED BY <1>5, <2>1, IdleIsSound, QuietStep
              DEF FinishRun, db, r2, history, TablesOK
<1> QED BY <1>2, <1>3, <1>4, <1>5

(* Looking at the day: only a manifest that validates, or an empty day,    *)
(* lets its partition go.                                                  *)
LEMMA CheckStep ==
    ASSUME IInv, NEW r \in Runs,
           \/ HeadManifest(r) \/ GetManifest(r) \/ ManifestUnread(r)
           \/ DayHasRows(r) \/ RowsUnchecked(r)
    PROVE  IInv'
<1> USE Parts
<1> DEFINE d == run[r].day
<1>1. Sound(run[r]) /\ run[r].pc \in {"head", "get", "rows"} /\ d \in Days
      BY DEF RunsSound, HeadManifest, GetManifest, ManifestUnread, DayHasRows,
             RowsUnchecked, At, Sound, Memory
<1>2. UNCHANGED <<today, parts, rows, manifest, archived, lost, unseen>>
      /\ staleCounts' \subseteq Days
      BY DEF HeadManifest, GetManifest, ManifestUnread, DayHasRows, RowsUnchecked,
             db, r2, history, TablesOK
<1>3. PICK pc \in {"get", "rows", "drop"} :
          /\ Becomes(r, [run[r] EXCEPT !.pc = pc]) \/ Becomes(r, Skipped(r))
          /\ pc = "drop" => d \in archived \/ rows[d] \subseteq unseen[d]
      <2>1. CASE HeadManifest(r)
            BY <2>1 DEF HeadManifest
      <2>2. CASE GetManifest(r)
            BY <1>1, <2>2 DEF GetManifest, ValidIsArchived
      <2>3. CASE ManifestUnread(r)
            BY <2>3 DEF ManifestUnread
      <2>4. CASE DayHasRows(r)
            BY <2>4 DEF DayHasRows
      <2>5. CASE RowsUnchecked(r)
            BY <2>5 DEF RowsUnchecked
      <2> QED BY <2>1, <2>2, <2>3, <2>4, <2>5
<1>4. CASE Becomes(r, Skipped(r))
      BY <1>1, <1>2, <1>4, SkippedIsSound, QuietStep
<1>5. CASE Becomes(r, [run[r] EXCEPT !.pc = pc])
      <2> DEFINE me == [run[r] EXCEPT !.pc = pc]
      <2>1. pc \in Phases /\ pc \notin {"idle", "ensure", "list", "next"}
            BY DEF Phases
      <2>2. d # NoDay
            BY <1>1, DaysAreNumbers
      <2>3. Sound(me) /\ me.pc = pc /\ me.day = d
            BY <1>1, <2>1, <2>2, GoesOn
      <2> HIDE DEF me
      <2> QED BY <1>2, <1>3, <1>5, <2>3, QuietStep DEF me
<1> QED BY <1>3, <1>4, <1>5

(* An answer misread: what the run will drop it has not seen.              *)
LEMMA MisreadStep ==
    ASSUME IInv, NEW r \in Runs, AnswerMisread(r)
    PROVE  IInv'
<1> USE Parts
<1> DEFINE d == run[r].day
           me == [run[r] EXCEPT !.pc = "drop"]
<1>1. Sound(run[r]) /\ run[r].pc = "rows" /\ d \in Days
      BY DEF RunsSound, AnswerMisread, At, Sound, Memory
<1>2. Sound(me) /\ me.day = d
      BY <1>1, DaysAreNumbers, GoesOn DEF Phases
<1>3. Becomes(r, me)
      BY DEF AnswerMisread
<1> HIDE DEF me
<1>4. RunsSound' /\ run'[r] = me /\ \A s \in Runs \ {r} : run'[s] = run[s]
      BY <1>2, <1>3, OneRun
<1>5. /\ \A e \in Days : unseen[e] \subseteq unseen'[e]
      /\ rows[d] \subseteq unseen'[d]
      BY <1>1 DEF AnswerMisread, TablesOK
<1>6. TablesOK'
      BY <1>1 DEF AnswerMisread, TablesOK, db, r2
<1>7. ValidIsArchived' /\ LossIsExplained'
      BY <1>5 DEF AnswerMisread, ValidIsArchived, LossIsExplained, db, r2
<1>8. \A s \in Runs : run[s].pc = "drop" => run[s].day \in Days
      BY DEF RunsSound, Sound, Memory
<1>9. DropIsChecked'
      BY <1>1, <1>2, <1>4, <1>5, <1>8 DEF AnswerMisread, DropIsChecked, db, r2
<1> QED BY <1>4, <1>6, <1>7, <1>9

(* A drop, answered or not.                                                *)
LEMMA DropEffect ==
    ASSUME IInv, NEW r \in Runs, At(r, "drop"), Drop(run[r].day),
           NEW me, Becomes(r, me), Sound(me), me.pc # "drop",
           UNCHANGED <<today, manifest, archived, unseen>>
    PROVE  IInv'
<1> USE Parts
<1> DEFINE d == run[r].day
<1>1. d \in Days
      BY DEF RunsSound, Sound, Memory, At
<1>2. TablesOK'
      BY <1>1 DEF Drop, TablesOK
<1>3. RunsSound' /\ \A s \in Runs : run'[s].pc = "drop" => run'[s] = run[s]
      BY OneRun
<1>4. \A s \in Runs : run[s].pc = "drop" => run[s].day \in Days
      BY DEF RunsSound, Sound, Memory
<1>5. \A e \in Days : rows'[e] \subseteq rows[e]
      BY <1>1 DEF Drop, TablesOK
<1>6. DropIsChecked'
      BY <1>3, <1>4, <1>5 DEF DropIsChecked
<1>7. LossIsExplained'
      <2>1. d \in archived \/ rows[d] \subseteq unseen[d]
            BY DEF At, DropIsChecked
      <2> QED BY <1>1, <2>1 DEF Drop, LossIsExplained, TablesOK
<1>8. ValidIsArchived'
      BY DEF ValidIsArchived
<1> QED BY <1>2, <1>3, <1>6, <1>7, <1>8

LEMMA DropStep ==
    ASSUME IInv, NEW r \in Runs,
           DropPartition(r) \/ RetryDrop(r) \/ DropAnswerLost(r)
    PROVE  IInv'
<1> USE Parts
<1>1. Sound(run[r]) /\ At(r, "drop")
      BY DEF RunsSound, DropPartition, RetryDrop, DropAnswerLost
<1>2. Sound(Skipped(r)) /\ Skipped(r).pc # "drop"
      BY <1>1, SkippedIsSound
<1>3. Sound([run[r] EXCEPT !.pc = "count"]) /\ [run[r] EXCEPT !.pc = "count"].pc # "drop"
      BY <1>1, GoesOn DEF At, Phases, Sound
<1>4. CASE DropPartition(r) /\ run[r].day \in parts
      BY <1>1, <1>3, <1>4, DropEffect DEF DropPartition, r2
<1>5. CASE DropPartition(r) /\ run[r].day \notin parts
      BY <1>2, <1>5, QuietStep DEF DropPartition, r2, db, TablesOK
<1>6. CASE RetryDrop(r)
      <2> DEFINE me == [run[r] EXCEPT !.attempt = @ + 1]
      <2>1. Sound(me) /\ me.day = run[r].day
            BY <1>1, <1>6, SettingsAssumption DEF RetryDrop, Sound, Memory
      <2>2. me.day \in archived \/ rows[me.day] \subseteq unseen[me.day]
            BY <1>1, <2>1 DEF At, DropIsChecked
      <2>3. Becomes(r, me)
            BY <1>6 DEF RetryDrop
      <2> HIDE DEF me
      <2> QED BY <1>6, <2>1, <2>2, <2>3, QuietStep
              DEF RetryDrop, db, r2, history, TablesOK
<1>7. CASE DropAnswerLost(r)
      <2>1. Idle.pc # "drop"
            BY DEF Idle
      <2>2. CASE Becomes(r, Idle)
            BY <1>1, <1>7, <2>1, <2>2, IdleIsSound, DropEffect DEF DropAnswerLost, r2
      <2>3. CASE Becomes(r, Skipped(r))
            BY <1>1, <1>2, <1>7, <2>3, DropEffect DEF DropAnswerLost, r2
      <2> QED BY <1>7, <2>2, <2>3 DEF DropAnswerLost
<1> QED BY <1>4, <1>5, <1>6, <1>7

(* The day's count, and the end of a run that dies.                        *)
LEMMA AfterStep ==
    ASSUME IInv, NEW r \in Runs,
           DeleteDayCount(r) \/ DayCountKept(r) \/ RunDies(r)
    PROVE  IInv'
<1> USE Parts
<1>1. Sound(run[r])
      BY DEF RunsSound
<1>2. Sound(Skipped(r)) /\ Skipped(r).pc # "drop"
      BY <1>1, SkippedIsSound
<1>3. Sound(Idle) /\ Idle.pc # "drop"
      BY IdleIsSound DEF Idle
<1>4. UNCHANGED <<today, parts, rows, manifest, archived, lost, unseen>>
      /\ staleCounts' \subseteq Days
      BY DEF DeleteDayCount, DayCountKept, RunDies, db, r2, history, TablesOK
<1>5. Becomes(r, Skipped(r)) \/ Becomes(r, Idle)
      BY DEF DeleteDayCount, DayCountKept, RunDies
<1> QED BY <1>2, <1>3, <1>4, <1>5, QuietStep

-----------------------------------------------------------------------------
LEMMA EveryStep == IInv /\ [Next]_vars => IInv'
<1> SUFFICES ASSUME IInv, [Next]_vars PROVE IInv'
    OBVIOUS
<1>1. CASE UNCHANGED vars
      BY <1>1 DEF vars, db, r2, history, IInv, TypeOK, ValidIsArchived,
                  DropIsChecked, CutoffParts, LossIsExplained
<1>2. CASE Midnight \/ \E d \in Days :
                \/ \E x \in Rows : Deliver(d, x)
                \/ PublishManifest(d) \/ WithdrawManifest(d)
      BY <1>2, OutsideStep
<1>3. ASSUME NEW r \in Runs, StartRun(r) PROVE IInv'
      BY <1>3, StartStep
<1>4. ASSUME NEW r \in Runs, RunStep(r) \/ RunFault(r) PROVE IInv'
      BY <1>4, CandidateStep, CheckStep, MisreadStep, DropStep, AfterStep DEF RunStep, RunFault
<1> QED BY <1>1, <1>2, <1>3, <1>4 DEF Next

(* Tables, manifests and the memory of every run stay in step.             *)
THEOREM MaintenanceInvariant == Spec => []IInv
<1>1. Init => IInv
      BY Start
<1> QED BY <1>1, EveryStep, PTL DEF Spec

(* Every variable of the service keeps its type, and a run has a day in    *)
(* hand exactly while it works on one.                                     *)
THEOREM MaintenanceTypeCorrect == Spec => []TypeOK
<1>1. IInv => TypeOK
      BY DEF IInv
<1> QED BY <1>1, MaintenanceInvariant, PTL

(* No partition goes with rows that R2 never held, but for those the check *)
(* of the day did not see: delivered after it, or behind a misread answer. *)
THEOREM LossesAreExplained == Spec => []LossIsExplained
<1>1. IInv => LossIsExplained
      BY DEF IInv
<1> QED BY <1>1, MaintenanceInvariant, PTL

-----------------------------------------------------------------------------
(* What a step makes of a run's windows: it starts with new ones, keeps    *)
(* them, or has none.                                                      *)
KeepsWindows(r) ==
    /\ run[r].pc # "idle"
    /\ run'[r].cutoff = run[r].cutoff /\ run'[r].ensured = run[r].ensured
    /\ run'[r].pc # "ensure" /\ run[r].pc = "ensure" => EnsurePartitions(r)

LEMMA Windows ==
    ASSUME IInv, NEW r \in Runs, NEW s \in Runs, RunStep(r) \/ RunFault(r)
    PROVE  run'[s].pc = "idle" \/ KeepsWindows(s) \/ run'[s] = run[s]
<1>1. Sound(run[r]) /\ DOMAIN run = Runs
      BY Parts DEF RunsSound
<1>2. run[r].pc # "idle"
      BY DEF RunStep, RunFault, EnsurePartitions, ListCandidates, NextCandidate,
             FinishRun, HeadManifest, GetManifest, DayHasRows, DropPartition,
             DeleteDayCount, ManifestUnread, AnswerMisread, RowsUnchecked,
             RetryDrop, DropAnswerLost, DayCountKept, RunDies, At
<1>3. PICK me : Becomes(r, me)
      BY DEF RunStep, RunFault, EnsurePartitions, ListCandidates, NextCandidate,
             FinishRun, HeadManifest, GetManifest, DayHasRows, DropPartition,
             DeleteDayCount, ManifestUnread, AnswerMisread, RowsUnchecked,
             RetryDrop, DropAnswerLost, DayCountKept, RunDies
<1>4. s # r => run'[s] = run[s]
      BY <1>1, <1>3 DEF Becomes
<1>5. run'[r].pc = "idle" \/ KeepsWindows(r)
      <2>1. run[r] \in Memory /\ Idle.pc = "idle"
            BY <1>1 DEF Sound, Idle
      <2>2. CASE EnsurePartitions(r)
            BY <1>1, <1>2, <2>1, <2>2 DEF EnsurePartitions, KeepsWindows, Becomes, Memory
      <2>3. CASE ListCandidates(r) \/ NextCandidate(r) \/ FinishRun(r)
            BY <1>1, <1>2, <2>1, <2>3 DEF ListCandidates, NextCandidate, FinishRun, At,
               KeepsWindows, Becomes, Memory
      <2>4. CASE HeadManifest(r) \/ GetManifest(r)
            BY <1>1, <1>2, <2>1, <2>4 DEF HeadManifest, GetManifest,
               At, KeepsWindows, Becomes, Memory
      <2>7. CASE DayHasRows(r)
            BY <1>1, <1>2, <2>1, <2>7 DEF DayHasRows, Skipped,
               At, KeepsWindows, Becomes, Memory
      <2>9. CASE DropPartition(r)
            <3>1. \/ Becomes(r, [run[r] EXCEPT !.pc = "count"])
                  \/ Becomes(r, Skipped(r))
                  BY <2>9 DEF DropPartition
            <3>2. run[r].pc = "drop"
                  BY <2>9 DEF DropPartition, At
            <3> QED BY <1>1, <1>2, <2>1, <3>1, <3>2 DEF Skipped, KeepsWindows, Becomes, Memory
      <2>5. CASE DeleteDayCount(r) \/ ManifestUnread(r)
            BY <1>1, <1>2, <2>1, <2>5 DEF DeleteDayCount, ManifestUnread, Skipped,
               At, KeepsWindows, Becomes, Memory
      <2>8. CASE AnswerMisread(r) \/ RowsUnchecked(r)
            BY <1>1, <1>2, <2>1, <2>8 DEF AnswerMisread, RowsUnchecked, Skipped,
               At, KeepsWindows, Becomes, Memory
      <2>6. CASE RetryDrop(r) \/ DropAnswerLost(r) \/ DayCountKept(r) \/ RunDies(r)
            BY <1>1, <1>2, <2>1, <2>6 DEF RetryDrop, DropAnswerLost, DayCountKept,
               RunDies, Skipped, At, KeepsWindows, Becomes, Memory
      <2> QED BY <2>2, <2>3, <2>4, <2>5, <2>6, <2>7, <2>8, <2>9 DEF RunStep, RunFault
<1> QED BY <1>4, <1>5

(* A partition goes only in the hand of a run that drops it.               *)
LEMMA GoingPartition ==
    ASSUME IInv, [Next]_vars, NEW d \in parts \ parts'
    PROVE  \E r \in Runs : /\ run[r].pc = "drop" /\ run[r].day = d
                          /\ run[r].day # NoDay /\ d < run[r].cutoff
<1>1. PICK r \in Runs : At(r, "drop") /\ Drop(run[r].day)
      BY DEF Next, vars, db, Midnight, Deliver, PublishManifest, WithdrawManifest,
             StartRun, RunStep, RunFault, EnsurePartitions, ListCandidates,
             NextCandidate, FinishRun, HeadManifest, GetManifest, DayHasRows,
             DropPartition, DeleteDayCount, ManifestUnread, AnswerMisread,
             RowsUnchecked, RetryDrop, DropAnswerLost, DayCountKept, RunDies
<1>2. run[r].pc = "drop" /\ run[r].day = d
      BY <1>1 DEF At, Drop
<1>3. run[r].day # NoDay
      BY <1>2 DEF IInv, TypeOK
<1> QED BY <1>2, <1>3 DEF IInv, CutoffParts

(* The day turns, or not.                                                  *)
LEMMA ClockStep == [Next]_vars => today' = today \/ today' = today + 1
BY DEF Next, vars, Midnight, Deliver, PublishManifest, WithdrawManifest,
       StartRun, RunStep, RunFault, EnsurePartitions, ListCandidates,
       NextCandidate, FinishRun, HeadManifest, GetManifest, DayHasRows,
       DropPartition, DeleteDayCount, ManifestUnread, AnswerMisread,
       RowsUnchecked, RetryDrop, DropAnswerLost, DayCountKept, RunDies

(* The clock of a run stands still while the day may turn.                 *)
LEMMA WindowsStep ==
    ASSUME IInv, WindowsStand, [Next]_vars
    PROVE  WindowsStand'
<1> SUFFICES ASSUME NEW s \in Runs, run'[s].pc # "idle"
             PROVE  /\ run'[s].cutoff <= today' - Retention[s]
                    /\ \A d \in Days : /\ d >= run'[s].cutoff
                                       /\ d <= run'[s].cutoff + Retention[s] + Future
                                       => d \in run'[s].ensured
    BY DEF WindowsStand
<1>1. /\ today \in Int /\ today' \in Int /\ today <= today'
      /\ Retention[s] \in Int /\ run[s].cutoff \in Int
      <2>1. today \in Int /\ Retention[s] \in Int /\ run[s].cutoff \in Int
            BY SettingsAssumption DEF IInv, TypeOK
      <2>2. today' = today \/ today' = today + 1
            BY ClockStep
      <2> QED BY <2>1, <2>2
<1>2. CASE StartRun(s)
      <2> DEFINE cutoff == today - Retention[s]
                 hotStart == today - (Hot[s] - 1)
                 ensured == {d \in Days : d >= Least(hotStart, cutoff) /\ d <= today + Future}
      <2>1. run'[s] = [Idle EXCEPT !.pc = "ensure", !.cutoff = cutoff, !.ensured = ensured]
            BY <1>2 DEF StartRun, Becomes, IInv, TypeOK
      <2>2. run'[s].cutoff = cutoff /\ run'[s].ensured = ensured
            <3> HIDE DEF cutoff, ensured
            <3> QED BY <2>1 DEF Idle
      <2>3. /\ hotStart \in Int /\ Future \in Int
            /\ cutoff \in Int /\ Least(hotStart, cutoff) <= cutoff
            BY <1>1, SettingsAssumption DEF Least
      <2>4. cutoff + Retention[s] + Future = today + Future
            BY <1>1, <2>3
      <2>5. \A d \in Days : d >= cutoff => d >= Least(hotStart, cutoff)
            <3> DEFINE least == Least(hotStart, cutoff)
            <3>1. least \in Int
                  BY <2>3 DEF Least
            <3>2. \A d \in Days : d \in Int
                  BY DaysAreNumbers
            <3> HIDE DEF least
            <3> DEFINE floor == cutoff
            <3>3. floor \in Int /\ least <= floor
                  BY <2>3 DEF least
            <3> HIDE DEF floor
            <3>4. \A d \in Days : d >= floor => d >= least
                  BY <3>1, <3>2, <3>3
            <3> QED BY <3>4 DEF least, floor
      <2> HIDE DEF hotStart
      <2> QED BY <1>1, <2>2, <2>4, <2>5
<1>3. CASE run[s].pc # "idle" /\ run'[s].cutoff = run[s].cutoff
           /\ run'[s].ensured = run[s].ensured
      <2>1. run[s].cutoff <= today - Retention[s]
            BY <1>3 DEF WindowsStand
      <2>2. run[s].cutoff <= today' - Retention[s]
            BY <1>1, <2>1
      <2> QED BY <1>3, <2>2 DEF WindowsStand
<1>4. CASE ~ StartRun(s)
      <2>1. run'[s] = run[s] \/ KeepsWindows(s)
            <3>1. CASE \E r \in Runs : RunStep(r) \/ RunFault(r)
                  BY <3>1, Windows
            <3>2. CASE \E r \in Runs \ {s} : StartRun(r)
                  BY <3>2 DEF StartRun, Becomes, IInv, TypeOK
            <3>3. CASE run' = run
                  BY <3>3
            <3> QED BY <1>4, <3>1, <3>2, <3>3
                    DEF Next, vars, Midnight, Deliver, PublishManifest, WithdrawManifest
      <2> QED BY <1>3, <2>1 DEF KeepsWindows
<1> QED BY <1>2, <1>4

LEMMA NotBefore ==
    ASSUME NEW d \in Int, NEW cutoff \in Int, NEW kept \in Int,
           d < cutoff, cutoff <= kept
    PROVE  ~ (d >= kept)
OBVIOUS

(* Days all instances retain are after every cutoff: their partitions,     *)
(* once ensured, stay.                                                     *)
LEMMA RetainedStep ==
    ASSUME IInv, RetentionInv, [Next]_vars
    PROVE  RetainedDaysHavePartitions'
<1> SUFFICES ASSUME NEW s \in Runs, NEW d \in Days,
                    run'[s].pc \notin {"idle", "ensure"},
                    d <= run'[s].cutoff + Retention[s] + Future,
                    \A t \in Runs : d >= today' - Retention[t]
             PROVE  d \in parts'
    BY DEF RetainedDaysHavePartitions
<1>1. /\ today \in Int /\ today' \in Int /\ today <= today' /\ d \in Int
      /\ \A t \in Runs : Retention[t] \in Int /\ run[t].cutoff \in Int
      <2>1. today \in Int /\ d \in Int
            /\ \A t \in Runs : Retention[t] \in Int /\ run[t].cutoff \in Int
            BY SettingsAssumption, DaysAreNumbers DEF IInv, TypeOK
      <2>2. today' = today \/ today' = today + 1
            BY ClockStep
      <2> QED BY <2>1, <2>2
<1>2. \A t \in Runs : d >= today - Retention[t]
      BY <1>1
<1>3. d \notin parts \ parts'
      <2> SUFFICES ASSUME d \in parts \ parts' PROVE FALSE
          OBVIOUS
      <2>1. PICK r \in Runs : run[r].pc = "drop" /\ d < run[r].cutoff
            BY GoingPartition
      <2>2. run[r].cutoff <= today - Retention[r]
            BY <2>1 DEF RetentionInv, WindowsStand
      <2>3. /\ today \in Int /\ d \in Int /\ d >= today - Retention[r]
            /\ Retention[r] \in Int /\ run[r].cutoff \in Int
            BY <1>1, <1>2
      <2>4. today - Retention[r] \in Int
            BY <2>3
      <2> QED
          <3> DEFINE kept == today - Retention[r]
                     cutoff == run[r].cutoff
          <3>1. d \in Int /\ cutoff \in Int /\ kept \in Int
                BY <2>3, <2>4
          <3>2. d < cutoff /\ cutoff <= kept /\ d >= kept
                BY <2>1, <2>2, <2>3
          <3> HIDE DEF kept, cutoff
          <3> QED BY <3>1, <3>2, NotBefore
<1>4. ~ StartRun(s)
      <2> SUFFICES ASSUME StartRun(s) PROVE FALSE
          OBVIOUS
      <2>1. PICK cutoff, ensured :
                Becomes(s, [Idle EXCEPT !.pc = "ensure", !.cutoff = cutoff,
                                        !.ensured = ensured])
            BY DEF StartRun
      <2>2. [Idle EXCEPT !.pc = "ensure", !.cutoff = cutoff,
                         !.ensured = ensured].pc = "ensure"
            BY DEF Idle
      <2>3. DOMAIN run = Runs
            BY DEF IInv, TypeOK
      <2> QED BY <2>1, <2>2, <2>3 DEF Becomes
<1>5. CASE EnsurePartitions(s)
      <2>1. run[s].pc = "ensure" /\ run'[s].cutoff = run[s].cutoff
            /\ parts' = parts \cup run[s].ensured
            BY <1>5 DEF EnsurePartitions, At, Becomes, IInv, TypeOK
      <2>2. run[s].cutoff <= today - Retention[s]
            BY <2>1 DEF RetentionInv, WindowsStand
      <2>3. d >= run[s].cutoff
            BY <1>1, <1>2, <2>2
      <2> QED BY <2>1, <2>3 DEF RetentionInv, WindowsStand
<1>6. CASE ~ EnsurePartitions(s)
      <2>1. run'[s] = run[s] \/ KeepsWindows(s)
            <3>1. CASE \E r \in Runs : RunStep(r) \/ RunFault(r)
                  BY <3>1, Windows
            <3>2. CASE \E r \in Runs \ {s} : StartRun(r)
                  BY <3>2 DEF StartRun, Becomes, IInv, TypeOK
            <3>3. CASE run' = run
                  BY <3>3
            <3> QED BY <1>4, <3>1, <3>2, <3>3
                    DEF Next, vars, Midnight, Deliver, PublishManifest, WithdrawManifest
      <2>2. run[s].pc \notin {"idle", "ensure"} /\ run'[s].cutoff = run[s].cutoff
            BY <1>6, <2>1 DEF KeepsWindows
      <2>3. d \in parts
            BY <1>2, <2>2 DEF RetentionInv, RetainedDaysHavePartitions
      <2> QED BY <1>3, <2>3
<1> QED BY <1>5, <1>6

(* Every day that all instances retain has its partition from the moment a *)
(* run has seen to the partitions until it ends, whatever other runs drop, *)
(* over midnight, and for any settings of each instance.                   *)
THEOREM RetainedDaysStay == Spec => []RetainedDaysHavePartitions
<1>1. Init => RetentionInv
      BY DEF Init, Idle, RetentionInv, WindowsStand, RetainedDaysHavePartitions
<1>2. IInv /\ RetentionInv /\ [Next]_vars => RetentionInv'
      BY WindowsStep, RetainedStep DEF RetentionInv
<1>3. RetentionInv => RetainedDaysHavePartitions
      BY DEF RetentionInv
<1> QED BY <1>1, <1>2, <1>3, MaintenanceInvariant, PTL DEF Spec
=============================================================================
