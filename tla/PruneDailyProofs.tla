-------------------------- MODULE PruneDailyProofs --------------------------
(***************************************************************************)
(* Theorems about PruneDaily, for every set of connector-days, keys and    *)
(* values, every agenda and every bound.                                   *)
(***************************************************************************)
EXTENDS PruneDailyInv, FiniteSetTheorems, WellFoundedInduction, TLAPS

-----------------------------------------------------------------------------
(***************************************************************************)
(* The operators on rows and contents.                                     *)
(***************************************************************************)

(* The worker's order has a first element in every nonempty set.           *)
LEMMA FirstIsMember ==
    ASSUME NEW S, S \subseteq ConnectorDays, S # {}
    PROVE  First(S) \in S
<1> DEFINE T == {Order[c] : c \in S}
<1> DEFINE R == {ss \in Nat \X Nat : ss[1] < ss[2]}
<1>1. T \subseteq Nat /\ T # {}
  BY OrderAssumption
<1>2. IsWellFoundedOn(R, Nat)
  BY NatLessThanWellFounded DEF OpToRel
<1>3. PICK x \in T : \A y \in T : ~(<<y, x>> \in R)
  <2> HIDE DEF R, T
  <2> QED
    BY <1>1, <1>2, WFMin
<1>4. \A y \in T : x <= y
  <2> SUFFICES ASSUME NEW y \in T PROVE x <= y
    OBVIOUS
  <2>1. x \in Nat /\ y \in Nat
    BY <1>1
  <2>2. ~(<<y, x>> \in R)
    BY <1>3
  <2>3. ~(y < x)
    BY <2>1, <2>2
  <2> QED
    BY <2>1, <2>3
<1>5. PICK c \in S : \A d \in S : Order[c] <= Order[d]
  BY <1>4
<1> QED
  BY <1>5 DEF First

(* The rows of a connector-day are finitely many and aggregate to numbers. *)
LEMMA AggregateType ==
    ASSUME NEW content \in Contents
    PROVE  /\ Cardinality(Rows(content)) \in Nat
           /\ Aggregate(content) \in [n : Nat, lo : SUBSET Nat, hi : SUBSET Nat]
<1>1. Cardinality(Rows(content)) \in Nat
  BY KeysAssumption, FS_Subset, FS_CardinalityType DEF Rows
<1>2. {Time[k] : k \in Rows(content)} \subseteq Nat
  BY TimeAssumption DEF Rows
<1> QED
  BY <1>1, <1>2 DEF Aggregate

(* The absence of content is no content.                                   *)
LEMMA NoContentIsNone == NoContent \notin Contents
  BY NoContentAssumption DEF Contents

(* A connector-day without rows is a content.                              *)
LEMMA EmptyType == Empty \in Contents
  BY DEF Empty, Contents

(* Updates of a connector-day's rows.                                      *)
LEMMA ContentUpdates ==
    \A a \in Contents :
      /\ \A k \in Keys : a[k] \in Values \cup {NoRow}
      /\ \A k \in Keys, v \in Values \cup {NoRow} :
           [a EXCEPT ![k] = v] \in Contents
  BY DEF Contents

(* Every update of a candidate row yields a candidate row.                 *)
LEMMA CandidateUpdates ==
    \A row \in Candidates :
      /\ \A content \in Contents :
           Populated(row, Aggregate(content)) \in Candidates
      /\ \A r \in Nat :
           /\ InProgress(row, r) \in Candidates
           /\ StoppedForBudget(row, r) \in Candidates
           /\ \A content \in ContentOrNone :
                Completed(row, r, content) \in Candidates
           /\ \A e \in Markers : Failed(row, r, e) \in Candidates
      /\ Invalidated(row) \in Candidates
      /\ BlockedWithoutProof(row) \in Candidates
      /\ Consumed(row) \in Candidates
<1>1. ASSUME NEW row \in Candidates, NEW content \in Contents
      PROVE  Populated(row, Aggregate(content)) \in Candidates
  BY AggregateType DEF Populated, Candidates, Statuses, Markers, NoRun
<1>2. ASSUME NEW row \in Candidates, NEW r \in Nat
      PROVE  /\ InProgress(row, r) \in Candidates
             /\ StoppedForBudget(row, r) \in Candidates
             /\ \A content \in ContentOrNone :
                  Completed(row, r, content) \in Candidates
             /\ \A e \in Markers : Failed(row, r, e) \in Candidates
  BY DEF Candidates, Statuses, Markers, InProgress, StoppedForBudget,
      Completed, Failed, ContentOrNone
<1>3. ASSUME NEW row \in Candidates
      PROVE  /\ Invalidated(row) \in Candidates
             /\ BlockedWithoutProof(row) \in Candidates
             /\ Consumed(row) \in Candidates
  BY DEF Candidates, Statuses, Markers, Invalidated, BlockedWithoutProof,
      Consumed, NoRun
<1> QED
  BY <1>1, <1>2, <1>3

(* Closing and opening a gate yields a gate row.                           *)
LEMMA GateUpdates ==
    /\ ClosedGate \in Gates
    /\ \A r \in Nat, content \in ContentOrNone : OpenGate(r, content) \in Gates
    /\ \A g \in Gates : [g EXCEPT !.done = FALSE] \in Gates
  BY DEF ClosedGate, OpenGate, Gates, NoRun, ContentOrNone

-----------------------------------------------------------------------------
(***************************************************************************)
(* Type correctness.                                                       *)
(***************************************************************************)
(* The initial state has the declared type.                                *)
LEMMA TypeInit == Init => TypeInv
<1> SUFFICES ASSUME Init PROVE TypeInv
  OBVIOUS
<1>1. agenda \in Seq([day : Days, mode : Modes])
  <2>1. <<>> \in Seq([day : Days, mode : Modes])
    OBVIOUS
  <2>2. agenda = <<>>
    BY DEF Init
  <2> QED
    BY <2>1, <2>2
<1> USE EmptyType, LegacyAssumption DEF Init
<1>2. /\ ingest \in [ConnectorDays -> Contents]
      /\ observs \in [ConnectorDays -> Contents]
      /\ tree \in [ConnectorDays -> ContentOrNone]
      /\ index \in [ConnectorDays -> ContentOrNone]
  BY InitialAssumption DEF ContentOrNone
<1>3. cand \in [ConnectorDays -> Candidates]
  BY InitialAssumption, AggregateType
  DEF AbsentCandidate, NoAggregate, Candidates, Statuses, Markers, NoRun
<1>4. gate \in [ConnectorDays -> Gates]
  BY GateUpdates DEF NoRun, ContentOrNone
<1>5. frozen \in [ConnectorDays -> ContentOrNone]
  BY DEF Nothing, ContentOrNone
<1>6. phaseB \in BOOLEAN /\ failed \in BOOLEAN /\ stopped \in BOOLEAN
  OBVIOUS
<1>7. drained \in [ConnectorDays -> Nat]
  OBVIOUS
<1> QED
  BY <1>1, <1>2, <1>3, <1>4, <1>5, <1>6, <1>7
  DEF TypeInv, TypeOK, AgendaAtHand, CurKnown, NoRun, DeleteSteps

(* A run that ends leaves the databases to the next one, whatever else it  *)
(* did in its last step.                                                   *)
LEMMA IdleType ==
    ASSUME TypeInv, WorkerIdle, faults' \in Nat,
           UNCHANGED <<ingest, observs, gate, r2, drained, writes>>,
           cand' \in [ConnectorDays -> Candidates]
    PROVE  TypeInv'
<1>1. /\ frozen' \in [ConnectorDays -> ContentOrNone]
      /\ seen' \in [ConnectorDays -> Contents]
      /\ snap' \in Contents
  BY EmptyType DEF WorkerIdle, Nothing, ContentOrNone
<1>2. pc' = "idle" /\ agenda' = <<>> /\ run' = run /\ cur' = NoConnectorDay
  BY DEF WorkerIdle
<1>3. phaseB' \in BOOLEAN /\ failed' \in BOOLEAN /\ stopped' \in BOOLEAN
  BY DEF WorkerIdle
<1>4. /\ scope' = {} /\ active' = {} /\ queue' = {} /\ batch' = {}
      /\ gated' = {} /\ unconfirmed' = {} /\ claimed' = {} /\ work' = {}
      /\ repairs' = {} /\ plan' = {}
  BY DEF WorkerIdle
<1> QED
  BY <1>1, <1>2, <1>3, <1>4
  DEF TypeInv, TypeOK, AgendaAtHand, CurKnown, r2, DeleteSteps

(* Marking a batch leaves candidate rows, one of three for each.           *)
LEMMA MarkedBatch ==
    ASSUME TypeInv, NEW S, NEW budget, MarkPublished(S, budget)
    PROVE  /\ cand' \in [ConnectorDays -> Candidates]
           /\ \A c \in ConnectorDays \ S : cand'[c] = cand[c]
           /\ \A c \in ConnectorDays \cap S :
                \/ cand'[c] = StoppedForBudget(cand[c], run)
                \/ cand'[c] = Failed(cand[c], run, "message")
<1>1. \A c \in ConnectorDays :
        /\ cand[c] \in Candidates
        /\ StoppedForBudget(cand[c], run) \in Candidates
        /\ Failed(cand[c], run, "message") \in Candidates
  BY CandidateUpdates DEF TypeInv, TypeOK, Markers
<1> QED
  BY <1>1 DEF MarkPublished

(* Every step keeps the declared type.                                     *)
LEMMA TypeStep == TypeInv /\ [Next]_vars => TypeInv'
<1> SUFFICES ASSUME TypeInv, [Next]_vars
             PROVE  TypeInv'
  OBVIOUS
<1> USE DEF TypeInv, TypeOK, AgendaAtHand, CurKnown, database, r2, worker, phaseBVars,
            deleteVars, PhaseBSteps, DeleteSteps, ContentOrNone
<1>1. CASE StartRun
  <2>1. PICK enabled \in PhaseBModes :
          /\ phaseB' = enabled
          /\ pc' = IF enabled THEN "populate" ELSE "days"
          /\ agenda' = IF enabled THEN <<>> ELSE Agenda
    BY <1>1 DEF StartRun
  <2>2. phaseB' \in BOOLEAN /\ run' \in Nat
    BY <1>1, <2>1, PhaseBAssumption DEF StartRun
  <2>3. agenda' \in Seq([day : Days, mode : Modes])
    BY <2>1, AgendaAssumption
  <2> QED
    BY <1>1, <2>1, <2>2, <2>3 DEF StartRun
<1>2. CASE Populate
  BY <1>2, CandidateUpdates, GateUpdates DEF Populate
<1>3. CASE FetchPending
  BY <1>3 DEF FetchPending, Pending
<1>4. ASSUME NEW c \in ConnectorDays, Revalidate(c)
      PROVE  TypeInv'
  <2>1. cand' \in [ConnectorDays -> Candidates]
    <3>1. /\ BlockedWithoutProof(cand[c]) \in Candidates
          /\ Invalidated(cand[c]) \in Candidates
      BY <1>4, CandidateUpdates
    <3>2. \/ cand' = [cand EXCEPT ![c] = BlockedWithoutProof(@)]
          \/ cand' = [cand EXCEPT ![c] = Invalidated(@)]
          \/ cand' = cand
      BY <1>4 DEF Revalidate
    <3>3. cand \in [ConnectorDays -> Candidates]
      OBVIOUS
    <3> HIDE DEF TypeInv, TypeOK, AgendaAtHand, CurKnown, database, r2, worker, phaseBVars,
                 deleteVars, PhaseBSteps, DeleteSteps, ContentOrNone
    <3> QED
      BY <3>1, <3>2, <3>3
  <2>2. gate' \in [ConnectorDays -> Gates]
    BY <1>4, GateUpdates DEF Revalidate
  <2> QED
    BY <1>4, <2>1, <2>2 DEF Revalidate
<1>5. ASSUME NEW c \in ConnectorDays, OpenConnectorGate(c)
      PROVE  TypeInv'
  <2>1. cand' \in [ConnectorDays -> Candidates]
    BY <1>5, CandidateUpdates DEF OpenConnectorGate
  <2>2. gate' \in [ConnectorDays -> Gates]
    BY <1>5, GateUpdates DEF OpenConnectorGate
  <2> QED
    BY <1>5, <2>1, <2>2 DEF OpenConnectorGate
<1>6. CASE StartFinalization
  BY <1>6 DEF StartFinalization
<1>7. CASE Claim
  BY <1>7, CandidateUpdates, FirstIsMember DEF Claim
<1>8. CASE Freeze
  <2>1. cand' \in [ConnectorDays -> Candidates]
    <3>1. Failed(cand[cur], run, "message") \in Candidates
      BY <1>8, CandidateUpdates DEF Freeze, Markers
    <3> QED
      BY <1>8, <3>1 DEF Freeze
  <2>2. gate' \in [ConnectorDays -> Gates]
    BY <1>8, GateUpdates DEF Freeze
  <2>3. frozen' \in [ConnectorDays -> ContentOrNone]
    BY <1>8 DEF Freeze
  <2> QED
    BY <1>8, <2>1, <2>2, <2>3 DEF Freeze
<1>9. CASE Publish
  BY <1>9 DEF Publish, NothingCommitted
<1>10. CASE RefusePublication
  <2>1. cand' \in [ConnectorDays -> Candidates]
    <3>1. /\ Failed(cand[cur], run, "message") \in Candidates
          /\ Failed(cand[cur], run, "ISOLATED_BLOCK") \in Candidates
      BY <1>10, CandidateUpdates DEF RefusePublication, Markers
    <3> QED
      BY <1>10, <3>1 DEF RefusePublication
  <2>2. frozen' \in [ConnectorDays -> ContentOrNone]
    BY <1>10 DEF RefusePublication
  <2> QED
    BY <1>10, <2>1, <2>2 DEF RefusePublication
<1>11. CASE FinalizeNothing
  BY <1>11 DEF FinalizeNothing
<1>12. CASE PublishHierarchy
  BY <1>12 DEF PublishHierarchy
<1>13. CASE PublishIndex
  BY <1>13 DEF PublishIndex
<1>14. CASE LeaveGates
  <2>1. frozen' \in [ConnectorDays -> ContentOrNone]
    BY <1>14 DEF LeaveGates, Nothing
  <2> QED
    BY <1>14, <2>1 DEF LeaveGates
<1>15. CASE FinalizeDayGates
  BY <1>15 DEF FinalizeDayGates
<1>16. CASE EndPhaseB
  <2>1. CASE failed \/ stopped
    <3>1. WorkerIdle /\ UNCHANGED <<database, r2, drained, writes, faults>>
      BY <1>16, <2>1 DEF EndPhaseB
    <3> QED
      BY <3>1, IdleType
  <2>2. CASE ~(failed \/ stopped)
    BY <1>16, <2>2, AgendaAssumption DEF EndPhaseB
  <2> QED
    BY <2>1, <2>2
<1>17. CASE StartDay
  BY <1>17, EmptyType DEF StartDay, SeenOf
<1>18. CASE Compare
  BY <1>18 DEF Compare, Repairable, Mismatches, Buckets
<1>19. CASE RereadIngest
  BY <1>19, EmptyType DEF RereadIngest, SeenOf
<1>20. CASE PlanVerified
  BY <1>20 DEF PlanVerified
<1>21. CASE PlanDirect
  BY <1>21 DEF PlanDirect
<1>22. ASSUME NEW c \in ConnectorDays, NEW h \in Hours, RepairBucket(c, h)
      PROVE  TypeInv'
  <2>1. observs' \in [ConnectorDays -> Contents]
    BY <1>22 DEF RepairBucket, Replay, Contents
  <2> QED
    BY <1>22, <2>1 DEF RepairBucket
<1>23. CASE BeginDelete
  BY <1>23, FirstIsMember DEF BeginDelete
<1>24. CASE DeleteInvalidates
  BY <1>24, CandidateUpdates, GateUpdates, EmptyType DEF DeleteInvalidates, LeaveTransaction
<1>25. CASE DeleteRollsBack
  BY <1>25, EmptyType DEF DeleteRollsBack, LeaveTransaction
<1>26. CASE DeleteCommits
  <2>1. cand' \in [ConnectorDays -> Candidates]
    BY <1>26, CandidateUpdates DEF DeleteCommits, ConsumeFirstDeletionAuthority
  <2>2. gate' \in [ConnectorDays -> Gates]
    BY <1>26, GateUpdates DEF DeleteCommits, ConsumeFirstDeletionAuthority
  <2>3. ingest' \in [ConnectorDays -> Contents]
    BY <1>26 DEF DeleteCommits, ConsumeFirstDeletionAuthority, Removed, Contents
  <2>4. drained' \in [ConnectorDays -> Nat]
    BY <1>26 DEF DeleteCommits, ConsumeFirstDeletionAuthority
  <2> QED
    BY <1>26, EmptyType, <2>1, <2>2, <2>3, <2>4 DEF DeleteCommits,
       ConsumeFirstDeletionAuthority, LeaveTransaction
<1>27. CASE FinishDay
  BY <1>27, EmptyType DEF FinishDay
<1>28. CASE EndRun
  <2>1. WorkerIdle /\ UNCHANGED <<database, r2, drained, writes, faults>>
    BY <1>28 DEF EndRun
  <2> QED
    BY <2>1, IdleType
<1>29. CASE Crash
  <2>1. WorkerIdle /\ UNCHANGED <<database, r2, drained, writes>>
    BY <1>29 DEF Crash
  <2>2. faults' \in Nat
    BY <1>29 DEF Crash, Fault
  <2> QED
    BY <2>1, <2>2, IdleType
<1>30. CASE LateDayError
  BY <1>30, EmptyType DEF LateDayError, Fault
<1>31. CASE BudgetStopsDiscovery
  BY <1>31 DEF BudgetStopsDiscovery, Fault
<1>32. CASE BudgetStopsLoop
  BY <1>32 DEF BudgetStopsLoop, Fault
<1>33. CASE PublicationFails
  <2>1. cand' \in [ConnectorDays -> Candidates]
    BY <1>33, CandidateUpdates DEF PublicationFails, Markers
  <2>2. frozen' \in [ConnectorDays -> ContentOrNone]
    BY <1>33 DEF PublicationFails
  <2> QED
    BY <1>33, <2>1, <2>2 DEF PublicationFails, Fault
<1>34. CASE BudgetStopsCandidate
  <2>1. cand' \in [ConnectorDays -> Candidates]
    BY <1>34, CandidateUpdates DEF BudgetStopsCandidate
  <2>2. frozen' \in [ConnectorDays -> ContentOrNone]
    BY <1>34 DEF BudgetStopsCandidate
  <2> QED
    BY <1>34, <2>1, <2>2 DEF BudgetStopsCandidate, Fault
<1>35. CASE FinalizationFails
  <2>1. cand' \in [ConnectorDays -> Candidates]
    <3>1. TypeInv
      OBVIOUS
    <3>2. PICK budget \in BOOLEAN : MarkPublished(batch \cup gated, budget)
      BY <1>35 DEF FinalizationFails
    <3> QED
      BY <3>1, <3>2, MarkedBatch
  <2>2. frozen' \in [ConnectorDays -> ContentOrNone]
    BY <1>35 DEF FinalizationFails, Nothing
  <2>3. failed' \in BOOLEAN /\ stopped' \in BOOLEAN
    BY <1>35, Zenon DEF FinalizationFails
  <2> QED
    BY <1>35, <2>1, <2>2, <2>3 DEF FinalizationFails, Fault
<1>36. CASE DayGatesFail
  <2>1. failed' \in BOOLEAN /\ stopped' \in BOOLEAN
    BY <1>36 DEF DayGatesFail
  <2> QED
    BY <1>36, <2>1 DEF DayGatesFail, Fault
<1>37. ASSUME NEW c \in ConnectorDays, GateUnconfirmed(c)
      PROVE  TypeInv'
  <2>1. cand' \in [ConnectorDays -> Candidates]
    <3>1. Completed(cand[c], run, frozen[c]) \in Candidates
      BY <1>37, CandidateUpdates
    <3> QED
      BY <1>37, <3>1 DEF GateUnconfirmed
  <2>2. gate' \in [ConnectorDays -> Gates]
    <3>1. OpenGate(run, frozen[c]) \in Gates
      BY <1>37, GateUpdates
    <3> QED
      BY <1>37, <3>1 DEF GateUnconfirmed
  <2> QED
    BY <1>37, <2>1, <2>2 DEF GateUnconfirmed, Fault
<1>38. ASSUME NEW c \in ConnectorDays, NEW h \in Hours, RepairFails(c, h)
      PROVE  TypeInv'
  <2>1. observs' \in [ConnectorDays -> Contents]
    BY <1>38 DEF RepairFails, Contents
  <2> QED
    BY <1>38, <2>1 DEF RepairFails, Fault
<1>39. ASSUME NEW c \in ConnectorDays, NEW k \in Keys, OutboxDelivers(c, k)
      PROVE  TypeInv'
  BY <1>39, ContentUpdates DEF OutboxDelivers
<1>40. ASSUME NEW c \in ConnectorDays, NEW k \in Keys, NEW v \in Values, IngestWrite(c, k, v)
      PROVE  TypeInv'
  <2>1. ingest' \in [ConnectorDays -> Contents]
    BY <1>40, ContentUpdates DEF IngestWrite
  <2> QED
    BY <1>40, <2>1 DEF IngestWrite
<1>42. ASSUME NEW c \in ConnectorDays, RecordGateFailure(c)
      PROVE  TypeInv'
  <2>1. Failed(cand[c], run, "GATE_RECOVERY_UNPROVEN") \in Candidates
    BY <1>42, CandidateUpdates DEF Markers
  <2> QED
    BY <1>42, <2>1 DEF RecordGateFailure
<1>43. CASE MarkingFails
  <2>1. cand' \in [ConnectorDays -> Candidates]
    <3>1. TypeInv
      OBVIOUS
    <3>2. PICK budget \in BOOLEAN, marked \in SUBSET (batch \cup gated) :
            MarkPublished(marked, budget)
      BY <1>43 DEF MarkingFails
    <3> QED
      BY <3>1, <3>2, MarkedBatch
  <2>2. /\ WorkerIdle /\ faults' \in Nat
        /\ UNCHANGED <<ingest, observs, gate, r2, drained, writes>>
    BY <1>43 DEF MarkingFails, Fault
  <2> QED
    BY <2>1, <2>2, IdleType
<1>41. CASE UNCHANGED vars
  BY <1>41 DEF vars
<1> QED
  BY <1>1, <1>2, <1>3, <1>4, <1>5, <1>6, <1>7, <1>8, <1>9, <1>10, <1>11,
     <1>12, <1>13, <1>14, <1>15, <1>16, <1>17, <1>18, <1>19, <1>20, <1>21,
     <1>22, <1>23, <1>24, <1>25, <1>26, <1>27, <1>28, <1>29, <1>30, <1>31,
     <1>32, <1>33, <1>34, <1>35, <1>36, <1>37, <1>38, <1>39, <1>40, <1>41,
     <1>42, <1>43
  DEF Next, PhaseB, Deletion, Failures, Environment

-----------------------------------------------------------------------------
(***************************************************************************)
(* The evidence invariant.                                                 *)
(***************************************************************************)

(* A row without a valid gate is consistent when it does not claim one.    *)
LEMMA ClosedIsConsistent ==
    ASSUME NEW row, NEW g, NEW t, NEW x, NEW n,
           ~ValidGate(g), row.error # "READY"
    PROVE  Consistent(row, g, t, x, n)
  BY DEF Consistent

(* A closed gate is not valid evidence.                                    *)
LEMMA ClosedGateIsInvalid == ~ValidGate(ClosedGate)
  BY DEF ValidGate, ClosedGate

(* Refreshing a candidate keeps it consistent: the gate of a completed one *)
(* whose aggregates changed is closed in the same statement.               *)
LEMMA PopulatedIsConsistent ==
    ASSUME NEW row \in Candidates, NEW g, NEW t, NEW x, NEW n, NEW a,
           Consistent(row, g, t, x, n)
    PROVE  Consistent(Populated(row, a),
                      IF row.status = "complete" /\ row.expected # a
                      THEN ClosedGate ELSE g, t, x, n)
  BY DEF Populated, Candidates, Consistent, PersistentBlock, PersistentMarkers,
         ClosedGate, ValidGate, EvidenceAgrees, NoRun

(* A candidate that is claimed, failed or returned claims nothing of the   *)
(* gate beside it, open or not.                                            *)
LEMMA MarkedIsConsistent ==
    ASSUME NEW row \in Candidates, NEW g, NEW t, NEW x, NEW n, NEW r,
           Consistent(row, g, t, x, n)
    PROVE  /\ Consistent(InProgress(row, r), g, t, x, n)
           /\ Consistent(StoppedForBudget(row, r), g, t, x, n)
           /\ Consistent(Failed(row, r, "message"), g, t, x, n)
           /\ Consistent(Failed(row, r, "ISOLATED_BLOCK"), g, t, x, n)
           /\ Consistent(Failed(row, r, "GATE_RECOVERY_UNPROVEN"), g, t, x, n)
  BY DEF Candidates, Consistent, InProgress, StoppedForBudget, Failed

(* Completing candidate and gate together after both R2 objects are there. *)
LEMMA CompletedIsConsistent ==
    ASSUME NEW row \in Candidates, NEW r \in Nat \ {NoRun},
           NEW content \in Contents
    PROVE  Consistent(Completed(row, r, content), OpenGate(r, content),
                      content, content, 0)
  BY NoContentIsNone
  DEF Candidates, Consistent, Completed, OpenGate, EvidenceAgrees, ValidGate

(* Revoking a candidate closes its gate with it.                           *)
LEMMA RevokedIsConsistent ==
    ASSUME NEW row \in Candidates, NEW g, NEW t, NEW x, NEW n,
           Consistent(row, g, t, x, n)
    PROVE  /\ row.error # "READY" =>
                Consistent(BlockedWithoutProof(row), ClosedGate, t, x, n)
           /\ Consistent(Invalidated(row), ClosedGate, t, x, n)
  BY ClosedGateIsInvalid DEF Candidates, Consistent, BlockedWithoutProof, Invalidated

(* So a batch may be marked after its gates were opened.                   *)
LEMMA MarkingIsConsistent ==
    ASSUME IInv, NEW S, NEW budget, MarkPublished(S, budget),
           UNCHANGED <<gate, tree, index, drained>>
    PROVE  RowsConsistent'
<1> SUFFICES ASSUME NEW c \in ConnectorDays
             PROVE  Consistent(cand'[c], gate'[c], tree'[c], index'[c],
                               drained'[c])
  BY DEF RowsConsistent
<1>1. /\ cand[c] \in Candidates
      /\ Consistent(cand[c], gate[c], tree[c], index[c], drained[c])
  BY DEF IInv, TypeInv, TypeOK, Evidence, RowsConsistent
<1>2. \/ cand'[c] = cand[c]
      \/ cand'[c] = StoppedForBudget(cand[c], run)
      \/ cand'[c] = Failed(cand[c], run, "message")
  BY MarkedBatch DEF IInv
<1>3. /\ Consistent(StoppedForBudget(cand[c], run), gate[c], tree[c], index[c],
                    drained[c])
      /\ Consistent(Failed(cand[c], run, "message"), gate[c], tree[c], index[c],
                    drained[c])
  BY <1>1, MarkedIsConsistent
<1> QED
  BY <1>1, <1>2, <1>3

(* Every step keeps candidates, gates, R2 and deletions in agreement.      *)
LEMMA EvidenceStep == IInv /\ [Next]_vars => Evidence'
<1> SUFFICES ASSUME IInv, [Next]_vars
             PROVE  Evidence'
  OBVIOUS
<1> USE DEF IInv, TypeInv, TypeOK, CurKnown, Evidence, RunNumbered,
            RowsConsistent, CurHeld, BatchHeld, DrainedArchived,
            FirstDeletionOnce, Held, BatchSteps, NoRun, database, r2, worker,
            phaseBVars, deleteVars, PhaseBSteps, DeleteSteps
<1>1. CASE StartRun
  BY <1>1 DEF StartRun
<1>2. CASE Populate
  <2>1. RowsConsistent'
    BY <1>2, PopulatedIsConsistent DEF Populate, Markers
  <2>2. CurHeld' /\ BatchHeld'
    BY <1>2 DEF Populate, Populated, PersistentBlock, PersistentMarkers
  <2>3. RunNumbered' /\ DrainedArchived' /\ FirstDeletionOnce'
    BY <1>2 DEF Populate, Populated, PersistentBlock, PersistentMarkers
  <2> QED
    BY <2>1, <2>2, <2>3
<1>3. CASE FetchPending
  BY <1>3 DEF FetchPending, Pending
<1>4. ASSUME NEW c \in ConnectorDays, Revalidate(c)
      PROVE  Evidence'
  <2>1. RowsConsistent'
    <3> SUFFICES ASSUME NEW d \in ConnectorDays
                 PROVE  Consistent(cand'[d], gate'[d], tree'[d], index'[d],
                                   drained'[d])
      OBVIOUS
    <3>1. CASE d # c
      BY <1>4, <3>1 DEF Revalidate
    <3>2. CASE d = c
      <4>1. CASE cand[c].error # "READY"
        BY <1>4, <3>2, <4>1, RevokedIsConsistent DEF Revalidate
      <4>2. CASE cand[c].error = "READY" /\ ingest[c] # cand[c].hash
        BY <1>4, <3>2, <4>2, RevokedIsConsistent DEF Revalidate
      <4>3. CASE cand[c].error = "READY" /\ ingest[c] = cand[c].hash
        BY <1>4, <3>2, <4>3 DEF Revalidate
      <4> QED
        BY <4>1, <4>2, <4>3
    <3> QED
      BY <3>1, <3>2
  <2>2. CurHeld' /\ BatchHeld'
    BY <1>4 DEF Revalidate, Invalidated, BlockedWithoutProof
  <2>3. RunNumbered' /\ DrainedArchived' /\ FirstDeletionOnce'
    BY <1>4 DEF Revalidate, Invalidated, BlockedWithoutProof
  <2> QED
    BY <2>1, <2>2, <2>3
<1>5. ASSUME NEW c \in ConnectorDays, OpenConnectorGate(c)
      PROVE  Evidence'
  <2>1. RowsConsistent'
    BY <1>5, CompletedIsConsistent DEF OpenConnectorGate, Markers
  <2>2. CurHeld' /\ BatchHeld'
    BY <1>5 DEF OpenConnectorGate, Completed
  <2>3. RunNumbered' /\ DrainedArchived' /\ FirstDeletionOnce'
    BY <1>5 DEF OpenConnectorGate, Completed
  <2> QED
    BY <2>1, <2>2, <2>3
<1>6. CASE StartFinalization
  BY <1>6 DEF StartFinalization
<1>7. CASE Claim
  <2> DEFINE c == First(queue)
  <2>0. c \in ConnectorDays /\ cand[c].status = "pending"
    BY <1>7, FirstIsMember DEF Claim
  <2> HIDE DEF c
  <2>4. cand' = [cand EXCEPT ![c] = InProgress(cand[c], run)] /\ cur' = c
    BY <1>7 DEF Claim, c
  <2>1. RowsConsistent'
    <3> SUFFICES ASSUME NEW d \in ConnectorDays
                 PROVE  Consistent(cand'[d], gate'[d], tree'[d], index'[d],
                                   drained'[d])
      OBVIOUS
    <3>1. CASE d # c
      BY <1>7, <2>4, <3>1 DEF Claim
    <3>2. CASE d = c
      BY <1>7, <2>0, <2>4, <3>2, MarkedIsConsistent DEF Claim
    <3> QED
      BY <3>1, <3>2
  <2>2. CurHeld' /\ BatchHeld'
    BY <1>7, <2>0, <2>4 DEF Claim, InProgress, Candidates
  <2>3. RunNumbered' /\ DrainedArchived' /\ FirstDeletionOnce'
    BY <1>7, FirstIsMember DEF Claim, InProgress
  <2> QED
    BY <2>1, <2>2, <2>3
<1>8. CASE Freeze
  <2>1. RowsConsistent'
    <3> SUFFICES ASSUME NEW d \in ConnectorDays
                 PROVE  Consistent(cand'[d], gate'[d], tree'[d], index'[d],
                                   drained'[d])
      OBVIOUS
    <3>1. CASE d # cur
      BY <1>8, <3>1 DEF Freeze
    <3>2. CASE d = cur
      <4>1. cand'[cur] \in {cand[cur], Failed(cand[cur], run, "message")}
        BY <1>8 DEF Freeze
      <4>2. cand[cur] \in Candidates /\ cand[cur].error = "null"
        BY <1>8 DEF Freeze
      <4>3. gate'[cur] = ClosedGate
        BY <1>8 DEF Freeze
      <4> QED
        BY <3>2, <4>1, <4>2, <4>3, ClosedGateIsInvalid, ClosedIsConsistent
        DEF Failed, Candidates
    <3> QED
      BY <3>1, <3>2
  <2>2. CurHeld' /\ BatchHeld'
    <3>1. CASE Cardinality(Rows(ingest[cur])) = cand[cur].expected.n
      <4>1. frozen' = [frozen EXCEPT ![cur] = ingest[cur]] /\ pc' = "frozen"
        BY <1>8, <3>1 DEF Freeze
      <4>2. UNCHANGED <<cand, cur, batch, run, tree, index, drained>>
        BY <1>8, <3>1 DEF Freeze
      <4>3. cur \notin batch /\ pc = "claimed" /\ frozen'[cur] = ingest[cur]
        BY <1>8, <4>1 DEF Freeze
      <4> QED
        BY <4>1, <4>2, <4>3
    <3>2. CASE Cardinality(Rows(ingest[cur])) # cand[cur].expected.n
      BY <1>8, <3>2 DEF Freeze, Failed
    <3> QED
      BY <3>1, <3>2
  <2>3. RunNumbered' /\ DrainedArchived' /\ FirstDeletionOnce'
    BY <1>8 DEF Freeze, Failed
  <2> QED
    BY <2>1, <2>2, <2>3
<1>9. CASE Publish
  BY <1>9 DEF Publish, NothingCommitted
<1>10. CASE RefusePublication
  <2>1. RowsConsistent'
    <3> SUFFICES ASSUME NEW d \in ConnectorDays
                 PROVE  Consistent(cand'[d], gate'[d], tree'[d], index'[d],
                                   drained'[d])
      OBVIOUS
    <3>1. CASE d # cur
      BY <1>10, <3>1 DEF RefusePublication
    <3>2. CASE d = cur
      <4>1. /\ cand[cur] \in Candidates /\ cand[cur].error = "null"
            /\ Consistent(cand[cur], gate[cur], tree[cur], index[cur],
                          drained[cur])
        BY <1>10 DEF RefusePublication
      <4> QED
        <5>1. cand'[cur] \in {Failed(cand[cur], run, "message"),
                              Failed(cand[cur], run, "ISOLATED_BLOCK")}
          BY <1>10 DEF RefusePublication, Markers
        <5>2. UNCHANGED <<gate, tree, index, drained>>
          BY <1>10 DEF RefusePublication
        <5>3. /\ Consistent(Failed(cand[cur], run, "message"), gate[cur],
                            tree[cur], index[cur], drained[cur])
              /\ Consistent(Failed(cand[cur], run, "ISOLATED_BLOCK"), gate[cur],
                            tree[cur], index[cur], drained[cur])
          BY <4>1, MarkedIsConsistent
        <5> QED
          BY <3>2, <5>1, <5>2, <5>3
    <3> QED
      BY <3>1, <3>2
  <2>2. CurHeld' /\ BatchHeld'
    BY <1>10 DEF RefusePublication, Failed
  <2>3. RunNumbered' /\ DrainedArchived' /\ FirstDeletionOnce'
    BY <1>10 DEF RefusePublication, Failed
  <2> QED
    BY <2>1, <2>2, <2>3
<1>11. CASE FinalizeNothing
  BY <1>11 DEF FinalizeNothing
<1>12. CASE PublishHierarchy
  <2>1. RowsConsistent'
    BY <1>12 DEF PublishHierarchy, Consistent, ValidGate
  <2>2. CurHeld' /\ BatchHeld'
    BY <1>12 DEF PublishHierarchy, Consistent, ValidGate
  <2>3. RunNumbered' /\ DrainedArchived' /\ FirstDeletionOnce'
    BY <1>12 DEF PublishHierarchy, Consistent, ValidGate
  <2> QED
    BY <2>1, <2>2, <2>3
<1>13. CASE PublishIndex
  <2>1. RowsConsistent'
    BY <1>13 DEF PublishIndex, Consistent, ValidGate, EvidenceAgrees
  <2>2. CurHeld' /\ BatchHeld'
    BY <1>13 DEF PublishIndex, Consistent, ValidGate, EvidenceAgrees
  <2>3. RunNumbered' /\ DrainedArchived' /\ FirstDeletionOnce'
    BY <1>13 DEF PublishIndex, Consistent, ValidGate, EvidenceAgrees
  <2> QED
    BY <2>1, <2>2, <2>3
<1>14. CASE LeaveGates
  <2>1. RowsConsistent'
    BY <1>14 DEF LeaveGates
  <2>2. CurHeld' /\ BatchHeld'
    BY <1>14 DEF LeaveGates, Nothing
  <2>3. RunNumbered' /\ DrainedArchived' /\ FirstDeletionOnce'
    BY <1>14 DEF LeaveGates
  <2> QED
    BY <2>1, <2>2, <2>3
<1>15. CASE FinalizeDayGates
  BY <1>15 DEF FinalizeDayGates
<1>16. CASE EndPhaseB
  BY <1>16 DEF EndPhaseB, WorkerIdle, Nothing
<1>17. CASE StartDay
  BY <1>17 DEF StartDay
<1>18. CASE Compare
  BY <1>18 DEF Compare
<1>19. CASE RereadIngest
  BY <1>19 DEF RereadIngest
<1>20. CASE PlanVerified
  BY <1>20 DEF PlanVerified
<1>21. CASE PlanDirect
  BY <1>21 DEF PlanDirect
<1>22. ASSUME NEW c \in ConnectorDays, NEW h \in Hours, RepairBucket(c, h)
      PROVE  Evidence'
  BY <1>22 DEF RepairBucket
<1>23. CASE BeginDelete
  BY <1>23, FirstIsMember DEF BeginDelete
<1>24. CASE DeleteInvalidates
  <2>1. RowsConsistent'
    <3> SUFFICES ASSUME NEW d \in ConnectorDays
                 PROVE  Consistent(cand'[d], gate'[d], tree'[d], index'[d],
                                   drained'[d])
      OBVIOUS
    <3>1. CASE d # cur
      BY <1>24, <3>1 DEF DeleteInvalidates, LeaveTransaction
    <3>2. CASE d = cur
      <4>1. gate'[cur] = ClosedGate
        BY <1>24 DEF DeleteInvalidates
      <4>2. CASE cand[cur].status = "absent"
        <5>1. cand'[cur] = cand[cur] /\ cand[cur].error # "READY"
          BY <1>24, <4>2 DEF DeleteInvalidates, Consistent, EvidenceAgrees
        <5> QED
          BY <3>2, <4>1, <4>2, <5>1, ClosedGateIsInvalid, ClosedIsConsistent
          DEF Consistent
      <4>3. CASE cand[cur].status # "absent"
        <5>1. cand'[cur] = Invalidated(cand[cur])
          BY <1>24, <4>3 DEF DeleteInvalidates
        <5>2. tree' = tree /\ index' = index /\ drained' = drained
          BY <1>24 DEF DeleteInvalidates, LeaveTransaction
        <5>3. Consistent(Invalidated(cand[cur]), ClosedGate, tree[cur],
                         index[cur], drained[cur])
          BY <1>24, RevokedIsConsistent DEF DeleteInvalidates
        <5> QED
          BY <1>24, <3>2, <4>1, <5>1, <5>2, <5>3
      <4> QED
        BY <4>2, <4>3
    <3> QED
      BY <3>1, <3>2
  <2>2. CurHeld' /\ BatchHeld'
    BY <1>24 DEF DeleteInvalidates, LeaveTransaction
  <2>3. RunNumbered' /\ DrainedArchived' /\ FirstDeletionOnce'
    BY <1>24 DEF DeleteInvalidates, LeaveTransaction
  <2> QED
    BY <2>1, <2>2, <2>3
<1>25. CASE DeleteRollsBack
  BY <1>25 DEF DeleteRollsBack, LeaveTransaction
<1>26. CASE DeleteCommits
  <2>1. RowsConsistent'
    BY <1>26 DEF DeleteCommits, ConsumeFirstDeletionAuthority,
       LeaveTransaction, IdentityHolds, Consumed, EvidenceAgrees, Consistent,
       ValidGate
  <2>2. CurHeld' /\ BatchHeld'
    BY <1>26 DEF DeleteCommits, ConsumeFirstDeletionAuthority,
       LeaveTransaction, IdentityHolds, Consumed, EvidenceAgrees, Consistent,
       ValidGate
  <2>3. RunNumbered' /\ DrainedArchived' /\ FirstDeletionOnce'
    BY <1>26 DEF DeleteCommits, ConsumeFirstDeletionAuthority,
       LeaveTransaction, IdentityHolds, Consumed, EvidenceAgrees, Consistent,
       ValidGate
  <2> QED
    BY <2>1, <2>2, <2>3
<1>27. CASE FinishDay
  BY <1>27 DEF FinishDay
<1>28. CASE EndRun
  BY <1>28 DEF EndRun, WorkerIdle, Nothing
<1>29. CASE Crash
  BY <1>29 DEF Crash, WorkerIdle, Nothing
<1>30. CASE LateDayError
  BY <1>30 DEF LateDayError
<1>31. CASE BudgetStopsDiscovery
  BY <1>31 DEF BudgetStopsDiscovery
<1>32. CASE BudgetStopsLoop
  BY <1>32 DEF BudgetStopsLoop
<1>33. CASE PublicationFails
  <2>1. RowsConsistent'
    <3> SUFFICES ASSUME NEW d \in ConnectorDays
                 PROVE  Consistent(cand'[d], gate'[d], tree'[d], index'[d],
                                   drained'[d])
      OBVIOUS
    <3>1. CASE d # cur
      BY <1>33, <3>1 DEF PublicationFails
    <3>2. CASE d = cur
      <4>1. /\ cand[cur] \in Candidates /\ cand[cur].error = "null"
            /\ Consistent(cand[cur], gate[cur], tree[cur], index[cur],
                          drained[cur])
        BY <1>33 DEF PublicationFails
      <4> QED
        <5>1. cand'[cur] \in {Failed(cand[cur], run, "message"),
                              Failed(cand[cur], run, "ISOLATED_BLOCK")}
          BY <1>33 DEF PublicationFails, Markers
        <5>2. UNCHANGED <<gate, tree, index, drained>>
          BY <1>33 DEF PublicationFails
        <5>3. /\ Consistent(Failed(cand[cur], run, "message"), gate[cur],
                            tree[cur], index[cur], drained[cur])
              /\ Consistent(Failed(cand[cur], run, "ISOLATED_BLOCK"), gate[cur],
                            tree[cur], index[cur], drained[cur])
          BY <4>1, MarkedIsConsistent
        <5> QED
          BY <3>2, <5>1, <5>2, <5>3
    <3> QED
      BY <3>1, <3>2
  <2>2. CurHeld' /\ BatchHeld'
    BY <1>33 DEF PublicationFails, Failed
  <2>3. RunNumbered' /\ DrainedArchived' /\ FirstDeletionOnce'
    BY <1>33 DEF PublicationFails, Failed
  <2> QED
    BY <2>1, <2>2, <2>3
<1>34. CASE BudgetStopsCandidate
  <2>1. RowsConsistent'
    BY <1>34, MarkedIsConsistent DEF BudgetStopsCandidate
  <2>2. CurHeld' /\ BatchHeld'
    BY <1>34 DEF BudgetStopsCandidate, StoppedForBudget
  <2>3. RunNumbered' /\ DrainedArchived' /\ FirstDeletionOnce'
    BY <1>34 DEF BudgetStopsCandidate, StoppedForBudget
  <2> QED
    BY <2>1, <2>2, <2>3
<1>35. CASE FinalizationFails
  <2>1. RowsConsistent'
    <3>1. PICK budget \in BOOLEAN : MarkPublished(batch \cup gated, budget)
      BY <1>35 DEF FinalizationFails
    <3>2. UNCHANGED <<gate, tree, index, drained>>
      BY <1>35 DEF FinalizationFails
    <3> QED
      BY <3>1, <3>2, MarkingIsConsistent
  <2>2. CurHeld' /\ BatchHeld'
    BY <1>35 DEF FinalizationFails, Nothing
  <2>3. RunNumbered' /\ DrainedArchived' /\ FirstDeletionOnce'
    BY <1>35 DEF FinalizationFails, FinalizationRaises
  <2> QED
    BY <2>1, <2>2, <2>3
<1>36. CASE DayGatesFail
  BY <1>36 DEF DayGatesFail
<1>37. ASSUME NEW c \in ConnectorDays, GateUnconfirmed(c)
      PROVE  Evidence'
  <2>1. RowsConsistent'
    <3> SUFFICES ASSUME NEW d \in ConnectorDays
                 PROVE  Consistent(cand'[d], gate'[d], tree'[d], index'[d],
                                   drained'[d])
      OBVIOUS
    <3>1. CASE d # c
      BY <1>37, <3>1 DEF GateUnconfirmed
    <3>2. CASE d = c
      <4>1. CASE UNCHANGED <<cand, gate>>
        BY <1>37, <4>1 DEF GateUnconfirmed
      <4>2. CASE /\ cand' = [cand EXCEPT ![c] = Completed(@, run, frozen[c])]
                 /\ gate' = [gate EXCEPT ![c] = OpenGate(run, frozen[c])]
        <5>1. /\ frozen[c] \in Contents /\ run \in Nat \ {NoRun}
              /\ tree'[c] = frozen[c] /\ index'[c] = frozen[c]
              /\ drained'[c] = 0
          BY <1>37 DEF GateUnconfirmed
        <5> QED
          BY <1>37, <3>2, <4>2, <5>1, CompletedIsConsistent
      <4> QED
        BY <1>37, <4>1, <4>2 DEF GateUnconfirmed
    <3> QED
      BY <3>1, <3>2
  <2>2. CurHeld' /\ BatchHeld'
    BY <1>37 DEF GateUnconfirmed, Completed
  <2>3. RunNumbered' /\ DrainedArchived' /\ FirstDeletionOnce'
    BY <1>37 DEF GateUnconfirmed, Completed
  <2> QED
    BY <2>1, <2>2, <2>3
<1>38. ASSUME NEW c \in ConnectorDays, NEW h \in Hours, RepairFails(c, h)
      PROVE  Evidence'
  BY <1>38 DEF RepairFails
<1>39. ASSUME NEW c \in ConnectorDays, NEW k \in Keys, OutboxDelivers(c, k)
      PROVE  Evidence'
  BY <1>39 DEF OutboxDelivers
<1>40. ASSUME NEW c \in ConnectorDays, NEW k \in Keys, NEW v \in Values, IngestWrite(c, k, v)
      PROVE  Evidence'
  BY <1>40 DEF IngestWrite
<1>42. ASSUME NEW c \in ConnectorDays, RecordGateFailure(c)
      PROVE  Evidence'
  <2>1. RowsConsistent'
    BY <1>42, MarkedIsConsistent DEF RecordGateFailure
  <2>2. CurHeld' /\ BatchHeld'
    BY <1>42 DEF RecordGateFailure
  <2>3. RunNumbered' /\ DrainedArchived' /\ FirstDeletionOnce'
    BY <1>42 DEF RecordGateFailure
  <2> QED
    BY <2>1, <2>2, <2>3
<1>43. CASE MarkingFails
  <2>1. RowsConsistent'
    <3>1. PICK budget \in BOOLEAN, marked \in SUBSET (batch \cup gated) :
            MarkPublished(marked, budget)
      BY <1>43 DEF MarkingFails
    <3>2. UNCHANGED <<gate, tree, index, drained>>
      BY <1>43 DEF MarkingFails
    <3> QED
      BY <3>1, <3>2, MarkingIsConsistent
  <2>2. CurHeld' /\ BatchHeld'
    BY <1>43 DEF MarkingFails, WorkerIdle
  <2>3. RunNumbered' /\ DrainedArchived' /\ FirstDeletionOnce'
    BY <1>43 DEF MarkingFails, WorkerIdle
  <2> QED
    BY <2>1, <2>2, <2>3
<1>41. CASE UNCHANGED vars
  BY <1>41 DEF vars
<1> QED
  BY <1>1, <1>2, <1>3, <1>4, <1>5, <1>6, <1>7, <1>8, <1>9, <1>10, <1>11,
     <1>12, <1>13, <1>14, <1>15, <1>16, <1>17, <1>18, <1>19, <1>20, <1>21,
     <1>22, <1>23, <1>24, <1>25, <1>26, <1>27, <1>28, <1>29, <1>30, <1>31,
     <1>32, <1>33, <1>34, <1>35, <1>36, <1>37, <1>38, <1>39, <1>40, <1>41,
     <1>42, <1>43
  DEF Next, PhaseB, Deletion, Failures, Environment

(* They agree before the first run.                                        *)
LEMMA EvidenceInit == Init => Evidence
<1> SUFFICES ASSUME Init PROVE Evidence
  OBVIOUS
<1>1. RowsConsistent
  <2> SUFFICES ASSUME NEW c \in ConnectorDays
               PROVE  Consistent(cand[c], gate[c], tree[c], index[c], drained[c])
    BY DEF RowsConsistent
  <2>1. ~ValidGate(gate[c])
    BY DEF Init, ValidGate, OpenGate, ClosedGate
  <2>2. cand[c].error = "null" /\ cand[c].status \in {"absent", "complete"}
    BY DEF Init, AbsentCandidate
  <2> QED
    BY <2>1, <2>2, ClosedIsConsistent
<1>2. pc = "idle" /\ batch = {} /\ \A c \in ConnectorDays : drained[c] = 0
  BY DEF Init
<1> QED
  BY <1>1, <1>2 DEF Evidence, RunNumbered, CurHeld, BatchHeld, DrainedArchived,
      FirstDeletionOnce

(* The inductive invariant holds in every reachable state.                 *)
THEOREM InvariantHolds == Spec => []IInv
<1>1. Init => IInv
  BY TypeInit, EvidenceInit DEF IInv
<1>2. IInv /\ [Next]_vars => IInv'
  BY TypeStep, EvidenceStep DEF IInv
<1> QED
  BY <1>1, <1>2, PTL DEF Spec

-----------------------------------------------------------------------------
(***************************************************************************)
(* What follows.                                                           *)
(***************************************************************************)

(* Tables, objects and worker memory keep their types.                     *)
THEOREM TypeCorrect == Spec => []TypeOK
<1>1. IInv => TypeOK
  BY DEF IInv, TypeInv
<1> QED
  BY <1>1, InvariantHolds, PTL

(* No connector-day is drained twice, whatever runs crash, fail or skip    *)
(* Phase B, and whatever rows reappear.                                    *)
THEOREM DrainedOnce == Spec => []FirstDeletionOnce
<1>1. IInv => FirstDeletionOnce
  BY DEF IInv, Evidence
<1> QED
  BY <1>1, InvariantHolds, PTL

(* An open gate vouches for complete R2 content of an undrained            *)
(* connector-day, and a complete candidate beside it is of its run and     *)
(* identity, even when a batch goes wrong after its gates were opened.     *)
THEOREM GateVouches == Spec => []OpenGateVouches
<1>1. IInv => OpenGateVouches
  BY DEF IInv, Evidence, RowsConsistent, Consistent, OpenGateVouches
<1> QED
  BY <1>1, InvariantHolds, PTL

(* A ready candidate and its gate always carry one identity.               *)
THEOREM ReadyAgrees == Spec => []ReadyHasGate
<1>1. IInv => ReadyHasGate
  BY DEF IInv, Evidence, RowsConsistent, Consistent, ReadyHasGate
<1> QED
  BY <1>1, InvariantHolds, PTL

(* Rows leave IngestDB in the deletion transaction alone.                  *)
LEMMA WhoChangesIngest ==
    ASSUME [Next]_vars
    PROVE  \/ ingest' = ingest
           \/ DeleteCommits
           \/ \E c \in ConnectorDays, k \in Keys, v \in Values : IngestWrite(c, k, v)
<1> USE DEF database
<1>1. CASE StartRun \/ UNCHANGED vars
  BY <1>1 DEF StartRun, vars
<1>2. CASE PhaseB
  BY <1>2 DEF PhaseB, Populate, FetchPending, Revalidate, OpenConnectorGate,
      StartFinalization, Claim, Freeze, Publish, RefusePublication,
      FinalizeNothing, PublishHierarchy, PublishIndex,
      RecordGateFailure, LeaveGates, FinalizeDayGates, EndPhaseB
<1>3. CASE Deletion
  BY <1>3 DEF Deletion, StartDay, Compare, RereadIngest, PlanVerified, PlanDirect, RepairBucket,
      BeginDelete, DeleteInvalidates, DeleteRollsBack, DeleteCommits,
      ConsumeFirstDeletionAuthority,
      LeaveTransaction, FinishDay, EndRun
<1>4. CASE Failures
  BY <1>4 DEF Failures, Crash, LateDayError, BudgetStopsDiscovery, BudgetStopsLoop,
      PublicationFails, BudgetStopsCandidate, FinalizationFails,
      MarkingFails, DayGatesFail, GateUnconfirmed, RepairFails
<1>5. CASE Environment
  BY <1>5 DEF Environment, OutboxDelivers
<1> QED
  BY <1>1, <1>2, <1>3, <1>4, <1>5 DEF Next

(* What a committed deletion relies on and does.                           *)
LEMMA DeletionFacts ==
    ASSUME IInv, DeleteCommits
    PROVE  /\ cur \in ConnectorDays
           /\ drained[cur] = 0
           /\ tree[cur] \in Contents /\ index[cur] = tree[cur]
           /\ snap = tree[cur]
           /\ \A k \in Rows(tree[cur]) : ingest[cur][k] = tree[cur][k]
<1> USE DEF IInv, TypeInv, TypeOK, Evidence
<1>1. cur \in ConnectorDays
  BY DEF DeleteCommits, ConsumeFirstDeletionAuthority, CurKnown
<1>2. EvidenceAgrees(cand[cur], gate[cur]) /\ snap = cand[cur].hash
  BY DEF DeleteCommits, ConsumeFirstDeletionAuthority, IdentityHolds
<1>3. Consistent(cand[cur], gate[cur], tree[cur], index[cur], drained[cur])
  BY <1>1 DEF RowsConsistent
<1>4. /\ drained[cur] = 0 /\ tree[cur] = snap /\ index[cur] = snap
  BY <1>2, <1>3 DEF Consistent, EvidenceAgrees
<1> QED
  BY <1>1, <1>4 DEF DeleteCommits, ConsumeFirstDeletionAuthority, WriteConflict

(* Every row that leaves IngestDB is in R2, reachable and indexed, with    *)
(* the value it had.                                                       *)
THEOREM DeletedIsArchived == Spec => ArchivedBeforeDeletion
<1> DEFINE Step == \A c \in ConnectorDays, k \in Keys : Deletes(c, k) =>
                       /\ tree[c] # NoContent
                       /\ index[c] = tree[c]
                       /\ tree[c][k] = ingest[c][k]
<1>1. IInv /\ [Next]_vars => Step
  <2> SUFFICES ASSUME IInv, [Next]_vars,
                      NEW c \in ConnectorDays, NEW k \in Keys, Deletes(c, k)
               PROVE  /\ tree[c] # NoContent /\ index[c] = tree[c]
                      /\ tree[c][k] = ingest[c][k]
    OBVIOUS
  <2>1. CASE ingest' = ingest
    BY <2>1 DEF Deletes
  <2>2. CASE DeleteCommits
    <3>1. ingest' = [ingest EXCEPT ![cur] =
                       [x \in Keys |-> IF x \in Rows(snap) THEN NoRow ELSE @[x]]]
      BY <2>2 DEF DeleteCommits, Removed
    <3>2. c = cur /\ k \in Rows(snap)
      BY <3>1 DEF Deletes, IInv, TypeInv, TypeOK
    <3> QED
      BY <2>2, <3>2, DeletionFacts, NoContentIsNone
  <2>3. ASSUME NEW d \in ConnectorDays, NEW j \in Keys, NEW v \in Values,
               IngestWrite(d, j, v)
        PROVE  FALSE
    BY <2>3, NoRowAssumption
    DEF IngestWrite, Deletes, IInv, TypeInv, TypeOK, Contents
  <2> QED
    BY <2>1, <2>2, <2>3, WhoChangesIngest
<1> QED
  BY <1>1, InvariantHolds, PTL DEF Spec, ArchivedBeforeDeletion

(* What is reachable from the R2 root is never replaced.                   *)
THEOREM HistoryStable == Spec => CommittedHistoryStable
<1>1. IInv /\ [Next]_vars =>
        \A c \in ConnectorDays : tree[c] # NoContent => tree'[c] = tree[c]
  <2> SUFFICES ASSUME IInv, [Next]_vars,
                      NEW c \in ConnectorDays, tree[c] # NoContent
               PROVE  tree'[c] = tree[c]
    OBVIOUS
  <2> USE DEF r2
  <2>1. CASE StartRun \/ UNCHANGED vars
    BY <2>1 DEF StartRun, vars
  <2>2. CASE PhaseB /\ ~PublishHierarchy
    BY <2>2 DEF PhaseB, Populate, FetchPending, Revalidate, OpenConnectorGate,
        StartFinalization, Claim, Freeze, Publish, RefusePublication,
        FinalizeNothing, PublishIndex, RecordGateFailure, LeaveGates,
        FinalizeDayGates, EndPhaseB
  <2>3. CASE PublishHierarchy
    <3>1. c \notin batch
      BY <2>3 DEF PublishHierarchy, IInv, Evidence, BatchHeld
    <3> QED
      BY <2>3, <3>1 DEF PublishHierarchy
  <2>4. CASE Deletion
    BY <2>4 DEF Deletion, StartDay, Compare, RereadIngest, PlanVerified, PlanDirect,
        RepairBucket, BeginDelete, DeleteInvalidates, DeleteRollsBack,
        DeleteCommits, LeaveTransaction, FinishDay, EndRun
  <2>5. CASE Failures
    BY <2>5 DEF Failures, Crash, LateDayError, BudgetStopsDiscovery, BudgetStopsLoop,
        PublicationFails, BudgetStopsCandidate, FinalizationFails,
        MarkingFails, DayGatesFail, GateUnconfirmed, RepairFails
  <2>6. CASE Environment
    BY <2>6 DEF Environment, OutboxDelivers, IngestWrite
  <2> QED
    BY <2>1, <2>2, <2>3, <2>4, <2>5, <2>6 DEF Next
<1> QED
  BY <1>1, InvariantHolds, PTL DEF Spec, CommittedHistoryStable

-----------------------------------------------------------------------------
(***************************************************************************)
(* The worker implements ArchiveThenDelete.                                *)
(***************************************************************************)
(* The initial states map to the initial states of the promise.            *)
LEMMA PromiseInit == Init => Promise!Init
<1> SUFFICES ASSUME Init PROVE Promise!Init
  OBVIOUS
<1>1. {c \in ConnectorDays : drained[c] > 0} = {}
  <2>1. \A c \in ConnectorDays : drained[c] = 0
    BY DEF Init
  <2> QED
    BY <2>1
<1>2. tree = [c \in ConnectorDays |->
                IF c \in Legacy THEN Initial[c] ELSE NoContent]
  BY DEF Init
<1>3. ingest = Initial /\ frozen = [c \in ConnectorDays |-> NoContent]
  BY DEF Init, Nothing
<1> QED
  BY <1>1, <1>2, <1>3 DEF Promise!Init

(* A step that leaves rows, snapshots and history alone is a stutter.      *)
LEMMA QuietStep ==
    ASSUME UNCHANGED <<ingest, frozen, tree, drained>>
    PROVE  UNCHANGED Promise!vars
  BY DEF Promise!vars

(* Dropping snapshots is a step of the promise.                            *)
LEMMA DiscardStep ==
    ASSUME NEW S \in SUBSET ConnectorDays, UNCHANGED <<ingest, tree, drained>>,
           frozen' = [c \in ConnectorDays |->
                        IF c \in S THEN NoContent ELSE frozen[c]]
    PROVE  Promise!Next
  BY DEF Promise!Next, Promise!Discard

(* Every step is a step of the promise or a stutter.                       *)
LEMMA PromiseStep == IInv /\ [Next]_vars => [Promise!Next]_(Promise!vars)
<1> SUFFICES ASSUME IInv, [Next]_vars
             PROVE  Promise!Next \/ UNCHANGED Promise!vars
  OBVIOUS
<1> USE DEF database, r2, worker, phaseBVars
<1>1. CASE UNCHANGED vars \/ StartRun
  BY <1>1, QuietStep DEF vars, StartRun
<1>2. CASE Environment
  <2>1. CASE \E c \in ConnectorDays, k \in Keys : OutboxDelivers(c, k)
    BY <2>1, QuietStep DEF OutboxDelivers
  <2>2. ASSUME NEW c \in ConnectorDays, NEW k \in Keys, NEW v \in Values,
               IngestWrite(c, k, v)
        PROVE  Promise!Next
    <3>1. Promise!Write(c, k, v)
      BY <2>2 DEF IngestWrite, Promise!Write
    <3> QED
      BY <3>1 DEF Promise!Next
  <2> QED
    BY <1>2, <2>1, <2>2 DEF Environment
<1>3. CASE WorkerIdle /\ UNCHANGED <<ingest, tree, drained>>
  BY <1>3, DiscardStep DEF WorkerIdle, Nothing
<1>4. CASE Freeze
  <2>0. cur \in ConnectorDays
    BY <1>4 DEF Freeze, IInv, TypeInv, CurKnown
  <2>1. CASE Cardinality(Rows(ingest[cur])) = cand[cur].expected.n
    <3>1. Promise!Snapshot(cur)
      BY <1>4, <2>1 DEF Freeze, Promise!Snapshot
    <3> QED
      BY <2>0, <3>1 DEF Promise!Next
  <2>2. CASE Cardinality(Rows(ingest[cur])) # cand[cur].expected.n
    BY <1>4, <2>2, QuietStep DEF Freeze
  <2> QED
    BY <2>1, <2>2
<1>5. CASE RefusePublication \/ PublicationFails \/ BudgetStopsCandidate
  <2>1. cur \in ConnectorDays
    BY <1>5 DEF RefusePublication, PublicationFails, BudgetStopsCandidate,
        IInv, TypeInv, CurKnown
  <2>2. /\ frozen' = [frozen EXCEPT ![cur] = NoContent]
        /\ UNCHANGED <<ingest, tree, drained>>
    BY <1>5 DEF RefusePublication, PublicationFails, BudgetStopsCandidate
  <2>3. frozen' = [c \in ConnectorDays |->
                     IF c \in {cur} THEN NoContent ELSE frozen[c]]
    BY <2>1, <2>2 DEF IInv, TypeInv, TypeOK
  <2> QED
    BY <2>1, <2>2, <2>3, DiscardStep
<1>6. CASE LeaveGates \/ FinalizationFails
  <2>1. frozen' = Nothing /\ UNCHANGED <<ingest, tree, drained>>
    BY <1>6 DEF LeaveGates, FinalizationFails
  <2> QED
    BY <2>1, DiscardStep DEF Nothing
<1>7. CASE PublishHierarchy
  <2>1. batch \in SUBSET ConnectorDays
    BY DEF IInv, TypeInv, TypeOK
  <2>2. \A c \in batch : frozen[c] # NoContent /\ tree[c] = NoContent
    BY <1>7, NoContentIsNone DEF PublishHierarchy, IInv, Evidence, BatchHeld
  <2>3. Promise!Archive(batch)
    BY <1>7, <2>2 DEF PublishHierarchy, Promise!Archive
  <2> QED
    BY <2>1, <2>3 DEF Promise!Next
<1>8. CASE DeleteCommits
  <2>1. ingest' = [ingest EXCEPT ![cur] =
                     [k \in Keys |-> IF k \in Rows(snap) THEN NoRow ELSE @[k]]]
    BY <1>8 DEF DeleteCommits, Removed
  <2>2. Rows(snap) = Promise!Archived(cur)
    BY <1>8, DeletionFacts DEF Rows, Promise!Archived
  <2>3. /\ tree[cur] # NoContent /\ drained[cur] = 0
        /\ \A k \in Promise!Archived(cur) : ingest[cur][k] = tree[cur][k]
    BY <1>8, DeletionFacts, NoContentIsNone DEF Rows, Promise!Archived
  <2>4. {c \in ConnectorDays : drained'[c] > 0}
          = {c \in ConnectorDays : drained[c] > 0} \cup {cur}
    BY <1>8, DeletionFacts DEF DeleteCommits, ConsumeFirstDeletionAuthority, IInv, TypeInv, TypeOK
  <2>5. UNCHANGED <<frozen, tree>>
    BY <1>8 DEF DeleteCommits, ConsumeFirstDeletionAuthority, LeaveTransaction
  <2>6. PICK c \in ConnectorDays : c = cur
    BY <1>8, DeletionFacts
  <2>7. Promise!Drain(c)
    BY <2>1, <2>2, <2>3, <2>4, <2>5, <2>6 DEF Promise!Drain
  <2> QED
    BY <2>7 DEF Promise!Next
<1>9. CASE PhaseB
  <2>1. CASE EndPhaseB
    BY <1>3, <2>1, QuietStep DEF EndPhaseB
  <2>2. CASE ~(EndPhaseB \/ Freeze \/ RefusePublication \/ LeaveGates
                 \/ PublishHierarchy)
    BY <1>9, <2>2, QuietStep DEF PhaseB, Populate, FetchPending, Revalidate, OpenConnectorGate,
        StartFinalization, Claim, Publish, FinalizeNothing,
        PublishIndex, RecordGateFailure, FinalizeDayGates
  <2> QED
    BY <1>4, <1>5, <1>6, <1>7, <2>1, <2>2
<1>10. CASE Deletion
  <2>1. CASE EndRun
    BY <1>3, <2>1 DEF EndRun
  <2>2. CASE ~(EndRun \/ DeleteCommits)
    BY <1>10, <2>2, QuietStep DEF Deletion, StartDay, Compare, RereadIngest,
       PlanVerified, PlanDirect,
        RepairBucket, BeginDelete, DeleteInvalidates, DeleteRollsBack,
        LeaveTransaction, FinishDay
  <2> QED
    BY <1>8, <2>1, <2>2
<1>11. CASE Failures
  <2>1. CASE Crash \/ MarkingFails
    BY <1>3, <2>1 DEF Crash, MarkingFails
  <2>2. CASE ~(Crash \/ MarkingFails \/ PublicationFails \/ BudgetStopsCandidate
                 \/ FinalizationFails)
    BY <1>11, <2>2, QuietStep DEF Failures, LateDayError,
       BudgetStopsDiscovery, BudgetStopsLoop, DayGatesFail,
        GateUnconfirmed, RepairFails
  <2> QED
    BY <1>5, <1>6, <2>1, <2>2
<1> QED
  BY <1>1, <1>2, <1>9, <1>10, <1>11 DEF Next

(* Seen from rows, snapshots and history alone, the worker archives each   *)
(* connector-day once and drains it once.                                  *)
THEOREM ImplementsPromise == Spec => ArchivesThenDeletes
<1>1. Init => Promise!Init
  BY PromiseInit
<1>2. IInv /\ [Next]_vars => [Promise!Next]_(Promise!vars)
  BY PromiseStep
<1> QED
  BY <1>1, <1>2, InvariantHolds, PTL DEF Spec, ArchivesThenDeletes, Promise!Spec

-----------------------------------------------------------------------------
(***************************************************************************)
(* Legacy connector-days.                                                  *)
(***************************************************************************)

(* A step neither publishes nor vouches for a legacy connector-day.        *)
LEMMA LegacyStep == IInv /\ LegacyKept /\ [Next]_vars => LegacyKept'
<1> SUFFICES ASSUME IInv, LegacyKept, [Next]_vars, NEW c \in Legacy
             PROVE  /\ c \notin batch' /\ tree'[c] # NoContent
                    /\ cand'[c].error # "READY" /\ drained'[c] = 0
  BY DEF LegacyKept
<1>0. /\ c \in ConnectorDays /\ cand[c] \in Candidates
      /\ cand \in [ConnectorDays -> Candidates]
      /\ drained \in [ConnectorDays -> Nat]
  BY LegacyAssumption DEF IInv, TypeInv, TypeOK
<1>a. /\ c \notin batch /\ tree[c] # NoContent
      /\ cand[c].error # "READY" /\ drained[c] = 0
  BY DEF LegacyKept
<1> USE <1>0, <1>a DEF database, r2, phaseBVars, deleteVars, worker
<1>1. CASE UNCHANGED vars
  BY <1>1 DEF vars
<1>2. CASE StartRun
  BY <1>2 DEF StartRun
<1>3. CASE Environment
  BY <1>3 DEF Environment, OutboxDelivers, IngestWrite
<1>4. CASE PhaseB
  <2>1. CASE Populate
    <3>1. cand'[c] \in {cand[c], Populated(cand[c], Aggregate(ingest[c]))}
      BY <2>1 DEF Populate
    <3>2. Populated(cand[c], Aggregate(ingest[c])).error # "READY"
      BY DEF Populated, PersistentBlock, Candidates
    <3> QED
      BY <2>1, <3>1, <3>2 DEF Populate
  <2>2. ASSUME NEW d \in ConnectorDays, Revalidate(d)
        PROVE  cand'[c].error # "READY"
    <3>1. cand'[c] \in {cand[c], BlockedWithoutProof(cand[c]), Invalidated(cand[c])}
      BY <2>2 DEF Revalidate
    <3> QED
      BY <3>1 DEF BlockedWithoutProof, Invalidated, Candidates
  <2>3. ASSUME NEW d \in ConnectorDays, Revalidate(d)
        PROVE  UNCHANGED <<batch, tree, drained>>
    BY <2>3 DEF Revalidate
  <2>4. CASE \E d \in ConnectorDays : OpenConnectorGate(d)
    BY <2>4 DEF OpenConnectorGate
  <2>5. CASE Claim
    <3>1. cand'[c] \in {cand[c], InProgress(cand[c], run)}
      BY <2>5 DEF Claim
    <3> QED
      BY <2>5, <3>1 DEF Claim, InProgress, Candidates
  <2>6. CASE Freeze
    <3>1. cand'[c] \in {cand[c], Failed(cand[c], run, "message")}
      BY <2>6 DEF Freeze
    <3> QED
      BY <2>6, <3>1 DEF Freeze, Failed, Candidates
  <2>7. CASE Publish
    BY <2>7 DEF Publish, NothingCommitted
  <2>8. CASE RefusePublication
    <3>1. cand'[c] \in {cand[c], Failed(cand[c], run, "message"),
                        Failed(cand[c], run, "ISOLATED_BLOCK")}
      BY <2>8 DEF RefusePublication
    <3> QED
      BY <2>8, <3>1 DEF RefusePublication, Failed, Candidates
  <2>9. ASSUME NEW d \in ConnectorDays, RecordGateFailure(d)
        PROVE  /\ cand'[c].error # "READY"
               /\ UNCHANGED <<batch, tree, drained>>
    <3>1. cand'[c] \in {cand[c], Failed(cand[c], run, "GATE_RECOVERY_UNPROVEN")}
      BY <2>9 DEF RecordGateFailure
    <3> QED
      BY <2>9, <3>1 DEF RecordGateFailure, Failed, Candidates
  <2>10. CASE EndPhaseB
    BY <2>10 DEF EndPhaseB, WorkerIdle
  <2>11. CASE FetchPending \/ StartFinalization \/ FinalizeNothing
                \/ PublishHierarchy \/ PublishIndex \/ LeaveGates
                \/ FinalizeDayGates
    BY <2>11 DEF FetchPending, StartFinalization, FinalizeNothing,
        PublishHierarchy, PublishIndex, LeaveGates, FinalizeDayGates
  <2> QED
    BY <1>4, <2>1, <2>2, <2>3, <2>4, <2>5, <2>6, <2>7, <2>8, <2>9, <2>10,
       <2>11 DEF PhaseB
<1>5. CASE Deletion
  <2>1. CASE DeleteInvalidates
    <3>1. cand'[c] \in {cand[c], Invalidated(cand[c])}
      BY <2>1 DEF DeleteInvalidates
    <3> QED
      BY <2>1, <3>1 DEF DeleteInvalidates, LeaveTransaction, Invalidated, Candidates
  <2>2. CASE DeleteCommits
    <3>1. c # cur
      BY <2>2 DEF DeleteCommits, IdentityHolds, EvidenceAgrees
    <3> QED
      BY <2>2, <3>1 DEF DeleteCommits, ConsumeFirstDeletionAuthority, LeaveTransaction
  <2>3. CASE EndRun
    BY <2>3 DEF EndRun, WorkerIdle
  <2>4. CASE ~(DeleteInvalidates \/ DeleteCommits \/ EndRun)
    BY <1>5, <2>4 DEF Deletion, StartDay, Compare, RereadIngest, PlanVerified,
        PlanDirect, RepairBucket, BeginDelete, DeleteRollsBack,
        LeaveTransaction, FinishDay
  <2> QED
    BY <2>1, <2>2, <2>3, <2>4
<1>6. CASE Failures
  <2>1. CASE PublicationFails \/ BudgetStopsCandidate
    <3>1. cand'[c] \in {cand[c], Failed(cand[c], run, "message"),
                        StoppedForBudget(cand[c], run)}
      BY <2>1 DEF PublicationFails, BudgetStopsCandidate
    <3> QED
      BY <2>1, <3>1 DEF PublicationFails, BudgetStopsCandidate, Failed,
          StoppedForBudget, Candidates
  <2>2. CASE FinalizationFails \/ MarkingFails
    <3>1. \E S, budget : MarkPublished(S, budget)
      BY <2>2 DEF FinalizationFails, MarkingFails
    <3>2. \/ cand'[c] = cand[c]
          \/ cand'[c] = StoppedForBudget(cand[c], run)
          \/ cand'[c] = Failed(cand[c], run, "message")
      BY <3>1, MarkedBatch DEF IInv
    <3>3. cand'[c].error # "READY"
      BY <3>2 DEF Failed, StoppedForBudget, Candidates
    <3> QED
      BY <2>2, <3>3 DEF FinalizationFails, MarkingFails, WorkerIdle
  <2>3. CASE \E d \in ConnectorDays : GateUnconfirmed(d)
    BY <2>3 DEF GateUnconfirmed
  <2>4. CASE Crash
    BY <2>4 DEF Crash, WorkerIdle
  <2>5. CASE LateDayError \/ BudgetStopsDiscovery \/ BudgetStopsLoop
               \/ DayGatesFail
               \/ \E d \in ConnectorDays, h \in Hours : RepairFails(d, h)
    BY <2>5 DEF LateDayError, BudgetStopsDiscovery, BudgetStopsLoop,
        DayGatesFail, RepairFails
  <2> QED
    BY <1>6, <2>1, <2>2, <2>3, <2>4, <2>5 DEF Failures
<1> QED
  BY <1>1, <1>2, <1>3, <1>4, <1>5, <1>6 DEF Next

-----------------------------------------------------------------------------
(***************************************************************************)
(* The claims of a run.                                                    *)
(***************************************************************************)

(* An update that settles a claim leaves its row with no later number.      *)
LEMMA SettledRows ==
    ASSUME NEW row \in Candidates, NEW r \in Nat, row.run <= r
    PROVE  /\ \A agg : LET new == Populated(row, agg) IN
                \/ new.status = row.status /\ new.run = row.run
                \/ new.status # "in_progress" /\ new.run <= r
           /\ BlockedWithoutProof(row).status = "failed"
           /\ BlockedWithoutProof(row).run = row.run
           /\ Invalidated(row).status = "pending" /\ Invalidated(row).run <= r
           /\ Consumed(row).status = row.status /\ Consumed(row).run = row.run
           /\ \A e : Failed(row, r, e).status = "failed" /\ Failed(row, r, e).run = r
           /\ \A x : /\ Completed(row, r, x).status = "complete"
                    /\ Completed(row, r, x).run = r
           /\ StoppedForBudget(row, r).status = "pending"
           /\ StoppedForBudget(row, r).run = r
           /\ InProgress(row, r).run = r
<1>1. row = [status |-> row.status, run |-> row.run, error |-> row.error,
             expected |-> row.expected, hash |-> row.hash]
  BY DEF Candidates
<1>2. \A agg : LET new == Populated(row, agg) IN
                \/ new.status = row.status /\ new.run = row.run
                \/ new.status # "in_progress" /\ new.run <= r
  <2> SUFFICES ASSUME NEW agg
               PROVE  LET new == Populated(row, agg) IN
                        \/ new.status = row.status /\ new.run = row.run
                        \/ new.status # "in_progress" /\ new.run <= r
    OBVIOUS
  <2>1. CASE PersistentBlock(row)
    <3>1. Populated(row, agg).status = "failed" /\ Populated(row, agg).run = row.run
      BY <1>1, <2>1 DEF Populated
    <3> QED
      BY <3>1
  <2>2. CASE ~PersistentBlock(row)
    BY <2>2 DEF Populated, NoRun
  <2> QED
    BY <2>1, <2>2
<1>3. /\ BlockedWithoutProof(row).status = "failed"
      /\ BlockedWithoutProof(row).run = row.run
      /\ Consumed(row).status = row.status /\ Consumed(row).run = row.run
  BY <1>1 DEF BlockedWithoutProof, Consumed
<1>4. Invalidated(row).status = "pending" /\ Invalidated(row).run <= r
  BY <1>1 DEF Invalidated, NoRun
<1>5. \A e : Failed(row, r, e).status = "failed" /\ Failed(row, r, e).run = r
  BY <1>1 DEF Failed
<1>6. \A x : Completed(row, r, x).status = "complete" /\ Completed(row, r, x).run = r
  BY <1>1 DEF Completed
<1>7. /\ StoppedForBudget(row, r).status = "pending"
      /\ StoppedForBudget(row, r).run = r /\ InProgress(row, r).run = r
  BY <1>1 DEF StoppedForBudget, InProgress
<1> QED
  BY <1>2, <1>3, <1>4, <1>5, <1>6, <1>7

(* A step loses sight of no claim of the run.                              *)
LEMMA ClaimsStep == IInv /\ ClaimsAccounted /\ [Next]_vars => ClaimsAccounted'
<1> SUFFICES ASSUME IInv, ClaimsAccounted, [Next]_vars
             PROVE  ClaimsAccounted'
  OBVIOUS
<1>0. /\ cand \in [ConnectorDays -> Candidates] /\ run \in Nat
      /\ batch \subseteq ConnectorDays /\ unconfirmed \subseteq ConnectorDays
      /\ gated \subseteq ConnectorDays
      /\ drained \in [ConnectorDays -> Nat]
      /\ \A c \in ConnectorDays : cand[c] \in Candidates
  BY DEF IInv, TypeInv, TypeOK
<1>a. /\ batch # {} => pc \in BatchSteps
      /\ \A c \in batch : Held(c) /\ drained[c] = 0
  BY DEF IInv, Evidence, BatchHeld
<1> USE <1>0, <1>a DEF ClaimsAccounted, BatchSteps, database, r2, phaseBVars,
                       deleteVars, worker, DeleteSteps
<1>b. \A c \in ConnectorDays : cand[c].run \in Nat /\ cand[c].run <= run
  BY DEF Candidates
<1> USE <1>b
<1>1. CASE UNCHANGED vars
  BY <1>1 DEF vars
<1>2. CASE StartRun
  <2>1. run' = run + 1 /\ pc = "idle" /\ gated = {} /\ unconfirmed = {}
        /\ UNCHANGED <<cand, drained, gated, unconfirmed>>
    BY <1>2 DEF StartRun
  <2>2. \A c \in ConnectorDays : cand'[c].run <= run' /\ cand'[c].run # run'
    BY <2>1
  <2> QED
    BY <2>1, <2>2
<1>3. CASE Environment
  BY <1>3 DEF Environment, OutboxDelivers, IngestWrite
<1>4. CASE PhaseB
  <2>1. CASE Populate
    <3>1. \A c \in ConnectorDays :
            \/ cand'[c].status = cand[c].status /\ cand'[c].run = cand[c].run
            \/ cand'[c].status # "in_progress" /\ cand'[c].run <= run
      <4> HIDE DEF ClaimsAccounted
      <4> SUFFICES ASSUME NEW c \in ConnectorDays
                   PROVE  \/ cand'[c].status = cand[c].status /\ cand'[c].run = cand[c].run
                          \/ cand'[c].status # "in_progress" /\ cand'[c].run <= run
        OBVIOUS
      <4>1. cand'[c] = cand[c] \/ cand'[c] = Populated(cand[c], Aggregate(ingest[c]))
        BY <2>1 DEF Populate
      <4> QED
        BY <4>1, SettledRows
    <3> QED
      BY <2>1, <3>1 DEF Populate
  <2>2. ASSUME NEW d \in ConnectorDays, Revalidate(d)
        PROVE  ClaimsAccounted'
    <3>1. \A c \in ConnectorDays :
            \/ cand'[c].status = cand[c].status /\ cand'[c].run = cand[c].run
            \/ cand'[c].status # "in_progress" /\ cand'[c].run <= run
      <4> HIDE DEF ClaimsAccounted
      <4> SUFFICES ASSUME NEW c \in ConnectorDays
                   PROVE  \/ cand'[c].status = cand[c].status /\ cand'[c].run = cand[c].run
                          \/ cand'[c].status # "in_progress" /\ cand'[c].run <= run
        OBVIOUS
      <4>1. \/ cand'[c] = cand[c]
            \/ cand'[c] = BlockedWithoutProof(cand[c])
            \/ cand'[c] = Invalidated(cand[c])
        BY <2>2 DEF Revalidate
      <4> QED
        BY <4>1, SettledRows
    <3> QED
      BY <2>2, <3>1 DEF Revalidate
  <2>3. ASSUME NEW d \in ConnectorDays, OpenConnectorGate(d)
        PROVE  ClaimsAccounted'
    <3>1. cand' = [cand EXCEPT ![d] = Completed(cand[d], run, frozen[d])]
      BY <2>3 DEF OpenConnectorGate
    <3>2. cand'[d].status = "complete" /\ cand'[d].run = run
      BY <3>1, SettledRows
    <3> QED
      BY <2>3, <3>1, <3>2 DEF OpenConnectorGate
  <2>4. CASE Claim
    <3>1. /\ cur' \in ConnectorDays /\ pc' = "claimed"
          /\ cand' = [cand EXCEPT ![cur'] = InProgress(cand[cur'], run)]
          /\ pc = "candidates" /\ gated = {}
          /\ UNCHANGED <<run, batch, gated, unconfirmed, drained>>
      BY <2>4, FirstIsMember DEF Claim, IInv, TypeInv, TypeOK
    <3>2. cand'[cur'].run = run
      BY <3>1, SettledRows
    <3> QED
      BY <3>1, <3>2
  <2>5. CASE Freeze
    <3>1. /\ cur \in ConnectorDays /\ pc = "claimed"
          /\ unconfirmed = {} /\ gated = {}
          /\ UNCHANGED <<run, batch, gated, unconfirmed, drained>>
      BY <2>5 DEF Freeze, IInv, TypeInv, CurKnown
    <3>2. CASE Cardinality(Rows(ingest[cur])) = cand[cur].expected.n
      BY <2>5, <3>1, <3>2 DEF Freeze
    <3>3. CASE Cardinality(Rows(ingest[cur])) # cand[cur].expected.n
      <4>1. /\ cand' = [cand EXCEPT ![cur] = Failed(cand[cur], run, "message")]
            /\ pc' = "candidates"
        BY <2>5, <3>3 DEF Freeze
      <4>2. cand'[cur].status = "failed" /\ cand'[cur].run = run
        BY <3>1, <4>1, SettledRows
      <4> QED
        BY <3>1, <4>1, <4>2
    <3> QED
      BY <3>2, <3>3
  <2>6. CASE Publish
    BY <2>6 DEF Publish
  <2>7. CASE RefusePublication
    <3>1. cur \in ConnectorDays
      BY <2>7 DEF RefusePublication, IInv, TypeInv, CurKnown
    <3>2. cand'[cur].status = "failed" /\ cand'[cur].run = run
      <4>1. \E e : cand' = [cand EXCEPT ![cur] = Failed(cand[cur], run, e)]
        BY <2>7 DEF RefusePublication
      <4> QED
        BY <3>1, <4>1, SettledRows
    <3>3. \A c \in ConnectorDays \ {cur} : cand'[c] = cand[c]
      BY <2>7 DEF RefusePublication
    <3> QED
      BY <2>7, <3>1, <3>2, <3>3 DEF RefusePublication
  <2>8. ASSUME NEW d \in ConnectorDays, RecordGateFailure(d)
        PROVE  ClaimsAccounted'
    <3>1. cand'[d].status = "failed" /\ cand'[d].run = run
      BY <2>8, SettledRows DEF RecordGateFailure
    <3>2. \A c \in ConnectorDays \ {d} : cand'[c] = cand[c]
      BY <2>8 DEF RecordGateFailure
    <3> QED
      BY <2>8, <3>1, <3>2 DEF RecordGateFailure
  <2>9. CASE EndPhaseB
    BY <2>9 DEF EndPhaseB, WorkerIdle
  <2>10. CASE FetchPending \/ StartFinalization \/ FinalizeNothing
                \/ PublishHierarchy \/ PublishIndex \/ LeaveGates
                \/ FinalizeDayGates
    BY <2>10 DEF FetchPending, StartFinalization, FinalizeNothing,
        PublishHierarchy, PublishIndex, LeaveGates, FinalizeDayGates
  <2> QED
    BY <1>4, <2>1, <2>2, <2>3, <2>4, <2>5, <2>6, <2>7, <2>8, <2>9, <2>10
    DEF PhaseB
<1>5. CASE Deletion
  <2>1. CASE DeleteInvalidates \/ DeleteCommits
    <3>1. /\ cur \in ConnectorDays /\ pc = "txn" /\ pc' = "delete"
          /\ unconfirmed = {} /\ gated = {}
          /\ UNCHANGED <<run, batch, gated, unconfirmed>>
      BY <2>1 DEF DeleteInvalidates, DeleteCommits, LeaveTransaction, IInv,
          TypeInv, CurKnown
    <3>2. \A c \in ConnectorDays \ {cur} : cand'[c] = cand[c]
      BY <2>1 DEF DeleteInvalidates, DeleteCommits, ConsumeFirstDeletionAuthority
    <3>3. \/ cand'[cur] = cand[cur]
          \/ cand'[cur] = Invalidated(cand[cur])
          \/ cand'[cur] = Consumed(cand[cur])
      BY <2>1, <3>1 DEF DeleteInvalidates, DeleteCommits, ConsumeFirstDeletionAuthority
    <3>4. \/ cand'[cur].status = cand[cur].status /\ cand'[cur].run = cand[cur].run
          \/ cand'[cur].status = "pending" /\ cand'[cur].run <= run
      BY <3>1, <3>3, SettledRows
    <3> QED
      BY <3>1, <3>2, <3>4
  <2>2. CASE EndRun
    BY <2>2 DEF EndRun, WorkerIdle
  <2>3. CASE ~(DeleteInvalidates \/ DeleteCommits \/ EndRun)
    BY <1>5, <2>3 DEF Deletion, StartDay, Compare, RereadIngest, PlanVerified,
        PlanDirect, RepairBucket, BeginDelete, DeleteRollsBack,
        LeaveTransaction, FinishDay
  <2> QED
    BY <2>1, <2>2, <2>3
<1>6. CASE Failures
  <2>1. CASE PublicationFails \/ BudgetStopsCandidate
    <3>1. /\ cur \in ConnectorDays /\ pc = "frozen" /\ pc' = "candidates"
          /\ gated = {} /\ UNCHANGED <<run, batch, gated, unconfirmed, drained>>
      BY <2>1 DEF PublicationFails, BudgetStopsCandidate, IInv, TypeInv, CurKnown
    <3>2. cand'[cur].status # "in_progress" /\ cand'[cur].run = run
      <4>1. \/ cand' = [cand EXCEPT ![cur] = Failed(cand[cur], run, "message")]
            \/ cand' = [cand EXCEPT ![cur] = StoppedForBudget(cand[cur], run)]
        BY <2>1 DEF PublicationFails, BudgetStopsCandidate
      <4> QED
        BY <3>1, <4>1, SettledRows
    <3>3. \A c \in ConnectorDays \ {cur} : cand'[c] = cand[c]
      BY <2>1 DEF PublicationFails, BudgetStopsCandidate
    <3> QED
      BY <3>1, <3>2, <3>3
  <2>2. CASE FinalizationFails
    <3>1. PICK budget \in BOOLEAN :
            /\ FinalizationRaises(budget)
            /\ MarkPublished(batch \cup gated, budget)
      BY <2>2 DEF FinalizationFails
    <3>2. \A c \in batch \cup gated :
            cand'[c].status # "in_progress" /\ cand'[c].run = run
      <4>1. \A c \in batch \cup gated :
              \/ cand'[c] = Failed(cand[c], run, "message")
              \/ cand'[c] = StoppedForBudget(cand[c], run)
        BY <3>1, MarkedBatch DEF IInv
      <4> QED
        BY <4>1, SettledRows
    <3>3. \A c \in ConnectorDays \ (batch \cup gated) : cand'[c] = cand[c]
      BY <3>1, MarkedBatch DEF IInv
    <3>4. /\ pc' = "finalize" /\ batch' = {} /\ gated' = {} /\ unconfirmed' = {}
          /\ pc \notin {"claimed", "frozen", "idle"} /\ UNCHANGED run
      BY <2>2, <3>1 DEF FinalizationFails, FinalizationRaises
    <3>5. \A c \in ConnectorDays :
            /\ cand'[c].run <= run
            /\ cand'[c].status = "in_progress" => cand'[c].run # run
      BY <3>2, <3>3, <3>4
    <3> QED
      BY <3>4, <3>5
  <2>3. ASSUME NEW d \in ConnectorDays, GateUnconfirmed(d)
        PROVE  ClaimsAccounted'
    <3>1. \/ cand' = cand
          \/ cand' = [cand EXCEPT ![d] = Completed(cand[d], run, frozen[d])]
      BY <2>3 DEF GateUnconfirmed
    <3>2. \A c \in ConnectorDays :
            \/ cand'[c] = cand[c]
            \/ cand'[c].status = "complete" /\ cand'[c].run = run
      <4> HIDE DEF ClaimsAccounted
      <4> SUFFICES ASSUME NEW c \in ConnectorDays
                   PROVE  \/ cand'[c] = cand[c]
                          \/ cand'[c].status = "complete" /\ cand'[c].run = run
        OBVIOUS
      <4>1. cand'[c] = cand[c] \/ cand'[c] = Completed(cand[c], run, frozen[d])
        BY <3>1
      <4> QED
        BY <4>1, SettledRows
    <3> QED
      BY <2>3, <3>2 DEF GateUnconfirmed
  <2>4. CASE Crash
    BY <2>4 DEF Crash, WorkerIdle
  <2>6. CASE MarkingFails
    <3>1. \E S, budget : MarkPublished(S, budget)
      BY <2>6 DEF MarkingFails
    <3>2. \A c \in ConnectorDays : cand'[c].run <= run
      <4> HIDE DEF ClaimsAccounted
      <4> SUFFICES ASSUME NEW c \in ConnectorDays PROVE cand'[c].run <= run
        OBVIOUS
      <4>1. \/ cand'[c] = cand[c]
            \/ cand'[c] = StoppedForBudget(cand[c], run)
            \/ cand'[c] = Failed(cand[c], run, "message")
        BY <3>1, MarkedBatch DEF IInv
      <4> QED
        BY <4>1, SettledRows
    <3>3. /\ pc' = "idle" /\ gated' = {} /\ unconfirmed' = {}
          /\ UNCHANGED run
      BY <2>6 DEF MarkingFails, WorkerIdle
    <3> QED
      BY <3>2, <3>3
  <2>5. CASE LateDayError \/ BudgetStopsDiscovery \/ BudgetStopsLoop
               \/ DayGatesFail
               \/ \E d \in ConnectorDays, h \in Hours : RepairFails(d, h)
    BY <2>5 DEF LateDayError, BudgetStopsDiscovery, BudgetStopsLoop,
        DayGatesFail, RepairFails
  <2> QED
    BY <1>6, <2>1, <2>2, <2>3, <2>4, <2>5, <2>6 DEF Failures
<1> QED
  BY <1>1, <1>2, <1>3, <1>4, <1>5, <1>6 DEF Next

-----------------------------------------------------------------------------
(***************************************************************************)
(* What a plan was made from.                                              *)
(***************************************************************************)

(* Rows leave IngestDB in the deletion of their own connector-day alone.   *)
LEMMA IngestGrows ==
    ASSUME IInv, [Next]_vars, NEW c \in ConnectorDays,
           ~(DeleteCommits /\ c = cur)
    PROVE  Rows(ingest[c]) \subseteq Rows(ingest'[c])
<1>0. ingest \in [ConnectorDays -> Contents]
  BY DEF IInv, TypeInv, TypeOK
<1>1. CASE ingest' = ingest
  BY <1>1
<1>2. CASE DeleteCommits
  BY <1>0, <1>2 DEF DeleteCommits
<1>3. ASSUME NEW d \in ConnectorDays, NEW j \in Keys, NEW v \in Values,
             IngestWrite(d, j, v)
      PROVE  Rows(ingest[c]) \subseteq Rows(ingest'[c])
  BY <1>0, <1>3, NoRowAssumption DEF IngestWrite, Rows, Contents
<1> QED
  BY <1>1, <1>2, <1>3, WhoChangesIngest

(* Rows never leave ObsAqiDB in the model: partitions older than its       *)
(* retention are dropped long after the windows that compare them.         *)
LEMMA ObservsGrow ==
    ASSUME IInv, [Next]_vars, NEW c \in ConnectorDays
    PROVE  Rows(observs[c]) \subseteq Rows(observs'[c])
<1>0. observs \in [ConnectorDays -> Contents] /\ observs[c] \in Contents
  BY DEF IInv, TypeInv, TypeOK
<1> USE DEF database
<1>1. CASE StartRun \/ UNCHANGED vars
  BY <1>1 DEF StartRun, vars
<1>2. CASE PhaseB
  BY <1>2 DEF PhaseB, Populate, FetchPending, Revalidate, OpenConnectorGate,
      StartFinalization, Claim, Freeze, Publish, RefusePublication,
      FinalizeNothing, PublishHierarchy, PublishIndex,
      RecordGateFailure, LeaveGates, FinalizeDayGates, EndPhaseB
<1>3. ASSUME NEW d \in ConnectorDays, NEW h \in Hours, RepairBucket(d, h)
      PROVE  Rows(observs[c]) \subseteq Rows(observs'[c])
  <2>1. CASE c # d
    BY <1>0, <1>3, <2>1 DEF RepairBucket
  <2>2. CASE c = d
    <3>1. observs'[c] = Replay(observs[c], ingest[c], h)
      BY <1>0, <1>3, <2>2 DEF RepairBucket
    <3> QED
      BY <3>1 DEF Replay, Bucket, Rows
  <2> QED
    BY <2>1, <2>2
<1>4. CASE Deletion /\ ~\E d \in ConnectorDays, h \in Hours : RepairBucket(d, h)
  BY <1>4 DEF Deletion, StartDay, Compare, RereadIngest, PlanVerified, PlanDirect,
      BeginDelete, DeleteInvalidates, DeleteRollsBack, DeleteCommits,
      LeaveTransaction, FinishDay, EndRun
<1>5. ASSUME NEW d \in ConnectorDays, NEW h \in Hours, RepairFails(d, h)
      PROVE  Rows(observs[c]) \subseteq Rows(observs'[c])
  <2>1. CASE c # d
    BY <1>0, <1>5, <2>1 DEF RepairFails
  <2>2. CASE c = d
    <3>1. PICK done \in SUBSET Bucket(ingest[c], h) :
            observs'[c] = [k \in Keys |-> IF k \in done THEN ingest[c][k]
                                                       ELSE observs[c][k]]
      BY <1>0, <1>5, <2>2 DEF RepairFails
    <3>2. done \subseteq Rows(ingest[c])
      BY DEF Bucket
    <3> QED
      BY <3>1, <3>2 DEF Rows
  <2> QED
    BY <2>1, <2>2
<1>6. CASE Failures /\ ~\E d \in ConnectorDays, h \in Hours : RepairFails(d, h)
  BY <1>6 DEF Failures, Crash, LateDayError, BudgetStopsDiscovery, BudgetStopsLoop,
      PublicationFails, BudgetStopsCandidate, FinalizationFails,
      MarkingFails, DayGatesFail, GateUnconfirmed
<1>7. CASE Environment
  BY <1>0, <1>7 DEF Environment, OutboxDelivers, IngestWrite, Rows, Contents
<1> QED
  BY <1>1, <1>2, <1>3, <1>4, <1>5, <1>6, <1>7 DEF Next, Deletion, Failures

(* Without a plan, outside the deletion steps, there is nothing to hold.   *)
LEMMA NothingPlanned ==
    ASSUME plan' = {}, pc' \in {"idle", "days"} \cup PhaseBSteps
    PROVE  PlanHeld' /\ \A c \in ConnectorDays : ~Planned(c)'
  BY DEF PlanHeld, Planned, PhaseBSteps

(* Neither the writers nor another step of the window disturb a plan.      *)
LEMMA PlanUndisturbed ==
    ASSUME IInv, PlanHeld, [Next]_vars, ~DeleteCommits,
           UNCHANGED <<pc, cur, agenda, seen, plan, snap>>
    PROVE  PlanHeld'
  BY IngestGrows, ObservsGrow DEF PlanHeld, Planned

(* No step takes away what a plan rests on.                                *)
LEMMA PlanStep == IInv /\ PlanHeld /\ [Next]_vars => PlanHeld'
<1> SUFFICES ASSUME IInv, PlanHeld, [Next]_vars
             PROVE  PlanHeld'
  OBVIOUS
<1>0. /\ plan # {} => pc \in {"delete", "txn"}
      /\ plan \subseteq ConnectorDays
      /\ seen \in [ConnectorDays -> Contents]
      /\ ingest \in [ConnectorDays -> Contents]
      /\ observs \in [ConnectorDays -> Contents]
  BY DEF PlanHeld, IInv, TypeInv, TypeOK
<1> USE <1>0 DEF database, r2, phaseBVars, deleteVars, worker, PhaseBSteps, DeleteSteps
<1>1. CASE UNCHANGED vars
  BY <1>1, PlanUndisturbed DEF vars, DeleteCommits, LeaveTransaction
<1>2. CASE StartRun
  <2>1. plan' = {} /\ pc' \in {"populate", "days"}
    BY <1>2 DEF StartRun
  <2> QED
    BY <2>1, NothingPlanned
<1>3. CASE Environment
  BY <1>3, PlanUndisturbed DEF Environment, OutboxDelivers, IngestWrite,
     DeleteCommits, LeaveTransaction
<1>4. CASE PhaseB
  <2>1. plan' = {} /\ pc' \in {"idle", "days"} \cup PhaseBSteps
    BY <1>4 DEF PhaseB, Populate, FetchPending, Revalidate, OpenConnectorGate,
        StartFinalization, Claim, Freeze, Publish, RefusePublication,
        FinalizeNothing, PublishHierarchy, PublishIndex,
        RecordGateFailure, LeaveGates, FinalizeDayGates, EndPhaseB, WorkerIdle
  <2> QED
    BY <2>1, NothingPlanned
<1>5. CASE StartDay
  <2>1. /\ \A c \in ConnectorDays : seen'[c] \in {ingest[c], Empty}
        /\ UNCHANGED <<ingest, agenda, plan>> /\ plan = {}
        /\ pc' = "plan" => Head(agenda).mode = "late_direct"
        /\ pc' \in {"plan", "compare"}
    BY <1>5 DEF StartDay, SeenOf
  <2>2. Rows(Empty) = {}
    BY DEF Rows, Empty
  <2> QED
    BY <2>1, <2>2 DEF PlanHeld, Planned
<1>6. CASE Compare
  BY <1>6 DEF Compare, PlanHeld, Planned
<1>7. ASSUME NEW d \in ConnectorDays, NEW h \in Hours, RepairBucket(d, h)
      PROVE  PlanHeld'
  BY <1>7, PlanUndisturbed DEF RepairBucket, DeleteCommits
<1>8. CASE RereadIngest
  <2>1. /\ \A c \in ConnectorDays : seen'[c] \in {ingest[c], Empty}
        /\ UNCHANGED <<ingest, agenda, plan>> /\ plan = {}
        /\ pc' = "recompare"
    BY <1>8 DEF RereadIngest, SeenOf
  <2>2. Rows(Empty) = {}
    BY DEF Rows, Empty
  <2> QED
    BY <2>1, <2>2 DEF PlanHeld, Planned
<1>9. CASE PlanVerified
  <2>1. /\ pc = "recompare" /\ pc' = "delete"
        /\ \A c \in plan' : Mismatches(seen[c], observs[c]) = {}
        /\ UNCHANGED <<ingest, observs, seen, agenda>>
    BY <1>9 DEF PlanVerified
  <2>2. ASSUME NEW c \in plan' PROVE Rows(seen[c]) \subseteq Rows(observs[c])
    <3>1. ASSUME NEW k \in Rows(seen[c]) PROVE k \in Rows(observs[c])
      <4>1. Hour(k) \in Buckets(seen[c])
        BY DEF Buckets, Bucket, Hours, Rows
      <4>2. SameFingerprint(seen[c], observs[c], Hour(k))
        BY <2>1, <4>1 DEF Mismatches
      <4> QED
        BY <4>2 DEF SameFingerprint, Bucket
    <3> QED
      BY <3>1
  <2> QED
    BY <2>1, <2>2 DEF PlanHeld, Planned
<1>10. CASE PlanDirect
  BY <1>10 DEF PlanDirect, PlanHeld, Planned
<1>11. CASE BeginDelete
  <2>1. /\ cur' \in plan /\ plan' = plan \ {cur'} /\ snap' = ingest[cur']
        /\ pc = "delete" /\ pc' = "txn"
        /\ UNCHANGED <<ingest, observs, seen, agenda>>
    BY <1>11, FirstIsMember DEF BeginDelete
  <2> QED
    BY <2>1 DEF PlanHeld, Planned
<1>12. CASE DeleteInvalidates \/ DeleteRollsBack
  <2>1. /\ pc' = "delete" /\ UNCHANGED <<ingest, observs, seen, agenda, plan>>
    BY <1>12 DEF DeleteInvalidates, DeleteRollsBack, LeaveTransaction
  <2> QED
    BY <2>1 DEF PlanHeld, Planned
<1>13. CASE DeleteCommits
  <2>1. /\ pc = "txn" /\ pc' = "delete" /\ UNCHANGED <<observs, seen, agenda, plan>>
    BY <1>13 DEF DeleteCommits, LeaveTransaction
  <2>2. \A c \in plan : Rows(seen[c]) \subseteq Rows(ingest'[c])
    BY <1>0, <2>1, IngestGrows DEF PlanHeld
  <2> QED
    BY <2>1, <2>2 DEF PlanHeld, Planned
<1>14. CASE FinishDay \/ EndRun
  <2>1. plan' = {} /\ pc' \in {"idle", "days"}
    BY <1>14 DEF FinishDay, EndRun, WorkerIdle
  <2> QED
    BY <2>1, NothingPlanned
<1>15. CASE Deletion
  BY <1>5, <1>6, <1>7, <1>8, <1>9, <1>10, <1>11, <1>12, <1>13, <1>14, <1>15
  DEF Deletion
<1>16. CASE Failures
  <2>1. CASE \E d \in ConnectorDays, h \in Hours : RepairFails(d, h)
    BY <2>1, PlanUndisturbed DEF RepairFails, DeleteCommits
  <2>2. CASE ~\E d \in ConnectorDays, h \in Hours : RepairFails(d, h)
    <3>1. plan' = {} /\ pc' \in {"idle", "days"} \cup PhaseBSteps
      BY <1>16, <2>2 DEF Failures, Crash, LateDayError, BudgetStopsDiscovery,
          BudgetStopsLoop, PublicationFails, BudgetStopsCandidate,
          FinalizationFails, FinalizationRaises, MarkingFails, DayGatesFail,
          GateUnconfirmed, WorkerIdle
    <3> QED
      BY <3>1, NothingPlanned
  <2> QED
    BY <2>1, <2>2
<1> QED
  BY <1>1, <1>2, <1>3, <1>4, <1>15, <1>16 DEF Next

-----------------------------------------------------------------------------
(***************************************************************************)
(* The marker of a drained connector-day.                                  *)
(***************************************************************************)

(* A drained row with its marker, beside a gate that is not open.          *)
Marked(row, g) ==
    row.error = "CONSUMED" /\ row.status \in {"complete", "failed"} /\ ~g.done

(* Discovery and revalidation keep the marker.                             *)
LEMMA MarkedRows ==
    ASSUME NEW row \in Candidates, NEW g, Marked(row, g)
    PROVE  /\ \A agg : Marked(Populated(row, agg), g)
           /\ \A agg : Marked(Populated(row, agg), ClosedGate)
           /\ Marked(BlockedWithoutProof(row), ClosedGate)
  BY DEF Marked, Populated, PersistentBlock, PersistentMarkers,
         BlockedWithoutProof, ClosedGate, Candidates

(* A step takes the marker from no drained connector-day.                  *)
LEMMA MarkerStep ==
    IInv /\ ClaimsAccounted /\ PlanHeld /\ MarkerKept /\ [Next]_vars => MarkerKept'
<1> DEFINE Fresh == \A c \in ConnectorDays : Planned(c) => drained[c] = 0
<1> SUFFICES ASSUME IInv, ClaimsAccounted, PlanHeld, [Next]_vars,
                    PhaseBModes \subseteq {TRUE},
                    pc # "idle" => phaseB, Fresh, ConsumedRemembered
             PROVE  (pc' # "idle" => phaseB') /\ Fresh' /\ ConsumedRemembered'
  BY DEF MarkerKept
<1>0. /\ cand \in [ConnectorDays -> Candidates] /\ gate \in [ConnectorDays -> Gates]
      /\ drained \in [ConnectorDays -> Nat] /\ plan \subseteq ConnectorDays
      /\ batch \subseteq ConnectorDays /\ unconfirmed \subseteq ConnectorDays
  BY DEF IInv, TypeInv, TypeOK
<1>a. \A c \in batch \cup gated \cup unconfirmed : drained[c] = 0
  BY DEF IInv, Evidence, BatchHeld, ClaimsAccounted
<1>b. pc \in {"claimed", "frozen"} => cur \in ConnectorDays /\ drained[cur] = 0
  <2>1. pc \in {"claimed", "frozen"} =>
          cur \in ConnectorDays /\ cand[cur].status = "in_progress"
    BY DEF IInv, TypeInv, CurKnown, Evidence, CurHeld, Held
  <2> QED
    BY <1>0, <2>1 DEF ConsumedRemembered
<1>c. \A c \in ConnectorDays : ValidGate(gate[c]) => drained[c] = 0
  BY DEF IInv, Evidence, RowsConsistent, Consistent
<1>d. \A c \in ConnectorDays : drained[c] > 0 => Marked(cand[c], gate[c])
  BY DEF ConsumedRemembered, Marked
<1>e. ConsumedRemembered' <=>
        \A c \in ConnectorDays : drained'[c] > 0 => Marked(cand'[c], gate'[c])
  BY DEF ConsumedRemembered, Marked
<1> DEFINE Kept == \A c \in ConnectorDays :
                      drained'[c] > 0 => Marked(cand'[c], gate'[c])
<1>f. ASSUME UNCHANGED drained,
             \A c \in ConnectorDays : drained[c] > 0 => UNCHANGED <<cand[c], gate[c]>>
      PROVE  Kept
  BY <1>d, <1>f
<1> HIDE DEF Kept
<1>1. Kept
  <2> USE DEF database
  <2>1. CASE UNCHANGED <<cand, gate, drained>>
    BY <1>f, <2>1
  <2>2. CASE Populate
    <3>1. UNCHANGED drained
      BY <2>2 DEF Populate
    <3>2. ASSUME NEW c \in ConnectorDays, drained[c] > 0
          PROVE  Marked(cand'[c], gate'[c])
      <4>1. /\ cand'[c] = cand[c] \/ cand'[c] = Populated(cand[c], Aggregate(ingest[c]))
            /\ gate'[c] = gate[c] \/ gate'[c] = ClosedGate
        BY <1>0, <2>2 DEF Populate
      <4>2. Marked(cand[c], gate[c]) /\ Marked(cand[c], ClosedGate)
        BY <1>d, <3>2 DEF Marked, ClosedGate
      <4> QED
        BY <1>0, <4>1, <4>2, MarkedRows
    <3> QED
      BY <3>1, <3>2 DEF Kept
  <2>3. ASSUME NEW d \in ConnectorDays, Revalidate(d)
        PROVE  Kept
    <3>1. CASE drained[d] = 0
      BY <1>0, <1>f, <2>3, <3>1 DEF Revalidate
    <3>2. CASE drained[d] > 0
      <4>1. cand[d].error # "READY"
        BY <1>d, <3>2 DEF Marked
      <4>2. /\ cand' = [cand EXCEPT ![d] = BlockedWithoutProof(cand[d])]
            /\ gate' = [gate EXCEPT ![d] = ClosedGate] /\ UNCHANGED drained
        BY <2>3, <4>1 DEF Revalidate
      <4>3. Marked(cand'[d], gate'[d])
        BY <1>0, <1>d, <3>2, <4>2, MarkedRows
      <4> QED
        BY <1>0, <1>d, <4>2, <4>3 DEF Kept
    <3> QED
      BY <1>0, <3>1, <3>2
  <2>4. ASSUME NEW d \in ConnectorDays, OpenConnectorGate(d) \/ GateUnconfirmed(d)
        PROVE  Kept
    BY <1>0, <1>a, <1>f, <2>4 DEF OpenConnectorGate, GateUnconfirmed
  <2>5. CASE Claim
    <3>1. cur' \in ConnectorDays /\ cand[cur'].status = "pending"
      BY <2>5, FirstIsMember DEF Claim, IInv, TypeInv, TypeOK
    <3>2. ~(drained[cur'] > 0)
      BY <1>d, <3>1 DEF Marked
    <3> QED
      BY <1>0, <1>f, <2>5, <3>1, <3>2 DEF Claim
  <2>6. CASE Freeze \/ RefusePublication \/ PublicationFails \/ BudgetStopsCandidate
    BY <1>0, <1>b, <1>f, <2>6 DEF Freeze, RefusePublication, PublicationFails,
        BudgetStopsCandidate
  <2>7. CASE \E d \in ConnectorDays : RecordGateFailure(d)
    BY <1>0, <1>a, <1>f, <2>7 DEF RecordGateFailure
  <2>14. CASE FinalizationFails \/ MarkingFails
    <3>1. \E S \in SUBSET (batch \cup gated), budget \in BOOLEAN : MarkPublished(S, budget)
      BY <2>14 DEF FinalizationFails, MarkingFails
    <3>2. \A c \in ConnectorDays : drained[c] > 0 => cand'[c] = cand[c]
      BY <1>a, <3>1, MarkedBatch DEF IInv
    <3>3. UNCHANGED <<gate, drained>>
      BY <2>14 DEF FinalizationFails, MarkingFails
    <3> QED
      BY <1>f, <3>2, <3>3
  <2>8. CASE DeleteInvalidates
    <3>1. cur \in ConnectorDays /\ drained[cur] = 0
      BY <2>8 DEF DeleteInvalidates, Planned, IInv, TypeInv, CurKnown
    <3> QED
      BY <1>0, <1>f, <2>8, <3>1 DEF DeleteInvalidates
  <2>9. CASE DeleteCommits
    <3>1. /\ cur \in ConnectorDays /\ cand[cur].status = "complete"
          /\ cand' = [cand EXCEPT ![cur] = Consumed(cand[cur])]
          /\ gate' = [gate EXCEPT ![cur].done = FALSE]
      BY <2>9, DeletionFacts DEF DeleteCommits, IdentityHolds, EvidenceAgrees,
          ConsumeFirstDeletionAuthority
    <3>2. Marked(cand'[cur], gate'[cur])
      BY <1>0, <3>1 DEF Consumed, Marked, Candidates, Gates
    <3>3. \A c \in ConnectorDays \ {cur} :
            UNCHANGED <<cand[c], gate[c], drained[c]>>
      BY <1>0, <2>9, <3>1 DEF DeleteCommits
    <3> QED
      BY <1>d, <3>2, <3>3 DEF Kept
  <2>10. CASE PhaseB
    BY <1>f, <2>1, <2>2, <2>3, <2>4, <2>5, <2>6, <2>7, <2>10 DEF PhaseB, FetchPending,
        StartFinalization, Publish, FinalizeNothing, PublishHierarchy,
        PublishIndex, LeaveGates, FinalizeDayGates, EndPhaseB
  <2>11. CASE Deletion
    BY <2>1, <2>8, <2>9, <2>11 DEF Deletion, StartDay, Compare, RereadIngest,
        PlanVerified, PlanDirect, RepairBucket, BeginDelete, DeleteRollsBack,
        LeaveTransaction, FinishDay, EndRun
  <2>12. CASE Failures
    BY <2>1, <2>4, <2>6, <2>12, <2>14 DEF Failures, Crash, LateDayError,
        BudgetStopsDiscovery, BudgetStopsLoop, DayGatesFail, RepairFails
  <2>13. CASE Environment \/ StartRun \/ UNCHANGED vars
    BY <2>1, <2>13 DEF Environment, OutboxDelivers, IngestWrite, StartRun, vars
  <2> QED
    BY <2>10, <2>11, <2>12, <2>13 DEF Next
<1>2. pc' # "idle" => phaseB'
  <2> USE DEF phaseBVars, deleteVars, worker
  <2>1. CASE StartRun
    <3>1. PICK enabled \in PhaseBModes : phaseB' = enabled
      BY <2>1 DEF StartRun
    <3>2. enabled = TRUE
      BY <3>1
    <3> QED
      BY <3>1, <3>2
  <2>2. CASE PhaseB
    BY <2>2 DEF PhaseB, Populate, FetchPending, Revalidate, OpenConnectorGate,
        StartFinalization, Claim, Freeze, Publish, RefusePublication,
        FinalizeNothing, PublishHierarchy, PublishIndex,
        RecordGateFailure, LeaveGates, FinalizeDayGates, EndPhaseB, WorkerIdle
  <2>3. CASE Deletion
    BY <2>3 DEF Deletion, StartDay, Compare, RereadIngest, PlanVerified,
        PlanDirect, RepairBucket, BeginDelete, DeleteInvalidates,
        DeleteRollsBack, DeleteCommits, LeaveTransaction, FinishDay, EndRun,
        WorkerIdle
  <2>4. CASE Failures
    <3>1. pc' = "idle" \/ (pc # "idle" /\ phaseB' = phaseB)
      BY <2>4 DEF Failures, Crash, LateDayError, BudgetStopsDiscovery,
          BudgetStopsLoop, PublicationFails, BudgetStopsCandidate,
          FinalizationFails, FinalizationRaises, MarkingFails, DayGatesFail,
          GateUnconfirmed, RepairFails, WorkerIdle, DeleteSteps
    <3> QED
      BY <3>1
  <2>5. CASE Environment \/ UNCHANGED vars
    BY <2>5 DEF Environment, OutboxDelivers, IngestWrite, vars
  <2> QED
    BY <2>1, <2>2, <2>3, <2>4, <2>5 DEF Next
<1>3. Fresh'
  <2>1. ASSUME UNCHANGED drained, \A c \in ConnectorDays : Planned(c)' => Planned(c)
        PROVE  Fresh'
    BY <2>1
  <2>2. CASE PlanVerified \/ PlanDirect
    <3>1. /\ pc' = "delete" /\ UNCHANGED drained /\ phaseB
          /\ \A c \in plan' : GateAllows(c)
      BY <2>2 DEF PlanVerified, PlanDirect
    <3> QED
      BY <1>c, <3>1 DEF GateAllows, Planned
  <2>3. CASE BeginDelete
    <3>1. cur' \in plan /\ plan' \subseteq plan /\ UNCHANGED drained
      BY <1>0, <2>3, FirstIsMember DEF BeginDelete
    <3> QED
      BY <2>1, <3>1 DEF Planned
  <2>4. CASE DeleteCommits
    <3>1. /\ pc = "txn" /\ pc' = "delete" /\ plan' = plan /\ cur \notin plan
          /\ \A c \in ConnectorDays \ {cur} : drained'[c] = drained[c]
      BY <1>0, <2>4 DEF DeleteCommits, LeaveTransaction, PlanHeld
    <3> QED
      BY <3>1 DEF Planned
  <2>5. CASE DeleteInvalidates \/ DeleteRollsBack
    BY <2>1, <2>5 DEF DeleteInvalidates, DeleteRollsBack, LeaveTransaction, Planned
  <2> USE DEF phaseBVars, deleteVars, worker
  <2>6. CASE PhaseB
    BY <2>1, <2>6 DEF Planned, PhaseB, Populate, FetchPending, Revalidate,
        OpenConnectorGate, StartFinalization, Claim, Freeze, Publish,
        RefusePublication, FinalizeNothing, PublishHierarchy, PublishIndex,
        RecordGateFailure, LeaveGates, FinalizeDayGates, EndPhaseB, WorkerIdle
  <2>7. CASE Deletion
    BY <2>1, <2>2, <2>3, <2>4, <2>5, <2>7 DEF Planned, Deletion, StartDay, Compare,
        RereadIngest, RepairBucket, FinishDay, EndRun, WorkerIdle
  <2>8. CASE Failures
    BY <2>1, <2>8 DEF Planned, Failures, Crash, LateDayError,
        BudgetStopsDiscovery, BudgetStopsLoop, PublicationFails,
        BudgetStopsCandidate, FinalizationFails, MarkingFails, DayGatesFail,
          GateUnconfirmed,
        RepairFails, WorkerIdle
  <2>9. CASE Environment \/ StartRun \/ UNCHANGED vars
    BY <2>1, <2>9 DEF Planned, Environment, OutboxDelivers, IngestWrite, StartRun, vars
  <2> QED
    BY <2>6, <2>7, <2>8, <2>9 DEF Next
<1> QED
  BY <1>1, <1>2, <1>3, <1>e DEF Kept

-----------------------------------------------------------------------------
(***************************************************************************)
(* The theorems.                                                           *)
(***************************************************************************)

(* Initially nothing is claimed, planned or drained.                       *)
LEMMA BookkeepingInit == Init => Bookkeeping
<1> SUFFICES ASSUME Init PROVE Bookkeeping
  OBVIOUS
<1>1. LegacyKept
  BY LegacyAssumption, InitialAssumption, NoContentIsNone
  DEF Init, LegacyKept, AbsentCandidate
<1>2. ClaimsAccounted
  <2>1. \A c \in ConnectorDays : cand[c].run = 0
    BY DEF Init, AbsentCandidate, NoRun
  <2>2. run = 0 /\ pc = "idle" /\ unconfirmed = {} /\ gated = {}
    BY DEF Init, NoRun
  <2> QED
    BY <2>1, <2>2 DEF ClaimsAccounted
<1>3. PlanHeld /\ \A c \in ConnectorDays : ~Planned(c)
  BY DEF Init, PlanHeld, Planned
<1>4. MarkerKept
  <2>1. pc = "idle" /\ \A c \in ConnectorDays : drained[c] = 0
    BY DEF Init
  <2> QED
    BY <1>3, <2>1 DEF MarkerKept, ConsumedRemembered
<1> QED
  BY <1>1, <1>2, <1>3, <1>4 DEF Bookkeeping

(* Beside the inductive invariant, every behaviour keeps the books.        *)
THEOREM BookkeepingHolds == Spec => [](IInv /\ Bookkeeping)
<1>1. Init => Bookkeeping
  BY BookkeepingInit
<1>2. IInv /\ Bookkeeping /\ [Next]_vars => Bookkeeping'
  BY LegacyStep, ClaimsStep, PlanStep, MarkerStep DEF Bookkeeping
<1> QED
  BY <1>1, <1>2, InvariantHolds, PTL DEF Spec

(* A connector-day completed before first-delete markers existed is never  *)
(* deleted, with Phase B or without.                                       *)
THEOREM LegacyNeverDeleted == Spec => []LegacyFailsClosed
<1>1. Bookkeeping => LegacyFailsClosed
  BY DEF Bookkeeping, LegacyKept, LegacyFailsClosed
<1> QED
  BY <1>1, BookkeepingHolds, PTL

(* With Phase B enabled in every run, a drained connector-day stays marked *)
(* as consumed and its gate stays closed.                                  *)
THEOREM ConsumptionRemembered ==
    ASSUME PhaseBModes \subseteq {TRUE}
    PROVE  Spec => []ConsumedRemembered
<1>1. Bookkeeping => ConsumedRemembered
  BY DEF Bookkeeping, MarkerKept
<1> QED
  BY <1>1, BookkeepingHolds, PTL

(* A run that ends by itself leaves no claim of its own behind.            *)
THEOREM ClaimsSettled == Spec => NoAbandonedClaim
<1> DEFINE Step == (pc \in {"phase_b_end", "days"} /\ pc' = "idle" /\ faults' = faults)
                     => \A c \in ConnectorDays :
                          ~(cand[c].status = "in_progress" /\ cand[c].run = run)
<1>1. IInv /\ Bookkeeping => Step
  BY DEF IInv, Evidence, BatchHeld, BatchSteps, Bookkeeping, ClaimsAccounted
<1> QED
  BY <1>1, BookkeepingHolds, PTL DEF NoAbandonedClaim

(* What a committed deletion removes, and nothing else, is what is in R2.  *)
LEMMA DeletedRows ==
    ASSUME IInv, [Next]_vars, NEW c \in ConnectorDays, NEW k \in Keys, Deletes(c, k)
    PROVE  /\ DeleteCommits /\ c = cur /\ k \in Rows(snap)
           /\ ingest'[c] = Removed(ingest[c], snap)
<1>0. ingest \in [ConnectorDays -> Contents]
  BY DEF IInv, TypeInv, TypeOK
<1>1. ingest' # ingest
  BY DEF Deletes
<1>2. ASSUME NEW d \in ConnectorDays, NEW j \in Keys, NEW v \in Values,
             IngestWrite(d, j, v)
      PROVE  FALSE
  BY <1>0, <1>2, NoRowAssumption DEF IngestWrite, Deletes, Contents
<1>3. DeleteCommits
  BY <1>1, <1>2, WhoChangesIngest
<1>4. ingest' = [ingest EXCEPT ![cur] = Removed(@, snap)]
  BY <1>3 DEF DeleteCommits
<1>5. c = cur
  BY <1>0, <1>4 DEF Deletes
<1>6. ingest'[c] = Removed(ingest[c], snap)
  BY <1>0, <1>4, <1>5
<1>7. k \in Rows(snap)
  BY <1>6 DEF Removed, Deletes
<1> QED
  BY <1>3, <1>5, <1>6, <1>7

(* A connector-day is deleted whole.                                       *)
THEOREM DeletedWhole == Spec => DeletionIsWhole
<1> DEFINE Step == \A c \in ConnectorDays : (\E k \in Keys : Deletes(c, k)) =>
                     \A k \in Rows(tree[c]) : ingest'[c][k] = NoRow
<1>1. IInv /\ [Next]_vars => Step
  <2> SUFFICES ASSUME IInv, [Next]_vars, NEW c \in ConnectorDays,
                      NEW j \in Keys, Deletes(c, j), NEW k \in Rows(tree[c])
               PROVE  ingest'[c][k] = NoRow
    OBVIOUS
  <2>1. DeleteCommits /\ c = cur /\ ingest'[c] = Removed(ingest[c], snap)
    BY DeletedRows
  <2>2. snap = tree[c]
    BY <2>1, DeletionFacts
  <2>3. k \in Keys /\ k \in Rows(snap)
    BY <2>2 DEF Rows
  <2> QED
    BY <2>1, <2>3 DEF Removed
<1> QED
  BY <1>1, InvariantHolds, PTL DEF Spec, DeletionIsWhole

(* Two nested sets of rows with as many rows in every hour are the same.   *)
LEMMA CoveredRows ==
    ASSUME NEW planned \in Contents, NEW current \in Contents,
           Rows(planned) \subseteq Rows(current), PlanCovers(planned, current)
    PROVE  Rows(planned) = Rows(current)
<1> SUFFICES ASSUME NEW k \in Rows(current) PROVE k \in Rows(planned)
  OBVIOUS
<1> DEFINE h == Hour(k)
<1>1. h \in Hours /\ k \in Bucket(current, h)
  BY DEF Hours, Bucket, Rows
<1>2. Bucket(planned, h) \in SUBSET Bucket(current, h)
  BY DEF Bucket
<1>3. IsFiniteSet(Bucket(current, h))
  BY KeysAssumption, FS_Subset DEF Bucket, Rows
<1>4. Cardinality(Bucket(planned, h)) = Cardinality(Bucket(current, h))
  BY <1>1 DEF PlanCovers
<1> HIDE DEF h
<1>5. Bucket(planned, h) = Bucket(current, h)
  BY <1>2, <1>3, <1>4, FS_Subset
<1> QED
  BY <1>1, <1>5 DEF Bucket

(* What a verified window deletes is in ObsAqiDB, although the deletion    *)
(* transaction compares its rows with the plan by hourly counts alone.     *)
THEOREM WindowReplicated == Spec => WindowDeletesReplicated
<1> DEFINE Step == \A c \in ConnectorDays, k \in Keys :
                     Deletes(c, k) /\ Head(agenda).mode # "late_direct"
                       => observs[c][k] # NoRow
<1>1. IInv /\ Bookkeeping /\ [Next]_vars => Step
  <2> SUFFICES ASSUME IInv, Bookkeeping, [Next]_vars, NEW c \in ConnectorDays,
                      NEW k \in Keys, Deletes(c, k),
                      Head(agenda).mode # "late_direct"
               PROVE  observs[c][k] # NoRow
    OBVIOUS
  <2>1. DeleteCommits /\ c = cur /\ k \in Rows(snap)
    BY DeletedRows
  <2>2. pc = "txn" /\ PlanCovers(seen[c], snap)
    BY <2>1 DEF DeleteCommits
  <2>3. Rows(seen[c]) \subseteq Rows(snap) /\ Rows(seen[c]) \subseteq Rows(observs[c])
    BY <2>1, <2>2 DEF Bookkeeping, PlanHeld, Planned
  <2>4. seen[c] \in Contents /\ snap \in Contents
    BY DEF IInv, TypeInv, TypeOK
  <2>5. Rows(seen[c]) = Rows(snap)
    BY <2>2, <2>3, <2>4, CoveredRows
  <2> QED
    BY <2>1, <2>3, <2>5 DEF Rows
<1> QED
  BY <1>1, BookkeepingHolds, PTL DEF Spec, WindowDeletesReplicated

=============================================================================
