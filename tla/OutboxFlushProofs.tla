------------------------- MODULE OutboxFlushProofs -------------------------
(***************************************************************************)
(* The safety of the outbox flush, for any entries, payloads, runs,        *)
(* limits and failures.                                                    *)
(***************************************************************************)
EXTENDS OutboxFlushInv, SequenceTheorems, FiniteSetTheorems,
        WellFoundedInduction, NaturalsInduction, TLAPS

(* A non-empty set of numbers up to N has a largest.                       *)
LEMMA Largest ==
    ASSUME NEW N \in Nat, NEW S \in SUBSET (0..N), S # {}
    PROVE  \E m \in S : \A x \in S : x <= m
<1> DEFINE T == {N - x : x \in S}
           R == OpToRel(<, Nat)
<1>1. T \subseteq Nat
      <2> SUFFICES ASSUME NEW x \in S PROVE N - x \in Nat
          OBVIOUS
      <2>1. x \in Int /\ x <= N
            OBVIOUS
      <2> QED BY <2>1
<1>2. T # {}
      OBVIOUS
<1>3. IsWellFoundedOn(R, Nat)
      BY NatLessThanWellFounded
<1>4. PICK t \in T : \A y \in T : ~ (<<y, t>> \in R)
      <2> HIDE DEF R, T
      <2> QED BY <1>1, <1>2, <1>3, WFMin
<1>5. PICK m \in S : t = N - m
      BY <1>4
<1>6. ASSUME NEW x \in S PROVE x <= m
      <2>1. N - x \in T /\ N - x \in Nat /\ t \in Nat
            BY <1>1, <1>4
      <2>2. ~ (N - x < t)
            BY <1>4, <2>1 DEF OpToRel
      <2>3. x \in Int /\ m \in Int
            OBVIOUS
      <2> HIDE DEF T, R
      <2> QED BY <1>5, <2>2, <2>3
<1> QED BY <1>6

-----------------------------------------------------------------------------
(* What a row and a normalised batch are.                                  *)
LEMMA RowsOfPayload ==
    ASSUME NEW e \in Entries
    PROVE  /\ Payload[e].rows \in Seq(Row)
           /\ DOMAIN Payload[e].rows = 1..Len(Payload[e].rows)
           /\ \A n \in DOMAIN Payload[e].rows : Payload[e].rows[n] \in Row
<1>1. Payload[e].rows \in Seq(Row)
      BY PayloadAssumption
<1> QED BY <1>1, LenProperties, ElementOfSeq

LEMMA NormalizedRows ==
    ASSUME NEW batch \in SUBSET Entries
    PROVE  Normalized(batch) \subseteq Row
BY RowsOfPayload DEF Normalized, Positions, RowAt

(* The last position of a batch in the order of Before, among some.        *)
LEMMA LastPosition ==
    ASSUME NEW batch \in SUBSET Entries,
           NEW P \in SUBSET Positions(batch), P # {}
    PROVE  \E p \in P : \A q \in P : ~ Before(p, q)
<1>1. \A q \in P : /\ q[1] \in Entries
                   /\ q[2] \in Nat
                   /\ q[2] \in 1..Len(Payload[q[1]].rows)
                   /\ q = <<q[1], q[2]>>
      BY RowsOfPayload DEF Positions
<1> DEFINE N == Cardinality(Entries)
           O == {Order[q[1]] : q \in P}
<1>2. N \in Nat /\ \A q \in P : Order[q[1]] \in 1..N
      BY <1>1, OrderAssumption, FS_CardinalityType
<1>3. O \in SUBSET (0..N) /\ O # {}
      BY <1>2
<1>4. PICK o \in O : \A x \in O : x <= o
      <2> HIDE DEF O, N
      <2> QED BY <1>2, <1>3, Largest
<1>5. PICK top \in P : Order[top[1]] = o
      BY <1>4
<1> DEFINE e == top[1]
           Q == {q[2] : q \in {x \in P : x[1] = e}}
<1>6. Len(Payload[e].rows) \in Nat
      BY <1>1, RowsOfPayload, LenProperties
<1>7. Q \in SUBSET (0..Len(Payload[e].rows)) /\ Q # {}
      BY <1>1, <1>6
<1>8. PICK n \in Q : \A x \in Q : x <= n
      <2> HIDE DEF Q, e
      <2> QED BY <1>6, <1>7, Largest
<1>9. PICK p \in P : p[1] = e /\ p[2] = n
      BY <1>8
<1>10. ASSUME NEW q \in P, Before(p, q) PROVE FALSE
      <2>1. Order[q[1]] <= o
            BY <1>4
      <2>2. Order[p[1]] = o
            BY <1>5, <1>9
      <2>3. ~ (Order[p[1]] < Order[q[1]])
            BY <1>2, <2>1, <2>2
      <2>4. q[1] = e /\ p[2] < q[2]
            BY <1>9, <1>10, <2>3 DEF Before
      <2>5. q[2] <= n
            BY <1>8, <2>4
      <2> QED BY <1>1, <1>9, <2>4, <2>5
<1> QED BY <1>10

(* Every row an entry of the batch carries has one of its key among the    *)
(* normalised rows.                                                        *)
LEMMA Cover ==
    ASSUME NEW batch \in SUBSET Entries, NEW e \in batch,
           NEW n \in DOMAIN Payload[e].rows
    PROVE  \E row \in Normalized(batch) : row.key = Payload[e].rows[n].key
<1> DEFINE P == {q \in Positions(batch) : RowAt(q).key = Payload[e].rows[n].key}
<1>1. <<e, n>> \in Positions(batch) /\ RowAt(<<e, n>>) = Payload[e].rows[n]
      BY DEF Positions, RowAt
<1>2. P \in SUBSET Positions(batch) /\ P # {}
      BY <1>1
<1>3. PICK p \in P : \A q \in P : ~ Before(p, q)
      <2> HIDE DEF P
      <2> QED BY <1>2, LastPosition
<1>4. RowAt(p) \in Normalized(batch)
      BY <1>3 DEF Normalized
<1> QED BY <1>4

-----------------------------------------------------------------------------
(* The invariant taken apart: what one run keeps, and the tables.          *)
Progress(me, ob, rc) ==
    \A row \in Normalized(me.batch) :
        /\ me.pc = "upsert" => ob[row.key] # NoValue \/ Waiting(me, row)
        /\ me.pc = "receipts" => ob[row.key] # NoValue
        /\ me.pc = "resolve" /\ me.ok =>
               ob[row.key] # NoValue /\ Receipt[row.key] \in rc

Quiet(me, st) ==
    me.pc # "thrown" /\ me.failed = 0 =>
        /\ me.pc = "resolve" => me.ok
        /\ \A e \in me.took \ me.batch : st[e] = "resolved"

RunOK(me, st, ob, rc) ==
    /\ me \in Memory
    /\ \A e \in me.batch : st[e] = "claimed"
    /\ me.batch # {} <=> me.pc \in Holding
    /\ me.pc = "upsert" => me.todo # <<>>
    /\ Progress(me, ob, rc)
    /\ Quiet(me, st)

RunsOK == /\ DOMAIN run = Runs /\ run = [r \in Runs |-> run[r]]
          /\ \A r \in Runs : RunOK(run[r], status, observs, receipts)

Apart == \A r, s \in Runs : r # s => run[r].batch \cap run[s].batch = {}

TablesOK ==
    /\ status \in [Entries -> {"absent", "pending", "claimed", "resolved"}]
    /\ observs \in [Keys -> Values \cup {NoValue}]
    /\ receipts \subseteq {Receipt[k] : k \in Keys}
    /\ faults \in Nat

LEMMA Parts ==
    /\ IInv <=> TablesOK /\ RunsOK /\ Apart /\ ResolvedIsDelivered
    /\ IInv' <=> TablesOK' /\ RunsOK' /\ Apart' /\ ResolvedIsDelivered'
<1>1. IInv <=> TablesOK /\ RunsOK /\ Apart /\ ResolvedIsDelivered
      BY DEF IInv, TypeOK, TablesOK, RunsOK, RunOK, Apart, Progress, Quiet,
             HeldExclusively, BatchHeld, BatchProgress, QuietSoFar,
             Stored, Receipted
<1>2. IInv' <=> TablesOK' /\ RunsOK' /\ Apart' /\ ResolvedIsDelivered'
      BY DEF IInv, TypeOK, TablesOK, RunsOK, RunOK, Apart, Progress, Quiet,
             HeldExclusively, BatchHeld, BatchProgress, QuietSoFar,
             Stored, Receipted
<1> QED BY <1>1, <1>2

(* What has been delivered stays delivered.                                *)
Grows == /\ \A k \in Keys : observs[k] # NoValue => observs'[k] # NoValue
         /\ receipts \subseteq receipts'

(* A run is not disturbed by what others do to the tables.                 *)
LEMMA Undisturbed ==
    ASSUME NEW me, RunOK(me, status, observs, receipts), Grows,
           \A e \in me.batch : status'[e] = status[e],
           \A e \in Entries : status[e] = "resolved" => status'[e] = "resolved"
    PROVE  RunOK(me, status', observs', receipts')
<1>1. /\ me.batch \in SUBSET Entries /\ me.took \in SUBSET Entries
      BY DEF RunOK, Memory
<1>2. \A row \in Normalized(me.batch) : row.key \in Keys
      BY <1>1, NormalizedRows DEF Row
<1>3. Progress(me, observs', receipts')
      BY <1>2 DEF RunOK, Progress, Grows
<1>4. Quiet(me, status')
      BY <1>1 DEF RunOK, Quiet
<1> QED BY <1>3, <1>4 DEF RunOK

(* A step of one run, whatever it does to its own batch.                   *)
LEMMA RunStep ==
    ASSUME IInv, NEW r \in Runs, NEW me, Becomes(r, me), TablesOK', Grows,
           RunOK(me, status', observs', receipts'),
           \A s \in Runs \ {r} :
               /\ me.batch \cap run[s].batch = {}
               /\ \A e \in run[s].batch : status'[e] = status[e],
           \A e \in Entries : status[e] = "resolved" => status'[e] = "resolved",
           ResolvedIsDelivered'
    PROVE  IInv'
<1> USE Parts
<1>1. /\ DOMAIN run' = Runs /\ run' = [s \in Runs |-> run'[s]]
      /\ run'[r] = me /\ \A s \in Runs \ {r} : run'[s] = run[s]
      BY DEF Becomes, RunsOK
<1>2. RunsOK'
      <2>1. ASSUME NEW s \in Runs \ {r}
            PROVE  RunOK(run[s], status', observs', receipts')
            <3>1. RunOK(run[s], status, observs, receipts)
                  BY DEF RunsOK
            <3> QED BY <3>1, Undisturbed
      <2> QED BY <1>1, <2>1 DEF RunsOK
<1>3. Apart'
      BY <1>1 DEF Apart
<1> QED BY <1>2, <1>3

(* Nothing newly resolved.                                                 *)
LEMMA StillDelivered ==
    ASSUME IInv, Grows,
           \A e \in Entries : status'[e] = "resolved" => status[e] = "resolved"
    PROVE  ResolvedIsDelivered'
<1>1. \A e \in Entries : \A n \in DOMAIN Payload[e].rows :
          Payload[e].rows[n].key \in Keys
      BY RowsOfPayload DEF Row
<1> QED BY <1>1, Parts DEF Grows, ResolvedIsDelivered

(* A step of a run that changes no entry.                                  *)
LEMMA QuietStep ==
    ASSUME IInv, NEW r \in Runs, NEW me, Becomes(r, me), TablesOK', Grows,
           RunOK(me, status, observs', receipts'),
           me.batch \subseteq run[r].batch, UNCHANGED status
    PROVE  IInv'
<1>1. ResolvedIsDelivered'
      BY StillDelivered
<1>2. \A s \in Runs \ {r} : me.batch \cap run[s].batch = {}
      BY Parts DEF Apart
<1> QED BY <1>1, <1>2, RunStep

LEMMA IdleIsOK ==
    ASSUME NEW st, NEW ob, NEW rc
    PROVE  RunOK(Idle, st, ob, rc)
<1>1. Normalized({}) = {}
      BY DEF Normalized, Positions
<1>2. Idle \in Memory
      BY EmptySeq DEF Idle, Memory
<1> QED BY <1>1, <1>2 DEF Idle, RunOK, Holding, Progress, Quiet

LEMMA Start == Init => IInv
<1> SUFFICES ASSUME Init PROVE IInv
    OBVIOUS
<1>1. TablesOK
      BY NoValueAssumption DEF Init, TablesOK
<1>2. RunsOK
      BY IdleIsOK DEF Init, RunsOK
<1>3. Apart
      BY DEF Init, Apart, Idle
<1> QED BY <1>1, <1>2, <1>3, Parts DEF Init, ResolvedIsDelivered

(* A run's memory, one field at a time.                                    *)
Phases == {"idle", "claim", "upsert", "receipts", "resolve", "done", "thrown"}

LEMMA SetPhase ==
    ASSUME NEW me \in Memory, NEW pc \in Phases
    PROVE  [me EXCEPT !.pc = pc] \in Memory
BY DEF Memory, Phases

LEMMA SetBatch ==
    ASSUME NEW me \in Memory, NEW batch \in SUBSET Entries
    PROVE  [me EXCEPT !.batch = batch] \in Memory
BY DEF Memory

LEMMA SetTodo ==
    ASSUME NEW me \in Memory, NEW todo \in Seq([rows : SUBSET Row, depth : Nat])
    PROVE  [me EXCEPT !.todo = todo] \in Memory
BY DEF Memory

LEMMA SetAttempt ==
    ASSUME NEW me \in Memory, NEW n \in Nat \ {0}
    PROVE  [me EXCEPT !.attempt = n] \in Memory
BY DEF Memory

LEMMA SetTook ==
    ASSUME NEW me \in Memory, NEW took \in SUBSET Entries
    PROVE  [me EXCEPT !.took = took] \in Memory
BY DEF Memory

LEMMA SetCount ==
    ASSUME NEW me \in Memory, NEW n \in Nat
    PROVE  /\ [me EXCEPT !.batches = n] \in Memory
           /\ [me EXCEPT !.failed = n] \in Memory
BY DEF Memory

(* A run that gives up, or one that goes on, without a batch.              *)
LEMMA OverIsOK ==
    ASSUME NEW me \in Memory, NEW st, NEW ob, NEW rc,
           NEW pc \in {"claim", "done", "thrown"},
           pc # "thrown" /\ me.failed = 0 =>
               \A e \in me.took : st[e] = "resolved"
    PROVE  /\ RunOK(Over(me, pc), st, ob, rc)
           /\ Over(me, pc).batch = {}
<1>1. Normalized({}) = {}
      BY DEF Normalized, Positions
<1>2. /\ Over(me, pc).batch = {} /\ Over(me, pc).pc = pc
      /\ Over(me, pc).took = me.took /\ Over(me, pc).failed = me.failed
      BY DEF Over, Memory
<1>3. Over(me, pc) \in Memory
      <2>1. <<>> \in Seq([rows : SUBSET Row, depth : Nat])
            BY EmptySeq
      <2> DEFINE a == [me EXCEPT !.pc = pc]
                 b == [a EXCEPT !.batch = {}]
                 c == [b EXCEPT !.todo = <<>>]
      <2>2. a \in Memory
            BY SetPhase DEF Phases
      <2>3. b \in Memory
            <3> HIDE DEF a
            <3> QED BY <2>2, SetBatch
      <2>4. c \in Memory
            <3> HIDE DEF b
            <3> QED BY <2>1, <2>3, SetTodo
      <2>5. Over(me, pc) = [c EXCEPT !.attempt = 1]
            BY DEF Over
      <2> HIDE DEF c
      <2> QED BY <2>4, <2>5, SetAttempt
<1> HIDE DEF Over
<1> QED BY <1>1, <1>2, <1>3 DEF RunOK, Holding, Progress, Quiet

-----------------------------------------------------------------------------
(* Entries are written, and leases expire.                                 *)
LEMMA EntryStep ==
    ASSUME IInv, NEW e \in Entries, Enqueue(e) \/ LeaseExpires(e)
    PROVE  IInv'
<1> USE Parts
<1>1. TablesOK' /\ Grows
      BY DEF TablesOK, Grows, Enqueue, LeaseExpires
<1>2. /\ \A f \in Entries : status'[f] = "resolved" <=> status[f] = "resolved"
      /\ \A r \in Runs : \A f \in run[r].batch : status'[f] = status[f]
      BY DEF TablesOK, RunsOK, RunOK, Memory, Enqueue, LeaseExpires
<1>3. RunsOK' /\ Apart'
      <2>1. ASSUME NEW r \in Runs
            PROVE  RunOK(run[r], status', observs', receipts')
            BY <1>1, <1>2, Undisturbed DEF RunsOK
      <2>2. UNCHANGED run
            BY DEF Enqueue, LeaseExpires
      <2> QED BY <2>1, <2>2 DEF RunsOK, Apart
<1> QED BY <1>1, <1>2, <1>3, StillDelivered

-----------------------------------------------------------------------------
(* The claim.                                                              *)
LEMMA RunFacts ==
    ASSUME IInv, NEW r \in Runs
    PROVE  /\ RunOK(run[r], status, observs, receipts)
           /\ run[r] \in Memory
           /\ run[r].batch \in SUBSET Entries
           /\ run[r].took \in SUBSET Entries
           /\ run[r].failed \in Nat
BY Parts DEF RunsOK, RunOK, Memory

LEMMA ClaimNothingStep ==
    ASSUME IInv, NEW r \in Runs, ClaimNothing(r)
    PROVE  IInv'
<1> USE Parts, RunFacts
<1> DEFINE over == Over(run[r], "done")
           me == [over EXCEPT !.drained = TRUE]
<1>1. run[r].failed = 0 => \A e \in run[r].took : status[e] = "resolved"
      BY DEF ClaimNothing, RunOK, Quiet, Holding
<1>2. RunOK(over, status, observs, receipts) /\ over.batch = {}
      BY <1>1, OverIsOK
<1>3. RunOK(me, status, observs, receipts) /\ me.batch = {}
      <2>1. over \in Memory
            BY <1>2 DEF RunOK
      <2> HIDE DEF over
      <2>2. /\ me \in Memory /\ me.pc = over.pc /\ me.batch = over.batch
            /\ me.took = over.took /\ me.failed = over.failed
            /\ me.ok = over.ok /\ me.todo = over.todo
            BY <2>1 DEF Memory
      <2> HIDE DEF me
      <2> QED BY <1>2, <2>2 DEF RunOK, Progress, Quiet, Waiting
<1>4. Becomes(r, me)
      BY DEF ClaimNothing
<1> HIDE DEF me
<1>5. TablesOK' /\ Grows /\ UNCHANGED <<status, observs, receipts>>
      BY DEF ClaimNothing, TablesOK, Grows
<1> QED BY <1>3, <1>4, <1>5, QuietStep

(* What a claim, whoever hears of it, does to the outbox.                  *)
LEMMA Claimed ==
    ASSUME IInv, NEW r \in Runs, run[r].pc = "claim", NEW batch \in Batches,
           status' = [e \in Entries |->
                        IF e \in batch THEN "claimed" ELSE status[e]],
           UNCHANGED <<observs, receipts>>, faults' \in Nat
    PROVE  /\ batch \in SUBSET Entries /\ batch # {}
           /\ TablesOK' /\ Grows
           /\ \A e \in Entries : status'[e] = "resolved" <=> status[e] = "resolved"
           /\ \A s \in Runs : batch \cap run[s].batch = {}
           /\ \A s \in Runs : \A e \in run[s].batch : status'[e] = status[e]
<1>1. batch \in SUBSET Entries /\ batch # {} /\ \A e \in batch : status[e] = "pending"
      BY DEF Batches, Pending
<1>2. TablesOK' /\ Grows
      BY <1>1, Parts DEF TablesOK, Grows
<1>3. \A s \in Runs : run[s].batch \in SUBSET Entries
                    /\ \A e \in run[s].batch : status[e] = "claimed"
      BY RunFacts DEF RunOK
<1> QED BY <1>1, <1>2, <1>3

LEMMA ClaimBatchStep ==
    ASSUME IInv, NEW r \in Runs, ClaimBatch(r)
    PROVE  IInv'
<1> USE Parts, RunFacts
<1>1. PICK batch \in Batches :
          LET rows == Normalized(batch)
              me   == [run[r] EXCEPT !.batch = batch, !.batches = @ + 1,
                                     !.took = @ \cup batch]
          IN  /\ status' = [e \in Entries |->
                              IF e \in batch THEN "claimed" ELSE status[e]]
              /\ IF ~Normalizes(batch) THEN Becomes(r, Over(me, "thrown"))
                 ELSE IF rows = {}
                 THEN Becomes(r, [me EXCEPT !.pc = "resolve", !.ok = TRUE])
                 ELSE Becomes(r, [me EXCEPT !.pc = "upsert", !.attempt = 1,
                                    !.todo = <<[rows |-> rows, depth |-> 0]>>])
      BY DEF ClaimBatch
<1> DEFINE rows == Normalized(batch)
           me == [run[r] EXCEPT !.batch = batch, !.batches = @ + 1,
                                !.took = @ \cup batch]
           empty == [me EXCEPT !.pc = "resolve", !.ok = TRUE]
           full == [me EXCEPT !.pc = "upsert", !.attempt = 1,
                              !.todo = <<[rows |-> rows, depth |-> 0]>>]
<1>2. run[r].pc = "claim" /\ UNCHANGED <<observs, receipts, faults>> /\ faults' \in Nat
      BY DEF ClaimBatch, TablesOK
<1>3. /\ batch \in SUBSET Entries /\ batch # {}
      /\ TablesOK' /\ Grows
      /\ \A e \in Entries : status'[e] = "resolved" <=> status[e] = "resolved"
      /\ \A s \in Runs : batch \cap run[s].batch = {}
      /\ \A s \in Runs : \A e \in run[s].batch : status'[e] = status[e]
      BY <1>1, <1>2, Claimed
<1>4. ResolvedIsDelivered'
      BY <1>3, StillDelivered
<1>5. me \in Memory /\ me.batch = batch /\ me.took = run[r].took \cup batch
      /\ me.failed = run[r].failed /\ me.pc = "claim"
      <2> DEFINE a == [run[r] EXCEPT !.batch = batch]
                 b == [a EXCEPT !.batches = run[r].batches + 1]
      <2>1. a \in Memory
            BY <1>3, SetBatch
      <2>2. b \in Memory
            <3>1. run[r].batches + 1 \in Nat
                  BY DEF Memory
            <3> HIDE DEF a
            <3> QED BY <2>1, <3>1, SetCount
      <2>3. me = [b EXCEPT !.took = run[r].took \cup batch]
            BY DEF Memory
      <2>4. me \in Memory
            <3> HIDE DEF b, me
            <3> QED BY <1>3, <2>2, <2>3, SetTook
      <2> QED BY <1>2, <2>4 DEF Memory
<1>6. rows \in SUBSET Row
      BY <1>3, NormalizedRows
<1>7. run[r].failed = 0 => \A e \in run[r].took : status'[e] = "resolved"
      BY <1>2, <1>3 DEF RunOK, Quiet, Holding
<1>8. \A e \in batch : status'[e] = "claimed"
      BY <1>1, <1>3
<1>9. ASSUME NEW after, Becomes(r, after), after.batch \in {batch, {}},
             RunOK(after, status', observs', receipts')
      PROVE  IInv'
      <2>1. \A s \in Runs \ {r} : after.batch \cap run[s].batch = {}
            BY <1>3, <1>9
      <2> HIDE DEF rows, me, empty, full
      <2> QED BY <1>3, <1>4, <1>9, <2>1, RunStep
<1>10. CASE ~Normalizes(batch)
      <2>1. Becomes(r, Over(me, "thrown"))
            BY <1>1, <1>10
      <2>2. RunOK(Over(me, "thrown"), status', observs', receipts')
            /\ Over(me, "thrown").batch = {}
            <3> HIDE DEF me
            <3> QED BY <1>5, OverIsOK
      <2> HIDE DEF me
      <2> QED BY <1>9, <2>1, <2>2
<1>11. CASE Normalizes(batch) /\ rows = {}
      <2>1. Becomes(r, empty)
            BY <1>1, <1>11
      <2>2. /\ empty \in Memory /\ empty.batch = batch /\ empty.pc = "resolve"
            /\ empty.ok /\ empty.took = run[r].took \cup batch
            /\ empty.failed = run[r].failed
            <3> HIDE DEF me
            <3> QED BY <1>5 DEF Memory
      <2>3. RunOK(empty, status', observs', receipts')
            <3> HIDE DEF empty, me
            <3> QED BY <1>3, <1>7, <1>8, <1>11, <2>2
                    DEF RunOK, Holding, Progress, Quiet
      <2> HIDE DEF empty
      <2> QED BY <1>9, <2>1, <2>2, <2>3
<1>12. CASE Normalizes(batch) /\ rows # {}
      <2>1. Becomes(r, full)
            BY <1>1, <1>12
      <2> DEFINE chunk == [rows |-> rows, depth |-> 0]
      <2>2. /\ <<chunk>> \in Seq([rows : SUBSET Row, depth : Nat])
            /\ Len(<<chunk>>) = 1 /\ <<chunk>>[1] = chunk /\ <<chunk>> # <<>>
            <3> HIDE DEF rows
            <3> QED BY <1>6
      <2>3. /\ full \in Memory /\ full.batch = batch /\ full.pc = "upsert"
            /\ full.todo = <<chunk>> /\ full.took = run[r].took \cup batch
            /\ full.failed = run[r].failed
            <3> DEFINE a == [me EXCEPT !.pc = "upsert"]
                       b == [a EXCEPT !.attempt = 1]
            <3> HIDE DEF me, rows
            <3>1. a \in Memory
                  BY <1>5, SetPhase DEF Phases
            <3>2. b \in Memory
                  <4> HIDE DEF a
                  <4> QED BY <3>1, SetAttempt
            <3>3. full = [b EXCEPT !.todo = <<chunk>>]
                  BY <1>5 DEF Memory
            <3>4. full \in Memory
                  <4> HIDE DEF full, b, chunk
                  <4> QED BY <2>2, <3>2, <3>3, SetTodo
            <3>5. /\ full.batch = me.batch /\ full.pc = "upsert" /\ full.took = me.took
                  /\ full.failed = me.failed /\ full.todo = <<chunk>>
                  BY <1>5 DEF Memory
            <3> HIDE DEF full
            <3> QED BY <1>5, <3>4, <3>5
      <2>4. \A row \in rows : Waiting(full, row)
            <3>1. 1 \in DOMAIN full.todo /\ full.todo[1].rows = rows
                  <4> HIDE DEF full
                  <4> QED BY <2>2, <2>3
            <3> QED BY <3>1 DEF Waiting
      <2>5. RunOK(full, status', observs', receipts')
            <3> HIDE DEF full, me, chunk
            <3> QED BY <1>3, <1>7, <1>8, <2>2, <2>3, <2>4
                    DEF RunOK, Holding, Progress, Quiet
      <2> HIDE DEF full
      <2> QED BY <1>9, <2>1, <2>3, <2>5
<1> QED BY <1>1, <1>10, <1>11, <1>12

LEMMA ClaimFailsStep ==
    ASSUME IInv, NEW r \in Runs, ClaimFails(r)
    PROVE  IInv'
<1> USE Parts, RunFacts
<1> DEFINE me == Over(run[r], "thrown")
<1>1. run[r].pc = "claim" /\ Becomes(r, me) /\ UNCHANGED <<observs, receipts>>
      /\ faults' \in Nat
      BY DEF ClaimFails, Throws, Fault, TablesOK
<1>2. RunOK(me, status', observs', receipts') /\ me.batch = {}
      BY OverIsOK
<1> HIDE DEF me
<1>3. CASE UNCHANGED status
      <2>1. TablesOK' /\ Grows
            BY <1>1, <1>3 DEF TablesOK, Grows
      <2> QED BY <1>1, <1>2, <1>3, <2>1, QuietStep
<1>4. ASSUME NEW batch \in Batches,
             status' = [e \in Entries |->
                          IF e \in batch THEN "claimed" ELSE status[e]]
      PROVE  IInv'
      <2>1. /\ TablesOK' /\ Grows
            /\ \A e \in Entries : status'[e] = "resolved" <=> status[e] = "resolved"
            /\ \A s \in Runs : \A e \in run[s].batch : status'[e] = status[e]
            BY <1>1, <1>4, Claimed
      <2>2. ResolvedIsDelivered'
            BY <2>1, StillDelivered
      <2> QED BY <1>1, <1>2, <2>1, <2>2, RunStep
<1> QED BY <1>3, <1>4 DEF ClaimFails

-----------------------------------------------------------------------------
(* The upsert.                                                             *)
Chunks == [rows : SUBSET Row, depth : Nat]

LEMMA UpsertedGrows ==
    ASSUME IInv, NEW rows \in SUBSET Row, observs' = Upserted(rows)
    PROVE  /\ observs' \in [Keys -> Values \cup {NoValue}]
           /\ \A k \in Keys : observs[k] # NoValue => observs'[k] # NoValue
           /\ \A row \in rows : observs'[row.key] # NoValue
<1>1. ASSUME NEW k \in Keys, NEW row \in rows, row.key = k
      PROVE  (CHOOSE x \in rows : x.key = k).value \in Values
      BY <1>1 DEF Row
<1>2. observs \in [Keys -> Values \cup {NoValue}]
      BY Parts DEF TablesOK
<1>3. \A row \in rows : row.key \in Keys
      BY DEF Row
<1> QED BY <1>1, <1>2, <1>3, NoValueAssumption DEF Upserted

(* The chunk in hand, and what waits behind it.                            *)
LEMMA TodoFacts ==
    ASSUME IInv, NEW r \in Runs, run[r].pc = "upsert"
    PROVE  /\ run[r].todo \in Seq(Chunks)
           /\ Len(run[r].todo) \in Nat /\ Len(run[r].todo) >= 1
           /\ Chunk(r) \in Chunks
           /\ Tail(run[r].todo) \in Seq(Chunks)
           /\ Len(Tail(run[r].todo)) = Len(run[r].todo) - 1
           /\ DOMAIN Tail(run[r].todo) = 1..(Len(run[r].todo) - 1)
           /\ \A n \in DOMAIN Tail(run[r].todo) :
                  Tail(run[r].todo)[n] = run[r].todo[n + 1]
           /\ \A row : Waiting(run[r], row) =>
                  \/ row \in Chunk(r).rows
                  \/ \E n \in DOMAIN Tail(run[r].todo) :
                        row \in Tail(run[r].todo)[n].rows
<1>1. run[r].todo \in Seq(Chunks) /\ run[r].todo # <<>>
      BY RunFacts DEF RunOK, Memory, Chunks
<1> DEFINE todo == run[r].todo
<1>2. /\ Head(todo) \in Chunks /\ Tail(todo) \in Seq(Chunks)
      /\ Len(Tail(todo)) = Len(todo) - 1 /\ Head(todo) = todo[1]
      /\ \A n \in 1..Len(Tail(todo)) : Tail(todo)[n] = todo[n + 1]
      BY <1>1, HeadTailProperties
<1>3. Len(todo) \in Nat /\ DOMAIN todo = 1..Len(todo) /\ Len(todo) >= 1
      BY <1>1, LenProperties, EmptySeq
<1>4. DOMAIN Tail(todo) = 1..(Len(todo) - 1)
      BY <1>2, LenProperties
<1>5. ASSUME NEW row, Waiting(run[r], row), row \notin Chunk(r).rows
      PROVE  \E n \in DOMAIN Tail(todo) : row \in Tail(todo)[n].rows
      <2>1. PICK m \in DOMAIN todo : row \in todo[m].rows
            BY <1>5 DEF Waiting
      <2>2. m # 1
            BY <1>2, <1>5, <2>1 DEF Chunk
      <2>3. m - 1 \in 1..(Len(todo) - 1) /\ (m - 1) + 1 = m
            BY <1>3, <2>1, <2>2
      <2>4. m - 1 \in DOMAIN Tail(todo) /\ Tail(todo)[m - 1] = todo[m]
            BY <1>2, <1>4, <2>3
      <2> QED BY <2>1, <2>4
<1> QED BY <1>1, <1>2, <1>3, <1>4, <1>5 DEF Chunk

(* The run after a chunk has been written.                                 *)
LEMMA UpsertChunkStep ==
    ASSUME IInv, NEW r \in Runs, UpsertChunk(r)
    PROVE  IInv'
<1> USE Parts, RunFacts
<1> DEFINE tail == Tail(run[r].todo)
           phase == IF Len(run[r].todo) = 1 THEN "receipts" ELSE "upsert"
           me == [run[r] EXCEPT !.todo = tail, !.attempt = 1, !.pc = phase]
<1>1. /\ run[r].pc = "upsert" /\ Becomes(r, me)
      /\ observs' = Upserted(Chunk(r).rows) /\ UNCHANGED <<status, receipts, faults>>
      BY DEF UpsertChunk
<1>2. Chunk(r).rows \in SUBSET Row
      BY <1>1, TodoFacts DEF Chunks
<1>3. /\ observs' \in [Keys -> Values \cup {NoValue}]
      /\ \A k \in Keys : observs[k] # NoValue => observs'[k] # NoValue
      /\ \A row \in Chunk(r).rows : observs'[row.key] # NoValue
      BY <1>1, <1>2, UpsertedGrows
<1>4. TablesOK' /\ Grows
      BY <1>1, <1>3 DEF TablesOK, Grows
<1>5. tail \in Seq([rows : SUBSET Row, depth : Nat])
      BY <1>1, TodoFacts DEF Chunks
<1>6. /\ me \in Memory /\ me.batch = run[r].batch /\ me.took = run[r].took
      /\ me.failed = run[r].failed /\ me.pc = phase /\ me.todo = tail
      <2> DEFINE a == [run[r] EXCEPT !.todo = tail]
                 b == [a EXCEPT !.attempt = 1]
      <2> HIDE DEF tail, phase
      <2>1. a \in Memory
            BY <1>5, SetTodo
      <2>2. b \in Memory
            <3> HIDE DEF a
            <3> QED BY <2>1, SetAttempt
      <2>3. me = [b EXCEPT !.pc = phase]
            BY DEF Memory
      <2>4. phase \in Phases
            BY DEF phase, Phases
      <2>5. me \in Memory
            <3> HIDE DEF b, me
            <3> QED BY <2>2, <2>3, <2>4, SetPhase
      <2> QED BY <2>5 DEF Memory
<1> HIDE DEF me
<1>7. phase = "upsert" => tail # <<>>
      <2>1. Len(run[r].todo) # 1 => Len(tail) # 0
            BY <1>1, TodoFacts
      <2> QED BY <1>5, <2>1, EmptySeq
<1>8. \A row \in Normalized(run[r].batch) :
          observs'[row.key] # NoValue \/ \E n \in DOMAIN tail : row \in tail[n].rows
      <2>1. \A row \in Normalized(run[r].batch) : row.key \in Keys
            BY NormalizedRows DEF Row
      <2>2. ASSUME NEW row \in Normalized(run[r].batch), Waiting(run[r], row)
            PROVE  observs'[row.key] # NoValue
                   \/ \E n \in DOMAIN tail : row \in tail[n].rows
            BY <1>1, <1>3, <2>2, TodoFacts
      <2>3. \A row \in Normalized(run[r].batch) :
                observs[row.key] # NoValue \/ Waiting(run[r], row)
            BY <1>1 DEF RunOK, Progress
      <2> QED BY <1>3, <2>1, <2>2, <2>3
<1>9. phase = "receipts" => DOMAIN tail = {}
      BY <1>1, TodoFacts
<1>10. Progress(me, observs', receipts')
      <2> HIDE DEF tail
      <2>1. phase \in {"receipts", "upsert"}
            OBVIOUS
      <2> HIDE DEF phase
      <2> QED BY <1>6, <1>8, <1>9, <2>1 DEF Progress, Waiting
<1>11. RunOK(me, status, observs', receipts')
      <2> HIDE DEF tail
      <2>1. phase \in {"receipts", "upsert"}
            OBVIOUS
      <2> HIDE DEF phase
      <2> QED BY <1>1, <1>6, <1>7, <1>10, <2>1 DEF RunOK, Holding, Quiet
<1> QED BY <1>1, <1>4, <1>6, <1>11, QuietStep

(* A failed batch is counted, whatever its size.                           *)
LEMMA GivesUpIsOK ==
    ASSUME IInv, NEW r \in Runs, run[r].pc \in Holding, Grows, GivesUp(r)
    PROVE  \E me : /\ Becomes(r, me) /\ me.batch = run[r].batch
                   /\ RunOK(me, status, observs', receipts')
<1> USE RunFacts
<1> DEFINE n == run[r].failed + Cardinality(run[r].batch)
           me == [run[r] EXCEPT !.pc = "resolve", !.ok = FALSE, !.todo = <<>>,
                                !.attempt = 1, !.failed = n]
<1>1. Becomes(r, me)
      BY DEF GivesUp
<1>2. run[r].batch # {}
      BY DEF RunOK
<1>3. Cardinality(run[r].batch) \in Nat \ {0}
      <2>1. IsFiniteSet(run[r].batch)
            BY OrderAssumption, FS_Subset
      <2> QED BY <1>2, <2>1, FS_CardinalityType, FS_EmptySet
<1>4. n \in Nat \ {0}
      BY <1>3
<1>5. <<>> \in Seq([rows : SUBSET Row, depth : Nat])
      BY EmptySeq
<1>6. /\ me \in Memory /\ me.batch = run[r].batch /\ me.pc = "resolve"
      /\ me.failed = n /\ me.ok = FALSE
      <2> DEFINE a == [run[r] EXCEPT !.pc = "resolve"]
                 b == [a EXCEPT !.todo = <<>>]
                 c == [b EXCEPT !.attempt = 1]
                 d == [c EXCEPT !.failed = n]
      <2> HIDE DEF n
      <2>1. a \in Memory
            BY SetPhase DEF Phases
      <2>2. b \in Memory
            <3> HIDE DEF a
            <3> QED BY <1>5, <2>1, SetTodo
      <2>3. c \in Memory
            <3> HIDE DEF b
            <3> QED BY <2>2, SetAttempt
      <2>4. d \in Memory
            <3> HIDE DEF c
            <3> QED BY <1>4, <2>3, SetCount
      <2>5. me = [d EXCEPT !.ok = FALSE]
            BY DEF Memory
      <2>6. /\ me.batch = run[r].batch /\ me.pc = "resolve"
            /\ me.failed = n /\ me.ok = FALSE
            BY DEF Memory
      <2> HIDE DEF d, me
      <2> QED BY <2>4, <2>5, <2>6 DEF Memory
<1>7. RunOK(me, status, observs', receipts')
      <2> HIDE DEF me, n
      <2> QED BY <1>2, <1>4, <1>6 DEF RunOK, Holding, Progress, Quiet
<1> HIDE DEF me
<1> QED BY <1>1, <1>6, <1>7

LEMMA GivesUpStep ==
    ASSUME IInv, NEW r \in Runs, run[r].pc \in Holding, Grows, GivesUp(r),
           TablesOK', UNCHANGED status
    PROVE  IInv'
<1>1. PICK me : /\ Becomes(r, me) /\ me.batch = run[r].batch
                /\ RunOK(me, status, observs', receipts')
      BY GivesUpIsOK
<1> QED BY <1>1, QuietStep

(* Another attempt at the same chunk.                                      *)
LEMMA RetryStep ==
    ASSUME IInv, NEW r \in Runs, Grows, TablesOK', UNCHANGED status,
           run[r].pc = "upsert",
           Becomes(r, [run[r] EXCEPT !.attempt = @ + 1])
    PROVE  IInv'
<1> USE RunFacts
<1> DEFINE n == run[r].attempt + 1
           me == [run[r] EXCEPT !.attempt = n]
<1>1. Becomes(r, me)
      OBVIOUS
<1>2. n \in Nat \ {0}
      BY DEF Memory
<1>3. me \in Memory
      <2> HIDE DEF n
      <2> QED BY <1>2, SetAttempt
<1>4. /\ me.batch = run[r].batch /\ me.took = run[r].took /\ me.pc = run[r].pc
      /\ me.failed = run[r].failed /\ me.todo = run[r].todo /\ me.ok = run[r].ok
      BY DEF Memory
<1>5. RunOK(run[r], status', observs', receipts')
      BY Undisturbed
<1>6. RunOK(me, status', observs', receipts')
      <2> HIDE DEF me
      <2> QED BY <1>3, <1>4, <1>5 DEF RunOK, Progress, Quiet, Waiting
<1> HIDE DEF me
<1> QED BY <1>1, <1>4, <1>6, QuietStep

(* The halves of a chunk wait in its place.                                *)
LEMMA SplitStep ==
    ASSUME IInv, NEW r \in Runs, Grows, TablesOK', UNCHANGED status,
           run[r].pc = "upsert", Split(r)
    PROVE  IInv'
<1> USE RunFacts
<1>1. /\ Chunk(r) \in Chunks /\ Chunk(r).rows \in SUBSET Row /\ Chunk(r).depth + 1 \in Nat
      /\ Tail(run[r].todo) \in Seq(Chunks)
      <2>1. Chunk(r) \in Chunks /\ Tail(run[r].todo) \in Seq(Chunks)
            BY TodoFacts
      <2>2. Chunk(r).rows \in SUBSET Row /\ Chunk(r).depth + 1 \in Nat
            BY <2>1 DEF Chunks
      <2> QED BY <2>1, <2>2
<1>2. PICK left \in Halves(Chunk(r).rows) :
          Becomes(r, [run[r] EXCEPT !.attempt = 1,
              !.todo = <<[rows |-> left, depth |-> Chunk(r).depth + 1],
                         [rows |-> Rest(Chunk(r).rows, left),
                          depth |-> Chunk(r).depth + 1]>> \o Tail(@)])
      BY DEF Split
<1> DEFINE one == [rows |-> left, depth |-> Chunk(r).depth + 1]
           two == [rows |-> Rest(Chunk(r).rows, left), depth |-> Chunk(r).depth + 1]
           pair == <<one, two>>
           tail == Tail(run[r].todo)
           todo == pair \o tail
           me == [run[r] EXCEPT !.attempt = 1, !.todo = todo]
<1>3. Becomes(r, me)
      BY <1>2
<1>4. one \in Chunks /\ two \in Chunks
      BY <1>1 DEF Chunks, Halves, Rest
<1>5. pair \in Seq(Chunks) /\ Len(pair) = 2 /\ pair[1] = one /\ pair[2] = two
      <2> HIDE DEF one, two
      <2> QED BY <1>4
<1>6. /\ todo \in Seq(Chunks) /\ Len(todo) = 2 + Len(tail)
      /\ \A i \in 1..Len(todo) :
             todo[i] = IF i <= 2 THEN pair[i] ELSE tail[i - 2]
      <2>1. tail \in Seq(Chunks)
            BY <1>1
      <2> HIDE DEF pair, tail
      <2>2. /\ todo \in Seq(Chunks) /\ Len(todo) = Len(pair) + Len(tail)
            /\ \A i \in 1..Len(pair) + Len(tail) :
                   todo[i] = IF i <= Len(pair) THEN pair[i] ELSE tail[i - Len(pair)]
            BY <1>5, <2>1, ConcatProperties
      <2> HIDE DEF todo
      <2> QED BY <1>5, <2>2
<1>7. Len(tail) \in Nat /\ DOMAIN tail = 1..Len(tail)
      /\ DOMAIN todo = 1..Len(todo) /\ Len(todo) \in Nat
      <2>1. tail \in Seq(Chunks)
            BY <1>1
      <2> HIDE DEF todo, tail
      <2> QED BY <2>1, <1>6, LenProperties
<1>8. 1 \in DOMAIN todo /\ todo[1] = one /\ 2 \in DOMAIN todo /\ todo[2] = two
      <2> HIDE DEF todo, tail, pair, one, two
      <2> QED BY <1>5, <1>6, <1>7
<1>9. \A i \in DOMAIN tail : i + 2 \in DOMAIN todo /\ todo[i + 2] = tail[i]
      <2> HIDE DEF todo, tail, pair, one, two
      <2> QED BY <1>5, <1>6, <1>7
<1>10. \A row \in Chunk(r).rows : row \in one.rows \/ row \in two.rows
      BY DEF Rest
<1>11. /\ me \in Memory /\ me.batch = run[r].batch /\ me.took = run[r].took
       /\ me.failed = run[r].failed /\ me.pc = "upsert" /\ me.todo = todo
      <2> HIDE DEF todo
      <2> DEFINE a == [run[r] EXCEPT !.attempt = 1]
      <2>1. a \in Memory
            BY SetAttempt
      <2>2. todo \in Seq([rows : SUBSET Row, depth : Nat])
            BY <1>6 DEF Chunks
      <2>3. me = [a EXCEPT !.todo = todo]
            BY DEF Memory
      <2>4. me \in Memory
            <3> HIDE DEF a, me
            <3> QED BY <2>1, <2>2, <2>3, SetTodo
      <2> QED BY <2>4 DEF Memory
<1> HIDE DEF me
<1>12. \A row : Waiting(run[r], row) => Waiting(me, row)
      <2> HIDE DEF todo, tail, pair, one, two
      <2>1. ASSUME NEW row, Waiting(run[r], row) PROVE Waiting(me, row)
            <3>1. \/ row \in Chunk(r).rows
                  \/ \E n \in DOMAIN tail : row \in tail[n].rows
                  BY <2>1, TodoFacts DEF tail
            <3>2. CASE row \in Chunk(r).rows
                  BY <1>8, <1>10, <1>11, <3>2 DEF Waiting
            <3>3. ASSUME NEW i \in DOMAIN tail, row \in tail[i].rows
                  PROVE  Waiting(me, row)
                  BY <1>9, <1>11, <3>3 DEF Waiting
            <3> QED BY <3>1, <3>2, <3>3
      <2> QED BY <2>1
<1>13. todo # <<>>
      <2> HIDE DEF todo, tail, pair, one, two
      <2> QED BY <1>6, <1>7, EmptySeq
<1>14. RunOK(run[r], status', observs', receipts')
      BY Undisturbed
<1>15. RunOK(me, status', observs', receipts')
      <2> HIDE DEF todo, tail, pair, one, two
      <2> QED BY <1>11, <1>12, <1>13, <1>14 DEF RunOK, Progress, Quiet
<1> QED BY <1>3, <1>11, <1>15, QuietStep

LEMMA UpsertFailsStep ==
    ASSUME IInv, NEW r \in Runs, NEW error \in Errors, UpsertFails(r, error)
    PROVE  IInv'
<1> USE Parts
<1>1. run[r].pc = "upsert" /\ UNCHANGED <<status, receipts>> /\ faults' \in Nat
      BY DEF UpsertFails, Fault, TablesOK
<1>2. TablesOK' /\ Grows
      <2>1. CASE UNCHANGED observs
            BY <1>1, <2>1 DEF TablesOK, Grows
      <2>2. CASE observs' = Upserted(Chunk(r).rows)
            <3>1. Chunk(r).rows \in SUBSET Row
                  BY <1>1, TodoFacts DEF Chunks
            <3> QED BY <1>1, <2>2, <3>1, UpsertedGrows DEF TablesOK, Grows
      <2> QED BY <2>1, <2>2 DEF UpsertFails
<1>3. \/ Becomes(r, [run[r] EXCEPT !.attempt = @ + 1]) \/ Split(r) \/ GivesUp(r)
      BY DEF UpsertFails
<1> QED BY <1>1, <1>2, <1>3, RetryStep, SplitStep, GivesUpStep DEF Holding

-----------------------------------------------------------------------------
(* The receipts, the resolution and the death of the instance.             *)
LEMMA ReceiptsGrow ==
    ASSUME IInv, NEW r \in Runs, UNCHANGED <<status, observs>>, faults' \in Nat,
           receipts' \in {receipts, receipts \cup BatchReceipts(r)}
    PROVE  TablesOK' /\ Grows
<1>1. \A row \in Normalized(run[r].batch) : row.key \in Keys
      BY RunFacts, NormalizedRows DEF Row
<1>2. BatchReceipts(r) \subseteq {Receipt[k] : k \in Keys}
      BY <1>1 DEF BatchReceipts, ReceiptRows
<1> QED BY <1>2, Parts DEF TablesOK, Grows

LEMMA ReceiptsStep ==
    ASSUME IInv, NEW r \in Runs, WriteReceipts(r) \/ ReceiptsFail(r)
    PROVE  IInv'
<1> USE Parts, RunFacts
<1>1. TablesOK' /\ Grows /\ UNCHANGED status /\ run[r].pc = "receipts"
      BY ReceiptsGrow DEF WriteReceipts, ReceiptsFail, Fault, TablesOK
<1>2. CASE ReceiptsFail(r)
      BY <1>1, <1>2, GivesUpStep DEF ReceiptsFail, Holding
<1>3. CASE WriteReceipts(r)
      <2> DEFINE a == [run[r] EXCEPT !.pc = "resolve"]
                 me == [run[r] EXCEPT !.pc = "resolve", !.ok = TRUE]
      <2>1. Becomes(r, me) /\ receipts' = receipts \cup BatchReceipts(r)
            /\ UNCHANGED observs
            BY <1>3 DEF WriteReceipts
      <2>2. /\ me \in Memory /\ me.batch = run[r].batch /\ me.pc = "resolve" /\ me.ok
            /\ me.failed = run[r].failed /\ me.took = run[r].took
            BY DEF Memory
      <2> HIDE DEF me
      <2>3. \A row \in Normalized(run[r].batch) :
                observs'[row.key] # NoValue /\ Receipt[row.key] \in receipts'
            BY <1>1, <2>1 DEF RunOK, Progress, BatchReceipts, ReceiptRows
      <2>4. RunOK(me, status, observs', receipts')
            BY <1>1, <2>2, <2>3 DEF RunOK, Holding, Progress, Quiet
      <2> QED BY <1>1, <2>1, <2>2, <2>4, QuietStep
<1> QED BY <1>2, <1>3

(* What the resolve function does to the outbox.                           *)
LEMMA ResolvedFacts ==
    ASSUME IInv, NEW r \in Runs, run[r].pc = "resolve", status' = Resolved(r),
           UNCHANGED <<observs, receipts>>, faults' \in Nat
    PROVE  /\ TablesOK' /\ Grows /\ ResolvedIsDelivered'
           /\ \A e \in Entries : status[e] = "resolved" => status'[e] = "resolved"
           /\ \A s \in Runs \ {r} : \A e \in run[s].batch : status'[e] = status[e]
<1> USE Parts, RunFacts
<1>1. TablesOK' /\ Grows
      BY DEF TablesOK, Grows, Resolved
<1>2. \A e \in run[r].batch : status[e] = "claimed"
      BY DEF RunOK
<1>3. \A e \in Entries : status[e] = "resolved" => status'[e] = "resolved"
      BY <1>2 DEF Resolved
<1>4. \A s \in Runs \ {r} : \A e \in run[s].batch : status'[e] = status[e]
      <2>1. ASSUME NEW s \in Runs \ {r}, NEW e \in run[s].batch
            PROVE  e \in Entries /\ e \notin run[r].batch
            BY DEF Apart
      <2> QED BY <2>1 DEF Resolved
<1>5. ASSUME NEW e \in Entries, status'[e] = "resolved",
             NEW n \in DOMAIN Payload[e].rows
      PROVE  /\ observs[Payload[e].rows[n].key] # NoValue
             /\ Receipt[Payload[e].rows[n].key] \in receipts
      <2>1. CASE status[e] = "resolved"
            BY <2>1 DEF ResolvedIsDelivered
      <2>2. CASE e \in run[r].batch /\ run[r].ok
            <3>1. PICK row \in Normalized(run[r].batch) :
                      row.key = Payload[e].rows[n].key
                  BY <2>2, Cover
            <3>2. observs[row.key] # NoValue /\ Receipt[row.key] \in receipts
                  BY <2>2 DEF RunOK, Progress
            <3> QED BY <3>1, <3>2
      <2> QED BY <1>5, <2>1, <2>2 DEF Resolved
<1> QED BY <1>1, <1>3, <1>4, <1>5 DEF ResolvedIsDelivered

LEMMA ResolveStep ==
    ASSUME IInv, NEW r \in Runs, Resolve(r)
    PROVE  IInv'
<1> USE Parts, RunFacts
<1> DEFINE pc == IF run[r].batches < MaxBatches THEN "claim" ELSE "done"
           me == Over(run[r], pc)
<1>1. /\ run[r].pc = "resolve" /\ status' = Resolved(r) /\ Becomes(r, me)
      /\ UNCHANGED <<observs, receipts>> /\ faults' \in Nat
      BY DEF Resolve, TablesOK
<1>2. /\ TablesOK' /\ Grows /\ ResolvedIsDelivered'
      /\ \A e \in Entries : status[e] = "resolved" => status'[e] = "resolved"
      /\ \A s \in Runs \ {r} : \A e \in run[s].batch : status'[e] = status[e]
      BY <1>1, ResolvedFacts
<1>3. run[r].failed = 0 => \A e \in run[r].took : status'[e] = "resolved"
      <2>1. ASSUME run[r].failed = 0, NEW e \in run[r].took
            PROVE  status'[e] = "resolved"
            <3>1. run[r].ok /\ (e \notin run[r].batch => status[e] = "resolved")
                  BY <1>1, <2>1 DEF RunOK, Quiet
            <3> QED BY <1>1, <3>1 DEF Resolved
      <2> QED BY <2>1
<1>4. pc \in {"claim", "done", "thrown"}
      OBVIOUS
<1>5. RunOK(me, status', observs', receipts') /\ me.batch = {}
      <2>1. run[r] \in Memory
            OBVIOUS
      <2>2. pc # "thrown" /\ run[r].failed = 0 =>
                \A e \in run[r].took : status'[e] = "resolved"
            BY <1>3
      <2> HIDE DEF pc
      <2> QED BY ONLY <1>4, <2>1, <2>2, OverIsOK DEF me
<1> HIDE DEF me
<1> QED BY <1>1, <1>2, <1>5, RunStep

LEMMA ThrowsStep ==
    ASSUME IInv, NEW r \in Runs, ResolveFails(r) \/ Crash(r)
    PROVE  IInv'
<1> USE Parts, RunFacts
<1> DEFINE me == Over(run[r], "thrown")
<1>1. Becomes(r, me) /\ UNCHANGED <<observs, receipts>> /\ faults' \in Nat
      BY DEF ResolveFails, Crash, Throws, Fault, TablesOK
<1>2. RunOK(me, status', observs', receipts') /\ me.batch = {}
      BY OverIsOK
<1> HIDE DEF me
<1>3. CASE UNCHANGED status
      <2>1. TablesOK' /\ Grows
            BY <1>1, <1>3 DEF TablesOK, Grows
      <2> QED BY <1>1, <1>2, <1>3, <2>1, QuietStep
<1>4. CASE run[r].pc = "resolve" /\ status' = Resolved(r)
      <2>1. /\ TablesOK' /\ Grows /\ ResolvedIsDelivered'
            /\ \A e \in Entries : status[e] = "resolved" => status'[e] = "resolved"
            /\ \A s \in Runs \ {r} : \A e \in run[s].batch : status'[e] = status[e]
            BY <1>1, <1>4, ResolvedFacts
      <2> QED BY <1>1, <1>2, <2>1, RunStep
<1> QED BY <1>3, <1>4 DEF ResolveFails, Crash

LEMMA StartRunStep ==
    ASSUME IInv, NEW r \in Runs, StartRun(r)
    PROVE  IInv'
<1> USE Parts
<1> DEFINE me == [Idle EXCEPT !.pc = "claim"]
<1>1. Becomes(r, me) /\ UNCHANGED <<status, observs, receipts, faults>>
      BY DEF StartRun
<1>2. me \in Memory
      <2>1. Idle \in Memory
            BY IdleIsOK DEF RunOK
      <2> HIDE DEF Idle
      <2> QED BY <2>1, SetPhase DEF Phases
<1>3. /\ me.batch = {} /\ me.pc = "claim" /\ me.took = {}
      BY DEF Idle
<1>4. Normalized({}) = {}
      BY DEF Normalized, Positions
<1> HIDE DEF me
<1>5. RunOK(me, status, observs', receipts')
      BY <1>2, <1>3, <1>4 DEF RunOK, Holding, Progress, Quiet
<1>6. TablesOK' /\ Grows
      BY <1>1 DEF TablesOK, Grows
<1> QED BY <1>1, <1>3, <1>5, <1>6, QuietStep

-----------------------------------------------------------------------------
(* The invariant is inductive.                                             *)
LEMMA Keeps == IInv /\ [Next]_vars => IInv'
<1> SUFFICES ASSUME IInv, [Next]_vars PROVE IInv'
    OBVIOUS
<1>1. CASE UNCHANGED vars
      BY <1>1 DEF vars, IInv, TypeOK, HeldExclusively, BatchHeld, BatchProgress,
             QuietSoFar, ResolvedIsDelivered, Stored, Receipted, Waiting
<1>2. ASSUME NEW e \in Entries, Enqueue(e) \/ LeaseExpires(e) PROVE IInv'
      BY <1>2, EntryStep
<1>3. ASSUME NEW r \in Runs, Service(r) PROVE IInv'
      BY <1>3, ClaimNothingStep, ClaimBatchStep, UpsertChunkStep, ReceiptsStep,
         ResolveStep DEF Service
<1>4. ASSUME NEW r \in Runs, Failures(r) PROVE IInv'
      BY <1>4, ClaimFailsStep, ReceiptsStep, ThrowsStep, UpsertFailsStep DEF Failures
<1> QED BY <1>1, <1>2, <1>3, <1>4, StartRunStep DEF Next

(* Every state of the outbox, of both databases and of every run satisfies *)
(* the inductive invariant, whatever is claimed, split, retried or lost.   *)
THEOREM FlushInvariant == Spec => []IInv
<1>1. Init => IInv
      BY Start
<1>2. IInv /\ [Next]_vars => IInv'
      BY Keeps
<1> QED BY <1>1, <1>2, PTL DEF Spec

(* The outbox, both databases and every run hold what the code can put.    *)
THEOREM FlushTypeCorrect == Spec => []TypeOK
<1>1. IInv => TypeOK
      BY DEF IInv
<1> QED BY <1>1, FlushInvariant, PTL

(* No two live runs hold one entry, and what a run holds is claimed.       *)
THEOREM EntriesHeldOnce == Spec => []HeldExclusively
<1>1. IInv => HeldExclusively
      BY DEF IInv
<1> QED BY <1>1, FlushInvariant, PTL

(* An entry leaves the outbox only with every row of it in ObsAqiDB and    *)
(* every receipt written.                                                  *)
THEOREM NothingResolvedUndelivered == Spec => []ResolvedIsDelivered
<1>1. IInv => ResolvedIsDelivered
      BY DEF IInv
<1> QED BY <1>1, FlushInvariant, PTL

(* A run that ends without an alert has resolved all it ever claimed.      *)
THEOREM QuietMeansResolved == Spec => []QuietRunResolved
<1>1. IInv => QuietRunResolved
      <2> SUFFICES ASSUME IInv, NEW r \in Runs, run[r].pc = "done",
                          run[r].failed = 0, NEW e \in run[r].took
                   PROVE  status[e] = "resolved"
          BY DEF QuietRunResolved
      <2>1. run[r].batch = {}
            BY DEF IInv, BatchHeld, Holding
      <2> QED BY <2>1 DEF IInv, QuietSoFar
<1> QED BY <1>1, FlushInvariant, PTL
=============================================================================
