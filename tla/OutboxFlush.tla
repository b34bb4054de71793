---------------------------- MODULE OutboxFlush ----------------------------
(***************************************************************************)
(* The observs outbox flush service: entries of the ingest outbox, each a  *)
(* list of observation rows, are claimed in batches, upserted into         *)
(* ObsAqiDB, receipted and resolved.                                       *)
(*                                                                         *)
(* A run makes four kinds of remote call, and every one of them may fail,  *)
(* applied or not.  Several runs may be under way: each POST /run starts   *)
(* one, and the instance serving it may die.                               *)
(*                                                                         *)
(* The three calls on the outbox and the upsert are SQL functions of       *)
(* another repository; they are what their callers take them for.          *)
(***************************************************************************)
EXTENDS Integers, FiniteSets, Sequences

CONSTANTS
    Entries, Order,         \* outbox entries and the order of a claim
    Keys, Values, NoValue,  \* a row: connector, timeseries, time; its value
    Payload,                \* what an entry carries
    Receipt,                \* the daily receipt a key belongs to
    Runs,                   \* flush runs, each used once
    ClaimLimit, MaxBatches, \* parameters of a run
    Retries, SplitMin, SplitDepth,      \* constants of the upsert
    MaxFaults               \* bound of the model

Row == [key : Keys, value : Values]

ASSUME OrderAssumption ==
    /\ IsFiniteSet(Entries)
    /\ Order \in [Entries -> 1..Cardinality(Entries)]
    /\ \A e, f \in Entries : Order[e] = Order[f] => e = f
ASSUME PayloadAssumption ==
    Payload \in [Entries -> [wellFormed : BOOLEAN, rows : Seq(Row)]]
ASSUME NoValueAssumption == NoValue \notin Values
ASSUME LimitsAssumption ==
    /\ ClaimLimit \in Nat \ {0} /\ MaxBatches \in Nat \ {0}
    /\ Retries \in Nat \ {0} /\ SplitMin \in Nat \ {0} /\ SplitDepth \in Nat

VARIABLES
    status,         \* of each entry in the outbox
    observs,        \* ObsAqiDB's value of each key
    receipts,       \* receipts written in the ingest database
    run,            \* the memory of every run
    faults          \* counter of the model's bound

vars == <<status, observs, receipts, run, faults>>

Idle ==
    [pc |-> "idle", batch |-> {}, todo |-> <<>>, attempt |-> 1, ok |-> FALSE,
     batches |-> 0, failed |-> 0, drained |-> FALSE, took |-> {}]

Init ==
    /\ status = [e \in Entries |-> "absent"]
    /\ observs = [k \in Keys |-> NoValue]
    /\ receipts = {}
    /\ run = [r \in Runs |-> Idle]
    /\ faults = 0

Fault == faults < MaxFaults /\ faults' = faults + 1

Becomes(r, me) == run' = [run EXCEPT ![r] = me]

-----------------------------------------------------------------------------
(***************************************************************************)
(* normalizeObservsRows and buildReceiptRows.                              *)
(***************************************************************************)
Positions(batch) ==
    UNION {{<<e, n>> : n \in DOMAIN Payload[e].rows} : e \in batch}

RowAt(p) == Payload[p[1]].rows[p[2]]

Before(p, q) ==
    \/ Order[p[1]] < Order[q[1]]
    \/ p[1] = q[1] /\ p[2] < q[2]

(* Of the rows with one key, the last of the batch counts.                 *)
Normalized(batch) ==
    {RowAt(p) : p \in {q \in Positions(batch) :
        ~ \E later \in Positions(batch) :
            RowAt(later).key = RowAt(q).key /\ Before(q, later)}}

(* A row with an unreadable id or timestamp makes it throw.                *)
Normalizes(batch) == \A e \in batch : Payload[e].wellFormed

ReceiptRows(rows) == {Receipt[row.key] : row \in rows}

-----------------------------------------------------------------------------
(***************************************************************************)
(* The outbox, around a run.                                               *)
(***************************************************************************)
(* The ingest functions write an entry.                                    *)
Enqueue(e) ==
    /\ status[e] = "absent"
    /\ status' = [status EXCEPT ![e] = "pending"]
    /\ UNCHANGED <<observs, receipts, run, faults>>

(* A claim no live run holds becomes claimable again.                      *)
LeaseExpires(e) ==
    /\ status[e] = "claimed"
    /\ \A r \in Runs : e \notin run[r].batch
    /\ status' = [status EXCEPT ![e] = "pending"]
    /\ UNCHANGED <<observs, receipts, run, faults>>

(* POST /run.                                                              *)
StartRun(r) ==
    /\ run[r].pc = "idle"
    /\ Becomes(r, [Idle EXCEPT !.pc = "claim"])
    /\ UNCHANGED <<status, observs, receipts, faults>>

-----------------------------------------------------------------------------
(***************************************************************************)
(* flushObservsOutbox, one remote call at a time.                          *)
(***************************************************************************)
Pending == {e \in Entries : status[e] = "pending"}

Over(me, pc) ==
    [me EXCEPT !.pc = pc, !.batch = {}, !.todo = <<>>, !.attempt = 1]

(* The run gives up: POST /run answers 500.                                *)
Throws(r) == Becomes(r, Over(run[r], "thrown"))

Batches ==
    {b \in SUBSET Pending : b # {} /\ Cardinality(b) <= ClaimLimit}

ClaimNothing(r) ==
    /\ run[r].pc = "claim"
    /\ Pending = {}
    /\ Becomes(r, [Over(run[r], "done") EXCEPT !.drained = TRUE])
    /\ UNCHANGED <<status, observs, receipts, faults>>

(* An exception of the normalisation is not caught: the run ends and the   *)
(* batch stays claimed.  A batch without rows is resolved at once.         *)
ClaimBatch(r) ==
    /\ run[r].pc = "claim"
    /\ \E batch \in Batches :
         LET rows == Normalized(batch)
             me   == [run[r] EXCEPT !.batch = batch, !.batches = @ + 1,
                                    !.took = @ \cup batch]
         IN  /\ status' = [e \in Entries |->
                             IF e \in batch THEN "claimed" ELSE status[e]]
             /\ IF ~Normalizes(batch) THEN Becomes(r, Over(me, "thrown"))
                ELSE IF rows = {}
                THEN Becomes(r, [me EXCEPT !.pc = "resolve", !.ok = TRUE])
                ELSE Becomes(r, [me EXCEPT !.pc = "upsert", !.attempt = 1,
                                   !.todo = <<[rows |-> rows, depth |-> 0]>>])
    /\ UNCHANGED <<observs, receipts, faults>>

(* The claim is made or not, and the answer is lost.                       *)
ClaimFails(r) ==
    /\ run[r].pc = "claim"
    /\ Fault
    /\ Throws(r)
    /\ \/ \E batch \in Batches :
            status' = [e \in Entries |->
                         IF e \in batch THEN "claimed" ELSE status[e]]
       \/ UNCHANGED status
    /\ UNCHANGED <<observs, receipts>>

Upserted(rows) ==
    [k \in Keys |-> IF \E row \in rows : row.key = k
                    THEN (CHOOSE row \in rows : row.key = k).value
                    ELSE observs[k]]

Chunk(r) == Head(run[r].todo)

UpsertChunk(r) ==
    /\ run[r].pc = "upsert"
    /\ observs' = Upserted(Chunk(r).rows)
    /\ Becomes(r, [run[r] EXCEPT !.todo = Tail(@), !.attempt = 1,
                     !.pc = IF Len(run[r].todo) = 1
                            THEN "receipts" ELSE "upsert"])
    /\ UNCHANGED <<status, receipts, faults>>

(* Mutated form: the entries of a failed batch are not counted.            *)
GivesUpSilently(r) ==
    Becomes(r, [run[r] EXCEPT !.pc = "resolve", !.ok = FALSE, !.todo = <<>>,
                  !.attempt = 1])

(* The batch failed: all of its entries will be given back.                *)
GivesUp(r) ==
    Becomes(r, [run[r] EXCEPT !.pc = "resolve", !.ok = FALSE, !.todo = <<>>,
                  !.attempt = 1, !.failed = @ + Cardinality(run[r].batch)])

Splittable(chunk) ==
    chunk.depth < SplitDepth /\ Cardinality(chunk.rows) >= 2 * SplitMin

Halves(rows) ==
    {left \in SUBSET rows : Cardinality(left) = Cardinality(rows) \div 2}

(* Mutated form: the middle row falls between the halves.                  *)
RestWithoutMiddle(rows, left) ==
    {row \in rows \ left : Cardinality(rows \ left) = Cardinality(left)}

Rest(rows, left) == rows \ left

Split(r) ==
    \E left \in Halves(Chunk(r).rows) :
        Becomes(r, [run[r] EXCEPT !.attempt = 1,
            !.todo = <<[rows |-> left, depth |-> Chunk(r).depth + 1],
                       [rows |-> Rest(Chunk(r).rows, left),
                        depth |-> Chunk(r).depth + 1]>> \o Tail(@)])

(* A statement timeout is rolled back; behind a lost connection, or an     *)
(* answer that cannot be read, the rows may have been written.             *)
UpsertFails(r, error) ==
    /\ run[r].pc = "upsert"
    /\ Fault
    /\ \/ UNCHANGED observs
       \/ error # "timeout" /\ observs' = Upserted(Chunk(r).rows)
    /\ IF run[r].attempt < Retries /\ error \in {"timeout", "connection"}
       THEN Becomes(r, [run[r] EXCEPT !.attempt = @ + 1])
       ELSE IF error = "timeout" /\ Splittable(Chunk(r)) THEN Split(r)
       ELSE GivesUp(r)
    /\ UNCHANGED <<status, receipts>>

BatchReceipts(r) == ReceiptRows(Normalized(run[r].batch))

WriteReceipts(r) ==
    /\ run[r].pc = "receipts"
    /\ receipts' = receipts \cup BatchReceipts(r)
    /\ Becomes(r, [run[r] EXCEPT !.pc = "resolve", !.ok = TRUE])
    /\ UNCHANGED <<status, observs, faults>>

ReceiptsFail(r) ==
    /\ run[r].pc = "receipts"
    /\ Fault
    /\ receipts' \in {receipts, receipts \cup BatchReceipts(r)}
    /\ GivesUp(r)
    /\ UNCHANGED <<status, observs>>

(* Mutated form: the resolutions of earlier batches are sent again.        *)
ResolvedAgain(r) ==
    [e \in Entries |-> IF e \notin run[r].took THEN status[e]
                       ELSE IF run[r].ok THEN "resolved" ELSE "pending"]

(* The resolve function: delivered entries leave the outbox, failed ones   *)
(* wait for another run.                                                   *)
Resolved(r) ==
    [e \in Entries |-> IF e \notin run[r].batch THEN status[e]
                       ELSE IF run[r].ok THEN "resolved" ELSE "pending"]

(* Mutated form: a short batch is taken for the last one.                  *)
ResolveShortLast(r) ==
    /\ run[r].pc = "resolve"
    /\ status' = Resolved(r)
    /\ Becomes(r, Over(run[r], IF /\ run[r].batches < MaxBatches
                                  /\ Cardinality(run[r].batch) = ClaimLimit
                               THEN "claim" ELSE "done"))
    /\ UNCHANGED <<observs, receipts, faults>>

Resolve(r) ==
    /\ run[r].pc = "resolve"
    /\ status' = Resolved(r)
    /\ Becomes(r, Over(run[r], IF run[r].batches < MaxBatches
                               THEN "claim" ELSE "done"))
    /\ UNCHANGED <<observs, receipts, faults>>

ResolveFails(r) ==
    /\ run[r].pc = "resolve"
    /\ Fault
    /\ status' \in {status, Resolved(r)}
    /\ Throws(r)
    /\ UNCHANGED <<observs, receipts>>

(* The instance dies.                                                      *)
Crash(r) ==
    /\ run[r].pc \in {"claim", "upsert", "receipts", "resolve"}
    /\ Fault
    /\ Throws(r)
    /\ UNCHANGED <<status, observs, receipts>>

-----------------------------------------------------------------------------
Errors == {"timeout", "connection", "other"}

Service(r) ==
    \/ ClaimNothing(r) \/ ClaimBatch(r) \/ UpsertChunk(r)
    \/ WriteReceipts(r) \/ Resolve(r)

Failures(r) ==
    \/ ClaimFails(r) \/ ReceiptsFail(r) \/ ResolveFails(r) \/ Crash(r)
    \/ \E error \in Errors : UpsertFails(r, error)

Next ==
    \/ \E e \in Entries : Enqueue(e) \/ LeaseExpires(e)
    \/ \E r \in Runs : StartRun(r) \/ Service(r) \/ Failures(r)

Spec == Init /\ [][Next]_vars

(* A started run goes on; nobody owes an entry, a run or a failure.        *)
FairSpec == Spec /\ \A r \in Runs : WF_vars(Service(r))

-----------------------------------------------------------------------------
(***************************************************************************)
(* Properties.                                                             *)
(***************************************************************************)
Memory ==
    [pc : {"idle", "claim", "upsert", "receipts", "resolve", "done", "thrown"},
     batch : SUBSET Entries, todo : Seq([rows : SUBSET Row, depth : Nat]),
     attempt : Nat \ {0}, ok : BOOLEAN, batches : Nat, failed : Nat,
     drained : BOOLEAN, took : SUBSET Entries]

(* The outbox, both databases and every run hold what the code can put.    *)
TypeOK ==
    /\ status \in [Entries -> {"absent", "pending", "claimed", "resolved"}]
    /\ observs \in [Keys -> Values \cup {NoValue}]
    /\ receipts \subseteq {Receipt[k] : k \in Keys}
    /\ run \in [Runs -> Memory]
    /\ faults \in Nat

(* An entry leaves the outbox only when ObsAqiDB has a value for each of   *)
(* its rows and the receipts are written, however often its batch was      *)
(* split, retried or interrupted, and whoever else flushes.                *)
ResolvedIsDelivered ==
    \A e \in Entries : status[e] = "resolved" =>
        \A n \in DOMAIN Payload[e].rows :
            /\ observs[Payload[e].rows[n].key] # NoValue
            /\ Receipt[Payload[e].rows[n].key] \in receipts

(* A run that ends without an alert has resolved all it ever claimed.      *)
QuietRunResolved ==
    \A r \in Runs :
        run[r].pc = "done" /\ run[r].drained /\ run[r].failed = 0 =>
            \A e \in run[r].took : status[e] = "resolved"

(* No two live runs hold one entry, and what a run holds is claimed: a     *)
(* run never resolves or gives back another's work.                        *)
HeldExclusively ==
    \A r, s \in Runs :
        /\ \A e \in run[r].batch : status[e] = "claimed"
        /\ r # s => run[r].batch \cap run[s].batch = {}

(* A run with batches enough for what waits, its faults behind it, brings  *)
(* every waiting entry through, unless an unreadable one is written.       *)
Readable == \A e \in Entries : status[e] # "absent" => Payload[e].wellFormed

RunDelivers ==
    \A e \in Entries :
        /\ Readable /\ faults = MaxFaults /\ status[e] = "pending"
        /\ \E r \in Runs : run[r].pc = "claim" /\ run[r].batches = 0
      ~> status[e] = "resolved" \/ ~Readable
=============================================================================
