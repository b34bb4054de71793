--------------------------- MODULE PruneEvidence ---------------------------
(***************************************************************************)
(* The data of Prune Daily and the rows it keeps about it.                 *)
(*                                                                         *)
(* A connector-day is one connector's observations of one UTC day.  Its    *)
(* content is a function from the row keys (timeseries and observed_at) to *)
(* the value held there, or NoRow.  A source identity (a SHA-256 over the  *)
(* canonical rows plus their count) is modelled by the content itself: two *)
(* identities agree exactly when the rows do.                              *)
(*                                                                         *)
(* uk_aq_ops.history_candidates and uk_aq_ops.prune_connector_day_gates    *)
(* hold one row each per connector-day.  Every UPDATE the worker issues    *)
(* against them is an operator here, from the old row to the new one.      *)
(***************************************************************************)
EXTENDS Integers, FiniteSets

CONSTANTS
    Keys,       \* row keys of a connector-day
    Values,     \* observed values
    Time,       \* observed_at of a key, in minutes of the day
    NoRow,      \* no row under this key
    NoContent   \* a null source identity; nothing published

ASSUME KeysAssumption == IsFiniteSet(Keys)
ASSUME TimeAssumption == Time \in [Keys -> Nat]
ASSUME NoRowAssumption == NoRow \notin Values
ASSUME NoContentAssumption == NoContent \notin [Keys -> Values \cup {NoRow}]

Contents == [Keys -> Values \cup {NoRow}]

Empty == [k \in Keys |-> NoRow]

Rows(content) == {k \in Keys : content[k] # NoRow}

(* What the candidate upsert aggregates: count, min and max observed_at.   *)
Aggregate(content) ==
    LET times == {Time[k] : k \in Rows(content)}
    IN  [n  |-> Cardinality(Rows(content)),
         lo |-> {t \in times : \A u \in times : t <= u},
         hi |-> {t \in times : \A u \in times : t >= u}]

(***************************************************************************)
(* history_candidates                                                      *)
(***************************************************************************)
Statuses == {"absent", "pending", "in_progress", "complete", "failed"}

(* last_error: null, a free-text message, or one of the durable markers.   *)
Markers == {"null", "message", "READY", "CONSUMED", "UNPROVEN",
            "ISOLATED_BLOCK", "GATE_RECOVERY_UNPROVEN"}

PersistentMarkers ==
    {"ISOLATED_BLOCK", "GATE_RECOVERY_UNPROVEN", "CONSUMED", "UNPROVEN"}

NoAggregate == [n |-> 0, lo |-> {}, hi |-> {}]

NoRun == 0

Candidates ==
    [status : Statuses, run : Nat, error : Markers,
     expected : [n : Nat, lo : SUBSET Nat, hi : SUBSET Nat],
     hash : Contents \cup {NoContent}]

AbsentCandidate ==
    [status |-> "absent", run |-> NoRun, error |-> "null",
     expected |-> NoAggregate, hash |-> NoContent]

(* Mutated form: a drained connector-day is complete, and no block.        *)
BlockOfFailed(row) == row.status = "failed" /\ row.error \in PersistentMarkers

(* PERSISTENT_BLOCK_SQL *)
PersistentBlock(row) ==
    \/ row.status = "failed" /\ row.error \in PersistentMarkers
    \/ row.status = "complete" /\ row.error = "CONSUMED"

(* Mutated form: a claim left behind by a dead run is respected.           *)
PopulatedKeepingClaims(row, aggregate) ==
    IF row.status = "in_progress" THEN row
    ELSE [status |-> "pending", run |-> NoRun, error |-> "null",
          expected |-> aggregate, hash |-> NoContent]

(* The INSERT ... ON CONFLICT DO UPDATE of populateBackupCandidates.       *)
Populated(row, aggregate) ==
    LET unchanged == row.status = "complete" /\ row.expected = aggregate
        pending   == [status |-> "pending", run |-> NoRun, error |-> "null",
                      expected |-> aggregate, hash |-> NoContent]
    IN  IF PersistentBlock(row)
        THEN [row EXCEPT !.status = "failed", !.expected = aggregate,
                         !.hash = IF unchanged THEN @ ELSE NoContent]
        ELSE IF unchanged THEN row ELSE pending

InProgress(row, run) ==
    [row EXCEPT !.status = "in_progress", !.run = run, !.error = "null",
                !.hash = NoContent]

(* The WHERE clause of markCandidateComplete *)
Completable(row, run, content) ==
    /\ row.run = run
    /\ row.status = "in_progress"
    /\ row.expected.n = Cardinality(Rows(content))
    /\ row.error = "null"

Completed(row, run, content) ==
    [row EXCEPT !.status = "complete", !.run = run, !.error = "READY",
                !.hash = content]

Failed(row, run, error) ==
    [row EXCEPT !.status = "failed", !.run = run, !.error = error,
                !.hash = NoContent]

(* Mutated form: the claim is not given back.                              *)
StoppedWithoutRelease(row, run) ==
    [row EXCEPT !.run = run, !.error = "message", !.hash = NoContent]

StoppedForBudget(row, run) ==
    [row EXCEPT !.status = "pending", !.run = run, !.error = "message",
                !.hash = NoContent]

Invalidated(row) ==
    [row EXCEPT !.status = "pending", !.run = NoRun, !.error = "message",
                !.hash = NoContent]

BlockedWithoutProof(row) ==
    [row EXCEPT !.status = "failed",
                !.error = IF @ = "CONSUMED" THEN @ ELSE "UNPROVEN"]

Consumed(row) == [row EXCEPT !.error = "CONSUMED"]

(***************************************************************************)
(* prune_connector_day_gates                                               *)
(***************************************************************************)
Gates == [done : BOOLEAN, run : Nat, hash : Contents \cup {NoContent}]

(* An absent row and a nulled row decide every branch alike.               *)
ClosedGate == [done |-> FALSE, run |-> NoRun, hash |-> NoContent]

OpenGate(run, content) == [done |-> TRUE, run |-> run, hash |-> content]

(* isValidConnectorHistoryGateEvidence *)
ValidGate(gate) == gate.done /\ gate.hash # NoContent

(***************************************************************************)
(* classifyLockedEvidence: what the deletion transaction makes of the two  *)
(* locked rows, before it reads the observations.                          *)
(***************************************************************************)
PreservesEvidence(row) == row.status = "complete" /\ row.error # "READY"

EvidenceAgrees(row, gate) ==
    /\ row.status = "complete"
    /\ row.error = "READY"
    /\ row.run # NoRun
    /\ row.run = gate.run
    /\ row.hash # NoContent
    /\ ValidGate(gate)
    /\ row.hash = gate.hash
=============================================================================
