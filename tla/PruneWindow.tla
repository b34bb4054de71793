---------------------------- MODULE PruneWindow ----------------------------
(***************************************************************************)
(* The pure decisions of one Prune Daily window: comparing the hour buckets*)
(* of IngestDB with those of ObsAqiDB, choosing what to repair, and        *)
(* deciding whether a plan made from counted buckets still covers the rows *)
(* a deletion transaction finds.                                           *)
(*                                                                         *)
(* A bucket is the rows of a connector-day in one hour.  The server-side   *)
(* fingerprint of a bucket is modelled by its rows.                        *)
(***************************************************************************)
EXTENDS PruneEvidence

Hour(k) == Time[k] \div 60

Hours == {Hour(k) : k \in Keys}

Bucket(content, h) == {k \in Rows(content) : Hour(k) = h}

Buckets(content) == {h \in Hours : Bucket(content, h) # {}}

SameFingerprint(a, b, h) ==
    /\ Bucket(a, h) = Bucket(b, h)
    /\ \A k \in Bucket(a, h) : a[k] = b[k]

(* Mutated form: only a missing bucket counts.                             *)
MissingBuckets(ingest, observs) == Buckets(ingest) \ Buckets(observs)

(* compareBuckets: the ingest bucket is missing from ObsAqiDB, or differs  *)
(* from it in count or in fingerprint.  Extra ObsAqiDB hours only warn.    *)
Mismatches(ingest, observs) ==
    {h \in Buckets(ingest) : ~SameFingerprint(ingest, observs, h)}

(* classifyRepairMismatches: a bucket that holds more rows in ObsAqiDB     *)
(* than in IngestDB is reported, never replayed.                           *)
Repairable(ingest, observs) ==
    {h \in Mismatches(ingest, observs) :
        Cardinality(Bucket(observs, h)) <= Cardinality(Bucket(ingest, h))}

(* replayObservationsForRepairBucket upserts the bucket's current rows.    *)
Replay(observs, ingest, h) ==
    [k \in Keys |-> IF k \in Bucket(ingest, h) THEN ingest[k] ELSE observs[k]]

(* deletionPlanCoversCurrentConnectorDay compares hours and row counts.    *)
PlanCovers(planned, current) ==
    \A h \in Hours :
        Cardinality(Bucket(planned, h)) = Cardinality(Bucket(current, h))

(* Mutated forms: rows that came after the snapshot go too; the hours after *)
(* the first are forgotten.                                                *)
RemovedEverything(content, snapshot) == Empty

RemovedFirstHour(content, snapshot) ==
    [k \in Keys |-> IF k \in Rows(snapshot) /\ Hour(k) = 0 THEN NoRow
                                                           ELSE content[k]]

(* The DELETE of a snapshot's rows; later rows stay.                       *)
Removed(content, snapshot) ==
    [k \in Keys |-> IF k \in Rows(snapshot) THEN NoRow ELSE content[k]]

(* deleteOneHour stops after a fixed number of fixed-size batches.         *)
DeleteCapReached(content, cap) ==
    \E h \in Hours : Cardinality(Bucket(content, h)) > cap
=============================================================================
