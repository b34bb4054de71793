--------------------------- MODULE PruneDailyInv ---------------------------
(***************************************************************************)
(* The inductive invariant of PruneDaily: what each phase of a run may     *)
(* rely on about candidates, gates and R2.                                 *)
(***************************************************************************)
EXTENDS PruneDaily

(* A run in progress has a positive number; NoRun is nobody's.             *)
RunNumbered == pc # "idle" => run # NoRun

(* What a candidate row, its gate, hierarchy, index and the number of      *)
(* deletions say of one another.                                           *)
Consistent(row, g, t, x, n) ==
    /\ row.error = "READY" => EvidenceAgrees(row, g)
    /\ ValidGate(g) =>
         /\ t = g.hash /\ x = g.hash /\ n = 0
         /\ row.status = "complete" => row.error = "READY"

RowsConsistent ==
    \A c \in ConnectorDays :
        Consistent(cand[c], gate[c], tree[c], index[c], drained[c])

(* A candidate this run has claimed and not yet settled.                   *)
Held(c) ==
    /\ cand[c].status = "in_progress" /\ cand[c].error = "null"
    /\ cand[c].run = run

CurHeld ==
    /\ pc \in {"claimed", "frozen"} => cur \notin batch /\ Held(cur)
    /\ pc = "frozen" => frozen[cur] \in Contents

BatchSteps ==
    {"candidates", "claimed", "frozen", "finalize", "index", "gates"}

(* A published connector-day waits, unreachable and undrained, until its   *)
(* batch is finalised; then hierarchy and index hold its snapshot.         *)
BatchHeld ==
    /\ batch # {} => pc \in BatchSteps
    /\ \A c \in batch :
         /\ Held(c) /\ frozen[c] \in Contents /\ drained[c] = 0
         /\ pc = "index" => tree[c] = frozen[c]
         /\ pc = "gates" => tree[c] = frozen[c] /\ index[c] = frozen[c]
         /\ pc \notin {"index", "gates"} => tree[c] = NoContent

DrainedArchived ==
    \A c \in ConnectorDays : drained[c] > 0 => tree[c] # NoContent

(* A deletion window is being processed until it is finished.              *)
AgendaAtHand == pc \in DeleteSteps \ {"days"} => agenda # <<>>

(* A step on one connector-day has one.                                    *)
CurKnown == pc \in {"claimed", "frozen", "txn"} => cur \in ConnectorDays

TypeInv == TypeOK /\ AgendaAtHand /\ CurKnown

Evidence ==
    /\ RunNumbered /\ RowsConsistent /\ CurHeld /\ BatchHeld
    /\ DrainedArchived /\ FirstDeletionOnce

(* The inductive invariant.                                                *)
IInv == TypeInv /\ Evidence

-----------------------------------------------------------------------------
(***************************************************************************)
(* What it rests on beside that, which holds of every step that keeps IInv.*)
(***************************************************************************)

(* Nothing publishes a connector-day that is complete in R2, so one that   *)
(* was completed without evidence never gets any.                          *)
LegacyKept ==
    \A c \in Legacy :
        /\ c \notin batch /\ tree[c] # NoContent
        /\ cand[c].error # "READY" /\ drained[c] = 0

(* What a run in progress has claimed is at hand, published, or waiting to *)
(* be recorded as unconfirmed; earlier claims carry earlier numbers.  The  *)
(* members of a batch whose gates were tried are not drained before the    *)
(* run is done with it, so marking them takes no consumed marker away.     *)
ClaimsAccounted ==
    /\ \A c \in ConnectorDays :
         /\ cand[c].run <= run
         /\ pc # "idle" /\ cand[c].status = "in_progress" /\ cand[c].run = run
              => \/ c \in batch \cup unconfirmed
                 \/ pc \in {"claimed", "frozen"} /\ c = cur
    /\ unconfirmed # {} => pc = "gates"
    /\ gated # {} => pc \in {"gates", "day_gates"}
    /\ unconfirmed \subseteq gated
    /\ \A c \in gated : drained[c] = 0

(* Planned for deletion, or being deleted.                                 *)
Planned(c) == c \in plan \/ (pc = "txn" /\ c = cur)

(* Rows only leave IngestDB in the deletion of their own connector-day, so *)
(* whatever a plan was made from is still there when its turn comes, and   *)
(* what was compared is still in ObsAqiDB.                                 *)
PlanHeld ==
    /\ plan # {} => pc \in {"delete", "txn"}
    /\ pc = "txn" => cur \notin plan /\ Rows(seen[cur]) \subseteq Rows(snap)
    /\ pc = "plan" => Head(agenda).mode = "late_direct"
    /\ \A c \in ConnectorDays :
         /\ c \in plan \/ pc \in {"compare", "repair", "recompare", "plan"}
              => Rows(seen[c]) \subseteq Rows(ingest[c])
         /\ Planned(c) /\ Head(agenda).mode # "late_direct"
              => Rows(seen[c]) \subseteq Rows(observs[c])

(* With Phase B always enabled the gate keeps a drained connector-day out  *)
(* of every plan, and so its marker out of the reach of an invalidation.   *)
MarkerKept ==
    PhaseBModes \subseteq {TRUE} =>
        /\ pc # "idle" => phaseB
        /\ \A c \in ConnectorDays : Planned(c) => drained[c] = 0
        /\ ConsumedRemembered

Bookkeeping == LegacyKept /\ ClaimsAccounted /\ PlanHeld /\ MarkerKept
=============================================================================
