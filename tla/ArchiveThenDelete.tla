------------------------- MODULE ArchiveThenDelete -------------------------
(***************************************************************************)
(* What Prune Daily promises of every connector-day, with no runs, tables, *)
(* gates or buckets: rows are archived once, as one staged snapshot, and   *)
(* the rows of the archive leave the live table together, once, while each *)
(* still has its archived value.                                           *)
(***************************************************************************)
CONSTANTS ConnectorDays, Keys, Values, NoRow, NoContent, Initial, Legacy

VARIABLES
    live,       \* rows of IngestDB
    staged,     \* a snapshot taken for publication
    archive,    \* R2 history
    drained     \* connector-days deleted from the live table

vars == <<live, staged, archive, drained>>

Init ==
    /\ live = Initial
    /\ staged = [c \in ConnectorDays |-> NoContent]
    /\ archive = [c \in ConnectorDays |->
                    IF c \in Legacy THEN Initial[c] ELSE NoContent]
    /\ drained = {}

Write(c, k, v) ==
    /\ live' = [live EXCEPT ![c][k] = v]
    /\ UNCHANGED <<staged, archive, drained>>

Snapshot(c) ==
    /\ staged' = [staged EXCEPT ![c] = live[c]]
    /\ UNCHANGED <<live, archive, drained>>

Discard(S) ==
    /\ staged' = [c \in ConnectorDays |->
                    IF c \in S THEN NoContent ELSE staged[c]]
    /\ UNCHANGED <<live, archive, drained>>

(* Several connector-days become reachable at once, each for the first     *)
(* time.                                                                   *)
Archive(S) ==
    /\ \A c \in S : staged[c] # NoContent /\ archive[c] = NoContent
    /\ archive' = [c \in ConnectorDays |->
                     IF c \in S THEN staged[c] ELSE archive[c]]
    /\ UNCHANGED <<live, staged, drained>>

Archived(c) == {k \in Keys : archive[c][k] # NoRow}

Drain(c) ==
    /\ c \notin drained
    /\ archive[c] # NoContent
    /\ \A k \in Archived(c) : live[c][k] = archive[c][k]
    /\ live' = [live EXCEPT ![c] =
                  [k \in Keys |-> IF k \in Archived(c) THEN NoRow ELSE @[k]]]
    /\ drained' = drained \cup {c}
    /\ UNCHANGED <<staged, archive>>

Next ==
    \/ \E c \in ConnectorDays :
         \/ \E k \in Keys, v \in Values : Write(c, k, v)
         \/ Snapshot(c)
         \/ Drain(c)
    \/ \E S \in SUBSET ConnectorDays : Discard(S) \/ Archive(S)

Spec == Init /\ [][Next]_vars
=============================================================================
