------------------------- MODULE MCLatestSnapshot -------------------------
(***************************************************************************)
(* A small instance of LatestSnapshot for TLC.                             *)
(***************************************************************************)
EXTENDS LatestSnapshotInv, TLC

CONSTANTS s1, s2, m1, m2, m3, m4, pm25, no2

MCProductOf == s1 :> pm25 @@ s2 :> no2

Row(s, at, value) == [series |-> s, at |-> at, value |-> value]

(* An observation, a newer one with a value that is not shown, one of a    *)
(* series not yet in the core snapshot, and a message that does not decode.*)
MCObservation == m1 :> Row(s1, 1, 1) @@ m2 :> Row(s1, 2, 3)
              @@ m3 :> Row(s2, 2, 1) @@ m4 :> Malformed

MCCurrent == pm25 :> {1, 2} @@ no2 :> {1, 2}

(* A correction of the first, and a newer row.                             *)
MCCandidates == {Row(s1, 1, 2), Row(s1, 2, 1)}
=============================================================================
