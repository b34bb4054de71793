--------------------------- MODULE HistoryArchive ---------------------------
(***************************************************************************)
(* What the observation history promises to Prune Daily and to readers: a  *)
(* connector-day that was committed stays as it is.  Only a history repair *)
(* may change it, and only on a day it has withdrawn.                      *)
(***************************************************************************)
CONSTANTS Units, Days, DayOf, Contents, None

VARIABLES
    archive,        \* content committed for each connector-day
    withdrawn       \* days under repair

Init ==
    /\ archive \in [Units -> Contents \cup {None}]
    /\ withdrawn = {}

Commit ==
    /\ archive' \in [Units -> Contents \cup {None}]
    /\ \A u \in Units :
        archive[u] # None /\ DayOf[u] \notin withdrawn => archive'[u] = archive[u]
    /\ UNCHANGED withdrawn

Withdraw(d) ==
    /\ withdrawn' = withdrawn \cup {d}
    /\ archive' = [u \in Units |-> IF DayOf[u] = d THEN None ELSE archive[u]]

Restore(d) ==
    /\ withdrawn' = withdrawn \ {d}
    /\ UNCHANGED archive

Next == Commit \/ \E d \in Days : Withdraw(d) \/ Restore(d)

Spec == Init /\ [][Next]_<<archive, withdrawn>>
=============================================================================
