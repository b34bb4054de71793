---------------------- MODULE PartitionMaintenanceInv ----------------------
(***************************************************************************)
(* The inductive invariant of PartitionMaintenance.                        *)
(***************************************************************************)
EXTENDS PartitionMaintenance

(* A manifest that validates vouches for its day, and goes on doing so     *)
(* when it is withdrawn.                                                   *)
ValidIsArchived == \A d \in Days : manifest[d] = "valid" => d \in archived

(* What a run is about to drop is archived, or holds only what its check   *)
(* did not see.                                                            *)
DropIsChecked ==
    \A r \in Runs : run[r].pc = "drop" =>
        run[r].day \in archived \/ rows[run[r].day] \subseteq unseen[run[r].day]

(* The candidates of a run lie before its cutoff.                          *)
CutoffParts ==
    \A r \in Runs :
        /\ \A d \in run[r].todo : d < run[r].cutoff
        /\ run[r].day # NoDay => run[r].day < run[r].cutoff

IInv ==
    /\ TypeOK
    /\ ValidIsArchived
    /\ DropIsChecked
    /\ CutoffParts
    /\ LossIsExplained

(* The cutoff of a run is past its retention, whatever the hour, and it    *)
(* sees to all days from its cutoff on to the last it creates.             *)
WindowsStand ==
    \A r \in Runs : run[r].pc # "idle" =>
        /\ run[r].cutoff <= today - Retention[r]
        /\ \A d \in Days : /\ d >= run[r].cutoff
                           /\ d <= run[r].cutoff + Retention[r] + Future
                           => d \in run[r].ensured

(* On top of IInv.                                                         *)
RetentionInv == WindowsStand /\ RetainedDaysHavePartitions
=============================================================================
