----------------------- MODULE MCPartitionMaintenance -----------------------
(* An instance of PartitionMaintenance for TLC: the service, which creates *)
(* two days more than it keeps, and a workflow run beside it.              *)
EXTENDS PartitionMaintenanceInv, TLC
CONSTANTS service, workflow, x1

MCRetention == service :> 1 @@ workflow :> 1
MCHot       == service :> 3 @@ workflow :> 1
MCDryRun    == service :> FALSE @@ workflow :> FALSE
=============================================================================
