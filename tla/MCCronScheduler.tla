-------------------------- MODULE MCCronScheduler --------------------------
(***************************************************************************)
(* Small instances of CronScheduler for TLC.                               *)
(***************************************************************************)
EXTENDS CronSchedulerInv, TLC

CONSTANTS j1, j2, i1, i2, i3

MCOrder == j1 :> 1 @@ j2 :> 2

OneOrder == j1 :> 1

Live(due)    == [enabled |-> TRUE, dry |-> FALSE, valid |-> TRUE, due |-> due]
DryRun(due)  == [enabled |-> TRUE, dry |-> TRUE, valid |-> TRUE, due |-> due]
Broken       == [enabled |-> TRUE, dry |-> FALSE, valid |-> FALSE, due |-> {}]
Disabled     == [enabled |-> FALSE, dry |-> FALSE, valid |-> TRUE,
                 due |-> Minutes]

(* Due every minute, due at minute 1 as a dry run, not readable.           *)
ThreeConfigs == {Live(Minutes), DryRun({1}), Broken}

(* Due every minute, as a dry run, not readable, or disabled.              *)
FourConfigs == {Live(Minutes), DryRun(Minutes), Broken, Disabled}

Interchangeable == Permutations(Invocations)
=============================================================================
