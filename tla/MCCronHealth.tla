---------------------------- MODULE MCCronHealth ----------------------------
(* An instance of CronHealth for TLC.                                      *)
EXTENDS CronHealth
=============================================================================
