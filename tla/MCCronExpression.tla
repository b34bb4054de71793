-------------------------- MODULE MCCronExpression --------------------------
(***************************************************************************)
(* A small instance of CronExpression for TLC.                             *)
(***************************************************************************)
EXTENDS CronExpression

Written(values, readers) == [n : values, readers : {readers}]

MCDomNumbers == Written({1, 31, 32}, {Sync, Worker}) \cup Written({31}, {Sync})
MCDowNumbers == Written({0, 6, 7, 8}, {Sync, Worker}) \cup Written({7}, {Worker})
MCStepNumbers == Written({0, 7}, {Sync, Worker}) \cup Written({7}, {Worker})
=============================================================================
