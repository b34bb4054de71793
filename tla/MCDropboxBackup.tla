-------------------------- MODULE MCDropboxBackup --------------------------
(***************************************************************************)
(* A small instance of DropboxBackup for TLC.                              *)
(***************************************************************************)
EXTENDS DropboxBackupInv, TLC

(* Two days in the first month, one in the next, of another year.          *)
MCMonthOf == <<1, 1, 2>>
MCYearOf  == <<1, 2>>

(* The second version of a day names the files of the first.               *)
MCParquetOf == <<1, 1, 2>>

(* A whole run that reuses files, or a full one of one day.                *)
MCModes == {[reuse |-> TRUE, limit |-> 0], [reuse |-> FALSE, limit |-> 1]}
=============================================================================
