--------------------------- MODULE OutboxFlushInv ---------------------------
(***************************************************************************)
(* The inductive invariant of OutboxFlush.                                 *)
(***************************************************************************)
EXTENDS OutboxFlush

Holding == {"upsert", "receipts", "resolve"}

(* A run holds a batch between claiming and resolving it.                  *)
BatchHeld == \A r \in Runs : run[r].batch # {} <=> run[r].pc \in Holding

Stored(row) == observs[row.key] # NoValue
Receipted(row) == Receipt[row.key] \in receipts
Waiting(me, row) == \E n \in DOMAIN me.todo : row \in me.todo[n].rows

(* Whatever the splits and retries, a row of the batch is stored or waits  *)
(* in a chunk; a batch to be resolved as delivered is stored and receipted.*)
BatchProgress ==
    \A r \in Runs : \A row \in Normalized(run[r].batch) :
        /\ run[r].pc = "upsert" => Stored(row) \/ Waiting(run[r], row)
        /\ run[r].pc = "receipts" => Stored(row)
        /\ run[r].pc = "resolve" /\ run[r].ok => Stored(row) /\ Receipted(row)

(* A run that has counted no failure has resolved what it took before.     *)
QuietSoFar ==
    \A r \in Runs : run[r].pc # "thrown" /\ run[r].failed = 0 =>
        /\ run[r].pc = "resolve" => run[r].ok
        /\ \A e \in run[r].took \ run[r].batch : status[e] = "resolved"

IInv ==
    /\ TypeOK
    /\ HeldExclusively
    /\ BatchHeld
    /\ \A r \in Runs : run[r].pc = "upsert" => run[r].todo # <<>>
    /\ BatchProgress
    /\ QuietSoFar
    /\ ResolvedIsDelivered
=============================================================================
