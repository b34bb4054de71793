--------------------------- MODULE MCOutboxFlush ---------------------------
(***************************************************************************)
(* Small instances of OutboxFlush for TLC.                                 *)
(***************************************************************************)
EXTENDS OutboxFlushInv, TLC

CONSTANTS e1, e2, e3, k1, k2, k3, day1, day2, r1, r2

MCOrder == e1 :> 1 @@ e2 :> 2 @@ e3 :> 3

MCReceipt == k1 :> day1 @@ k2 :> day1 @@ k3 :> day2

Rows(ks, v) == [n \in DOMAIN ks |-> [key |-> ks[n], value |-> v]]

Good(rows) == [wellFormed |-> TRUE, rows |-> rows]

(* Three rows, a correction of two, and an unreadable entry.               *)
MCPayload ==
    e1 :> Good(Rows(<<k1, k2, k3>>, 1)) @@ e2 :> Good(Rows(<<k1, k2>>, 2))
 @@ e3 :> [wellFormed |-> FALSE, rows |-> Rows(<<k1>>, 1)]
=============================================================================
