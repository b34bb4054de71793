---------------------------- MODULE MCPruneDaily ----------------------------
(***************************************************************************)
(* Small instances of PruneDaily for TLC.                                  *)
(***************************************************************************)
EXTENDS PruneDailyClaims, PruneDailyInv, TLC

CONSTANTS k1, k2, k3, c1, c2, c3, d1, d2

(* Two rows in one hour of the day.                                        *)
MCTime == k1 :> 5 @@ k2 :> 50

(* Two rows in one hour of the day, one in the next.                       *)
MCTimeTwoHours == k1 :> 5 @@ k2 :> 50 @@ k3 :> 65

(* A connector-day, beside one that nothing may delete.                    *)
BesideLegacy == c1 :> d1 @@ c2 :> d1

OneDay == c1 :> d1
TwoOneDays == c1 :> d1 @@ c2 :> d1 @@ c3 :> d2

OneOrder == c1 :> 1
TwoOrder == c1 :> 1 @@ c2 :> 2
ThreeOrder == c1 :> 1 @@ c2 :> 2 @@ c3 :> 3

(* The day is a normal window and comes up again as a late arrival.        *)
AgendaWindowLate == <<[day |-> d1, mode |-> "window"],
                      [day |-> d1, mode |-> "late_repair"]>>
AgendaMixed  == <<[day |-> d1, mode |-> "window"],
                  [day |-> d2, mode |-> "late_direct"]>>

InitialOne == c1 :> (k1 :> 1 @@ k2 :> NoRow)
InitialTwo == c1 :> (k1 :> 1 @@ k2 :> NoRow)
           @@ c2 :> (k1 :> 1 @@ k2 :> NoRow)
InitialMixed == c1 :> (k1 :> 1 @@ k2 :> NoRow @@ k3 :> 1)
             @@ c2 :> (k1 :> 1 @@ k2 :> NoRow @@ k3 :> NoRow)
             @@ c3 :> (k1 :> 1 @@ k2 :> NoRow @@ k3 :> NoRow)
=============================================================================
