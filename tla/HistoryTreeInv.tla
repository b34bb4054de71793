--------------------------- MODULE HistoryTreeInv ---------------------------
(***************************************************************************)
(* The inductive invariant of HistoryTree: what holds of a connector-day   *)
(* that can no longer be republished, and what the process that holds the  *)
(* lock has achieved at each of its steps.                                 *)
(***************************************************************************)
EXTENDS HistoryTree

InDay(u) == OfDay(day[DayOf[u]], u)
InMonth(u) == OfMonth(month[MonthFor(u)], u)
InYear(u) == OfYear(year[YearFor(u)], u)

(* The root and the manifest of a day that is not under repair agree on    *)
(* the connector-day.                                                      *)
Confirmed(u) == DayOf[u] \notin withdrawn /\ Vouched(u) # None /\ InDay(u) = Vouched(u)

(* Every level holds the content the root vouches for, even where the      *)
(* hashes of the levels disagree: rewriting one from the next loses        *)
(* nothing.                                                                *)
Chain(u) == InDay(u) = Vouched(u) /\ InMonth(u) = Vouched(u) /\ InYear(u) = Vouched(u)

KeptIsChained ==
    \A u \in Units : Confirmed(u) \/ acked[u] # None => Chain(u)

AckedIsVouched ==
    \A u \in Units : acked[u] # None => conn[u] = acked[u] /\ Vouched(u) = acked[u]

IndexedIsConfirmed ==
    \A u \in DOMAIN latest : DayOf[u] \notin withdrawn =>
        Confirmed(u) /\ latest[u] = Vouched(u) /\ scoped[u] = latest[u]

-----------------------------------------------------------------------------
At(steps) == run.pc \in steps

RunShape ==
    /\ run = [pc |-> run.pc, day |-> run.day, batch |-> run.batch, unit |-> run.unit]
    /\ At(PruneSteps \cup RepairSteps) => run.day \in Days
    /\ At({"month", "year", "root", "latest"} \cup RepairSteps) => ~ Empty(run.batch)

(* A batch holds what the root does not vouch for until its root is        *)
(* written, and what each level already published holds.                   *)
BatchPublished ==
    \A u \in DOMAIN run.batch :
        /\ At(PruneSteps) => conn[u] = run.batch[u] /\ scoped[u] = run.batch[u]
        /\ At(PruneSteps \ {"latest"}) => Vouched(u) = None
        /\ At({"month", "year", "root", "latest"}) => InDay(u) = run.batch[u]
        /\ At({"year", "root", "latest"}) => InMonth(u) = run.batch[u]
        /\ At({"root", "latest"}) => InYear(u) = run.batch[u]
        /\ At({"latest"}) => Vouched(u) = run.batch[u]

(* The candidate whose scoped index is not published yet.                  *)
UnitInHand ==
    At({"scope"}) =>
        /\ run.unit \in Units \ DOMAIN run.batch
        /\ DayOf[run.unit] = run.day
        /\ conn[run.unit] \in Contents
        /\ Vouched(run.unit) = None

(* The year a run has published pins its months as they are.               *)
YearAgrees ==
    At({"root"}) => \A m \in DOMAIN year[RunYear] : month[m] = year[RunYear][m]

(* The day under repair is down, the root listed it, and the backup holds  *)
(* every other day.                                                        *)
RepairShape ==
    At(RepairSteps) =>
        /\ run.day \in withdrawn
        /\ RunYear \in DOMAIN root
        /\ RunMonth \in DOMAIN root[RunYear]
        /\ run.day \in DOMAIN root[RunYear][RunMonth]
        /\ \A u \in Units : DayOf[u] = run.day => acked[u] = None
        /\ Backed

RepairedDay == {"repair_scopes", "repair_month", "repair_year", "repair_root", "repair_latest"}
RepairedScopes == RepairedDay \ {"repair_scopes"}

(* The order of a repair: connectors, day, scopes, month, year, root.      *)
RepairPublished ==
    /\ At(RepairSteps \ {"repair_connectors"}) =>
           \A u \in DOMAIN run.batch : conn[u] = run.batch[u]
    /\ At(RepairedDay) => day[run.day] = run.batch
    /\ At(RepairedScopes) =>
           /\ \A u \in DOMAIN run.batch : scoped[u] = run.batch[u]
           /\ \A u \in Units : Vouched(u) # None /\ DayOf[u] \notin withdrawn =>
                  scoped[u] = Vouched(u)
    /\ At({"repair_year", "repair_root"}) =>
           month[RunMonth] = [root[RunYear][RunMonth] EXCEPT ![run.day] = run.batch]
    /\ At({"repair_root"}) =>
           year[RunYear] = [root[RunYear] EXCEPT ![RunMonth] = month[RunMonth]]
    /\ At({"repair_latest"}) =>
           \A u \in Units : DayOf[u] = run.day => Chain(u)

(* A rebuild brings the days up, level by level.                           *)
RebuildPublished ==
    /\ At(RebuildSteps) => \E d \in Days : ~ Empty(day[d])
    /\ \A u \in Units : InDay(u) # None =>
           /\ At({"rebuild_years", "rebuild_root"}) => InMonth(u) = InDay(u)
           /\ At({"rebuild_root"}) => InYear(u) = InDay(u)

IInv ==
    /\ TypeOK
    /\ KeptIsChained /\ AckedIsVouched /\ IndexedIsConfirmed
    /\ RunShape /\ BatchPublished /\ UnitInHand /\ YearAgrees
    /\ RepairShape /\ RepairPublished /\ RebuildPublished
=============================================================================
