-------------------------- MODULE HistoryTreeProofs --------------------------
(***************************************************************************)
(* The safety of the observation history, for any calendar, any number of  *)
(* connector-days, runs, repairs, rebuilds and failures.                   *)
(***************************************************************************)
EXTENDS HistoryTreeInv, TLAPS

(***************************************************************************)
(* The operators on manifests.                                             *)
(***************************************************************************)

(* Where a connector-day hangs in the tree.                                *)
LEMMA Calendar ==
    ASSUME NEW u \in Units
    PROVE  /\ DayOf[u] \in Days
           /\ MonthFor(u) \in Months /\ MonthFor(u) = MonthOf[DayOf[u]]
           /\ YearFor(u) \in Years /\ YearFor(u) = YearOf[MonthFor(u)]
BY CalendarAssumption DEF MonthFor, YearFor

(* What a day holds is a content, if it holds anything.                    *)
LEMMA DayHolds ==
    ASSUME NEW f, IsDay(f), NEW u
    PROVE  /\ OfDay(f, u) \in Contents \cup {None}
           /\ OfDay(f, u) # None <=> u \in DOMAIN f
           /\ u \in DOMAIN f => OfDay(f, u) = f[u] /\ u \in Units
BY ContentsAssumption DEF IsDay, IsTree, OfDay

LEMMA OverIs ==
    ASSUME NEW f, NEW g
    PROVE  /\ DOMAIN Over(f, g) = DOMAIN f \cup DOMAIN g
           /\ \A x \in DOMAIN f : Over(f, g)[x] = f[x]
           /\ \A x \in DOMAIN g : x \notin DOMAIN f => Over(f, g)[x] = g[x]
BY DEF Over

LEMMA OnlyIs ==
    ASSUME NEW x, NEW c
    PROVE  DOMAIN Only(x, c) = {x} /\ Only(x, c)[x] = c
BY DEF Only

(* Day manifests written one over another.                                 *)
LEMMA OverDay ==
    ASSUME NEW f, NEW g, IsDay(f), IsDay(g)
    PROVE  /\ IsDay(Over(f, g))
           /\ \A u \in Units : OfDay(Over(f, g), u) =
                  IF u \in DOMAIN f THEN f[u] ELSE OfDay(g, u)
<1>1. /\ DOMAIN Over(f, g) = DOMAIN f \cup DOMAIN g
      /\ \A u \in DOMAIN f : Over(f, g)[u] = f[u]
      /\ \A u \in DOMAIN g : u \notin DOMAIN f => Over(f, g)[u] = g[u]
  BY OverIs
<1>2. /\ DOMAIN f \subseteq Units /\ \A u \in DOMAIN f : f[u] \in Contents
      /\ DOMAIN g \subseteq Units /\ \A u \in DOMAIN g : g[u] \in Contents
  BY DEF IsDay, IsTree
<1>3. IsDay(Over(f, g))
  BY <1>1, <1>2 DEF IsDay, IsTree
<1> QED BY <1>1, <1>3 DEF OfDay

LEMMA OnlyDay ==
    ASSUME NEW u \in Units, NEW c \in Contents
    PROVE  IsDay(Only(u, c))
<1>1. DOMAIN Only(u, c) = {u} /\ Only(u, c)[u] = c
  BY OnlyIs
<1> QED BY <1>1 DEF IsDay, IsTree

LEMMA NothingIsDay == IsDay(Nothing) /\ Empty(Nothing) /\ DOMAIN Nothing = {}
BY DEF IsDay, IsTree, Nothing, Empty

(* Contents written over those of all connector-days.                      *)
LEMMA OverUnits ==
    ASSUME NEW f, IsDay(f), NEW g \in [Units -> Contents \cup {None}]
    PROVE  /\ Over(f, g) \in [Units -> Contents \cup {None}]
           /\ \A u \in DOMAIN f : Over(f, g)[u] = f[u]
           /\ \A u \in Units \ DOMAIN f : Over(f, g)[u] = g[u]
BY DEF Over, IsDay, IsTree

-----------------------------------------------------------------------------
(***************************************************************************)
(* The aggregates an operator's rebuild derives from the days.             *)
(***************************************************************************)
LEMMA MonthsOfDays ==
    ASSUME NEW days, DOMAIN days = Days, \A d \in Days : IsDay(days[d])
    PROVE  /\ DOMAIN MonthsOf(days) = Months
           /\ \A m \in Months :
                 /\ IsMonth(MonthsOf(days)[m])
                 /\ DOMAIN MonthsOf(days)[m] =
                        {d \in Days : MonthOf[d] = m /\ ~ Empty(days[d])}
                 /\ \A d \in DOMAIN MonthsOf(days)[m] : MonthsOf(days)[m][d] = days[d]
<1>1. DOMAIN MonthsOf(days) = Months
  BY DEF MonthsOf, Grouped
<1>2. DOMAIN NonEmpty(days) = {d \in Days : ~ Empty(days[d])}
  BY DEF NonEmpty
<1>3. \A d \in DOMAIN NonEmpty(days) : NonEmpty(days)[d] = days[d]
  BY DEF NonEmpty
<1>4. ASSUME NEW m \in Months
      PROVE  /\ DOMAIN MonthsOf(days)[m] =
                    {d \in Days : MonthOf[d] = m /\ ~ Empty(days[d])}
             /\ \A d \in DOMAIN MonthsOf(days)[m] : MonthsOf(days)[m][d] = days[d]
  BY <1>2, <1>3 DEF MonthsOf, Grouped
<1>5. ASSUME NEW m \in Months
      PROVE  IsMonth(MonthsOf(days)[m])
  BY <1>4 DEF IsMonth, IsTree
<1> QED BY <1>1, <1>4, <1>5

LEMMA YearsOfMonths ==
    ASSUME NEW months, DOMAIN months = Months, \A m \in Months : IsMonth(months[m])
    PROVE  /\ DOMAIN YearsOf(months) = Years
           /\ \A y \in Years :
                 /\ IsYear(YearsOf(months)[y])
                 /\ DOMAIN YearsOf(months)[y] =
                        {m \in Months : YearOf[m] = y /\ ~ Empty(months[m])}
                 /\ \A m \in DOMAIN YearsOf(months)[y] :
                        YearsOf(months)[y][m] = months[m]
<1>1. DOMAIN YearsOf(months) = Years
  BY DEF YearsOf, Grouped
<1>2. DOMAIN NonEmpty(months) = {m \in Months : ~ Empty(months[m])}
  BY DEF NonEmpty
<1>3. \A m \in DOMAIN NonEmpty(months) : NonEmpty(months)[m] = months[m]
  BY DEF NonEmpty
<1>4. ASSUME NEW y \in Years
      PROVE  /\ DOMAIN YearsOf(months)[y] =
                    {m \in Months : YearOf[m] = y /\ ~ Empty(months[m])}
             /\ \A m \in DOMAIN YearsOf(months)[y] :
                    YearsOf(months)[y][m] = months[m]
  BY <1>2, <1>3 DEF YearsOf, Grouped
<1>5. ASSUME NEW y \in Years
      PROVE  IsYear(YearsOf(months)[y])
  BY <1>4 DEF IsYear, IsTree
<1> QED BY <1>1, <1>4, <1>5

LEMMA NonEmptyIs ==
    ASSUME NEW f
    PROVE  /\ DOMAIN NonEmpty(f) = {x \in DOMAIN f : ~ Empty(f[x])}
           /\ \A x \in DOMAIN NonEmpty(f) : NonEmpty(f)[x] = f[x]
BY DEF NonEmpty

(* A derived tree holds what its days hold, no more and no less.           *)
LEMMA RebuiltHolds ==
    ASSUME NEW days, DOMAIN days = Days, \A d \in Days : IsDay(days[d]),
           NEW u \in Units
    PROVE  LET held == OfDay(days[DayOf[u]], u)
               months == MonthsOf(days)
               years == YearsOf(months)
           IN /\ OfMonth(months[MonthFor(u)], u) = held
              /\ OfYear(years[YearFor(u)], u) = held
              /\ OfRoot(NonEmpty(years), u) = held
              /\ held # None => ~ Empty(months[MonthFor(u)]) /\ ~ Empty(years[YearFor(u)])
<1> DEFINE d == DayOf[u]
           m == MonthFor(u)
           y == YearFor(u)
           months == MonthsOf(days)
           years == YearsOf(months)
<1>0. d \in Days /\ m \in Months /\ m = MonthOf[d] /\ y \in Years /\ y = YearOf[m]
  BY Calendar
<1>1. /\ DOMAIN months = Months
      /\ \A n \in Months : IsMonth(months[n])
      /\ DOMAIN months[m] = {c \in Days : MonthOf[c] = m /\ ~ Empty(days[c])}
      /\ \A c \in DOMAIN months[m] : months[m][c] = days[c]
  BY <1>0, MonthsOfDays
<1>2. /\ DOMAIN years = Years
      /\ DOMAIN years[y] = {n \in Months : YearOf[n] = y /\ ~ Empty(months[n])}
      /\ \A n \in DOMAIN years[y] : years[y][n] = months[n]
  BY <1>0, <1>1, YearsOfMonths
<1>3. Empty(days[d]) => OfDay(days[d], u) = None
  BY DEF Empty, OfDay
<1>4. OfMonth(months[m], u) = OfDay(days[d], u)
  BY <1>0, <1>1, <1>3 DEF OfMonth
<1>5. Empty(months[m]) => OfMonth(months[m], u) = None
  BY DEF Empty, OfMonth
<1>6. OfYear(years[y], u) = OfDay(days[d], u)
  BY <1>0, <1>2, <1>4, <1>5 DEF OfYear
<1>7. Empty(years[y]) => OfYear(years[y], u) = None
  BY DEF Empty, OfYear
<1>8. OfRoot(NonEmpty(years), u) = OfDay(days[d], u)
  BY <1>0, <1>2, <1>6, <1>7, NonEmptyIs DEF OfRoot
<1>9. OfDay(days[d], u) # None => ~ Empty(months[m]) /\ ~ Empty(years[y])
  BY <1>4, <1>5, <1>6, <1>7
<1> QED BY <1>4, <1>6, <1>8, <1>9

-----------------------------------------------------------------------------
(***************************************************************************)
(* Types.                                                                  *)
(***************************************************************************)
TreeTyped ==
    /\ DOMAIN day = Days /\ \A d \in Days : IsDay(day[d])
    /\ DOMAIN month = Months /\ \A m \in Months : IsMonth(month[m])
    /\ DOMAIN year = Years /\ \A y \in Years : IsYear(year[y])
    /\ ~ Empty(root) /\ IsTree(root, Years, LAMBDA y : ~ Empty(y) /\ IsYear(y))

RestTyped ==
    /\ conn \in [Units -> Contents \cup {None}]
    /\ scoped \in [Units -> Contents \cup {None}]
    /\ ~ Empty(latest) /\ IsDay(latest)
    /\ acked \in [Units -> Contents \cup {None}]
    /\ withdrawn \in SUBSET Days

RunTyped ==
    /\ run.pc \in {"idle"} \cup PruneSteps \cup RepairSteps \cup RebuildSteps
    /\ IsDay(run.batch) /\ \A u \in DOMAIN run.batch : DayOf[u] = run.day

LEMMA TypeParts == TypeOK <=> TreeTyped /\ RestTyped /\ RunTyped
BY DEF TypeOK, TreeTyped, RestTyped, RunTyped

LEMMA TypeInit == Init => TypeOK
<1> SUFFICES ASSUME Init PROVE TypeOK
  OBVIOUS
<1> DEFINE days == Grouped(Committed, Days, DayOf)
<1>1. /\ DOMAIN Committed \subseteq Units /\ DOMAIN Committed # {}
      /\ \A u \in DOMAIN Committed : Committed[u] \in Contents
  BY CommittedAssumption
<1>2. IsDay(Committed) /\ ~ Empty(Committed)
  BY <1>1 DEF IsDay, IsTree, Empty
<1>3. \A u \in Units : OfDay(Committed, u) \in Contents \cup {None}
  BY <1>2, DayHolds
<1>4. RestTyped
  BY <1>2, <1>3 DEF Init, RestTyped
<1>5. RunTyped
  BY NothingIsDay DEF Init, Idle, RunTyped
<1>6. /\ DOMAIN days = Days
      /\ \A d \in Days :
            /\ DOMAIN days[d] = {u \in DOMAIN Committed : DayOf[u] = d}
            /\ \A u \in DOMAIN days[d] : days[d][u] = Committed[u]
  BY DEF Grouped
<1>7. \A d \in Days : IsDay(days[d])
  BY <1>1, <1>6 DEF IsDay, IsTree
<1>8. PICK u \in Units : u \in DOMAIN Committed
  BY <1>1
<1>9. DayOf[u] \in Days /\ YearFor(u) \in Years
  BY Calendar
<1>10. OfDay(days[DayOf[u]], u) # None
  BY <1>6, <1>8, <1>9, <1>1, ContentsAssumption DEF OfDay
<1>11. ~ Empty(YearsOf(MonthsOf(days))[YearFor(u)])
  BY <1>6, <1>7, <1>10, RebuiltHolds
<1>12. /\ DOMAIN MonthsOf(days) = Months
       /\ \A m \in Months : IsMonth(MonthsOf(days)[m])
  BY <1>6, <1>7, MonthsOfDays
<1>13. /\ DOMAIN YearsOf(MonthsOf(days)) = Years
       /\ \A y \in Years : IsYear(YearsOf(MonthsOf(days))[y])
  BY <1>12, YearsOfMonths
<1>14. ~ Empty(NonEmpty(YearsOf(MonthsOf(days))))
  BY <1>9, <1>11, <1>13, NonEmptyIs DEF Empty
<1>15. IsTree(NonEmpty(YearsOf(MonthsOf(days))), Years, LAMBDA y : ~ Empty(y) /\ IsYear(y))
  BY <1>13, NonEmptyIs DEF IsTree
<1>16. TreeTyped
  BY <1>6, <1>7, <1>12, <1>13, <1>14, <1>15 DEF Init, TreeTyped
<1> QED BY <1>4, <1>5, <1>16, TypeParts

-----------------------------------------------------------------------------
(***************************************************************************)
(* The inductive invariant, in two halves: what holds of the tree, and     *)
(* what the process with the lock has achieved.                            *)
(***************************************************************************)
TreeInv == TreeTyped /\ RestTyped /\ KeptIsChained /\ AckedIsVouched /\ IndexedIsConfirmed

RunInv ==
    /\ RunTyped /\ RunShape /\ BatchPublished /\ UnitInHand /\ YearAgrees
    /\ RepairShape /\ RepairPublished /\ RebuildPublished

LEMMA Halves == IInv <=> TreeInv /\ RunInv
BY TypeParts DEF IInv, TreeInv, RunInv

LEMMA HalvesAfter == TreeInv' /\ RunInv' => IInv'
BY DEF IInv, TreeInv, RunInv, TypeOK, TreeTyped, RestTyped, RunTyped

(* A step that leaves the aggregates alone.                                *)
LEMMA SameAggregates ==
    ASSUME aggregates' = aggregates, NEW u
    PROVE  /\ InDay(u)' = InDay(u) /\ InMonth(u)' = InMonth(u)
           /\ InYear(u)' = InYear(u) /\ Vouched(u)' = Vouched(u)
BY DEF aggregates, InDay, InMonth, InYear, Vouched

(* A step of the process that leaves R2 alone.                             *)
LEMMA SameTree ==
    ASSUME TreeInv, UNCHANGED <<leaves, aggregates, latest, history>>
    PROVE  TreeInv'
<1>1. /\ conn' = conn /\ scoped' = scoped /\ latest' = latest
      /\ day' = day /\ month' = month /\ year' = year /\ root' = root
      /\ acked' = acked /\ withdrawn' = withdrawn
  BY DEF leaves, aggregates, history
<1>2. TreeTyped'
  BY <1>1 DEF TreeInv, TreeTyped, IsTree
<1>3. RestTyped'
  BY <1>1 DEF TreeInv, RestTyped
<1>4. KeptIsChained' /\ AckedIsVouched' /\ IndexedIsConfirmed'
  BY <1>1 DEF TreeInv, KeptIsChained, AckedIsVouched, IndexedIsConfirmed,
              Confirmed, Chain, InDay, InMonth, InYear, Vouched
<1> QED BY <1>2, <1>3, <1>4 DEF TreeInv

LEMMA IdleHolds ==
    ASSUME run' = Idle
    PROVE  RunInv'
<1>1. run'.pc = "idle" /\ DOMAIN run'.batch = {}
  BY NothingIsDay DEF Idle
<1>2. RunTyped'
  BY <1>1, NothingIsDay DEF RunTyped, Idle
<1>3. RunShape'
  BY <1>1 DEF RunShape, At, Idle, PruneSteps, RepairSteps
<1>4. BatchPublished' /\ UnitInHand' /\ YearAgrees'
  BY <1>1 DEF BatchPublished, UnitInHand, YearAgrees, At
<1>5. RepairShape' /\ RepairPublished' /\ RebuildPublished'
  BY <1>1 DEF RepairShape, RepairPublished, RebuildPublished, At, RepairSteps,
              RepairedDay, RepairedScopes, RebuildSteps
<1> QED BY <1>2, <1>3, <1>4, <1>5 DEF RunInv

LEMMA InitHolds == Init => IInv
<1> SUFFICES ASSUME Init PROVE IInv
  OBVIOUS
<1> DEFINE days == Grouped(Committed, Days, DayOf)
<1>1. TypeOK
  BY TypeInit
<1>2. RunInv
  <2>1. run.pc = "idle" /\ DOMAIN run.batch = {}
    BY NothingIsDay DEF Init, Idle
  <2>2. RunTyped
    BY <1>1, TypeParts
  <2>3. RunShape
    BY <2>1 DEF Init, RunShape, At, Idle, PruneSteps, RepairSteps
  <2>4. BatchPublished /\ UnitInHand /\ YearAgrees
    BY <2>1 DEF BatchPublished, UnitInHand, YearAgrees, At
  <2>5. RepairShape /\ RepairPublished /\ RebuildPublished
    BY <2>1 DEF RepairShape, RepairPublished, RebuildPublished, At, RepairSteps,
                RepairedDay, RepairedScopes, RebuildSteps
  <2> QED BY <2>2, <2>3, <2>4, <2>5 DEF RunInv
<1>3. DOMAIN days = Days /\ \A d \in Days : IsDay(days[d])
  BY <1>1 DEF Init, TypeOK
<1>4. ASSUME NEW u \in Units
      PROVE  InDay(u) = conn[u] /\ Vouched(u) = conn[u] /\ Chain(u)
  <2>1. OfDay(days[DayOf[u]], u) = OfDay(Committed, u)
    BY Calendar DEF Grouped, OfDay
  <2>2. conn[u] = OfDay(Committed, u)
    BY DEF Init
  <2>3. InDay(u) = conn[u]
    BY <2>1, <2>2 DEF Init, InDay
  <2>4. Vouched(u) = conn[u]
    BY <1>3, <2>1, <2>2, RebuiltHolds DEF Init, Vouched
  <2>5. InMonth(u) = conn[u] /\ InYear(u) = conn[u]
    BY <1>3, <2>1, <2>2, RebuiltHolds DEF Init, InMonth, InYear
  <2> QED BY <2>3, <2>4, <2>5 DEF Chain
<1>5. KeptIsChained /\ AckedIsVouched
  BY <1>4 DEF Init, KeptIsChained, AckedIsVouched
<1>6. ASSUME NEW u \in DOMAIN latest
      PROVE  Confirmed(u) /\ latest[u] = Vouched(u) /\ scoped[u] = latest[u]
  <2>1. u \in Units /\ latest[u] # None /\ latest[u] = conn[u]
    BY CommittedAssumption, ContentsAssumption DEF Init, OfDay
  <2> QED BY <1>4, <2>1 DEF Init, Confirmed
<1>7. TreeInv
  BY <1>1, <1>5, <1>6, TypeParts DEF TreeInv, IndexedIsConfirmed
<1> QED BY <1>2, <1>7, Halves

-----------------------------------------------------------------------------
(***************************************************************************)
(* Steps that leave R2 alone.                                              *)
(***************************************************************************)
LEMMA StartBatchHolds ==
    ASSUME IInv, NEW d \in Days, StartBatch(d)
    PROVE  IInv'
<1>1. TreeInv'
  BY SameTree, Halves DEF StartBatch
<1>2. /\ run' = [Idle EXCEPT !.pc = "publish", !.day = d]
      /\ run'.pc = "publish" /\ run'.day = d
      /\ run'.batch = Nothing /\ run'.unit = None /\ DOMAIN run'.batch = {}
  BY NothingIsDay DEF StartBatch, Idle
<1>3. RunTyped'
  BY <1>2, NothingIsDay DEF RunTyped, PruneSteps
<1>4. RunShape'
  BY <1>2 DEF RunShape, At, Idle, RepairSteps
<1>5. BatchPublished' /\ UnitInHand' /\ YearAgrees'
  BY <1>2 DEF BatchPublished, UnitInHand, YearAgrees, At
<1>6. RepairShape' /\ RepairPublished' /\ RebuildPublished'
  BY <1>2 DEF RepairShape, RepairPublished, RebuildPublished, At, RepairSteps,
              RepairedDay, RepairedScopes, RebuildSteps
<1> QED BY <1>1, <1>3, <1>4, <1>5, <1>6, HalvesAfter DEF RunInv

LEMMA CandidateFailsHolds ==
    ASSUME IInv, CandidateFails
    PROVE  IInv'
<1>0. TreeInv /\ RunInv
  BY Halves
<1>1. TreeInv'
  BY <1>0, SameTree DEF CandidateFails
<1>2. /\ run.pc = "scope"
      /\ run' = [run EXCEPT !.pc = "publish", !.unit = None]
      /\ aggregates' = aggregates /\ conn' = conn /\ scoped' = scoped
  BY DEF CandidateFails, leaves
<1>3. /\ run'.pc = "publish" /\ run'.day = run.day /\ run'.batch = run.batch
      /\ run' = [pc |-> run'.pc, day |-> run'.day, batch |-> run'.batch, unit |-> run'.unit]
  BY <1>0, <1>2 DEF RunInv, RunShape
<1>4. RunTyped'
  BY <1>0, <1>3 DEF RunInv, RunTyped, PruneSteps
<1>5. RunShape'
  BY <1>0, <1>2, <1>3 DEF RunInv, RunShape, At, PruneSteps, RepairSteps
<1>6. BatchPublished'
  BY <1>0, <1>2, <1>3, SameAggregates DEF RunInv, BatchPublished, At, PruneSteps
<1>7. UnitInHand' /\ YearAgrees'
  BY <1>3 DEF UnitInHand, YearAgrees, At
<1>8. RepairShape' /\ RepairPublished' /\ RebuildPublished'
  BY <1>3 DEF RepairShape, RepairPublished, RebuildPublished, At, RepairSteps,
              RepairedDay, RepairedScopes, RebuildSteps
<1> QED BY <1>1, <1>4, <1>5, <1>6, <1>7, <1>8, HalvesAfter DEF RunInv

LEMMA RunEnds ==
    ASSUME IInv, FinalizationThrows \/ NothingPublished \/ Abandon
    PROVE  IInv'
<1>1. TreeInv' /\ run' = Idle
  BY SameTree, Halves DEF FinalizationThrows, NothingPublished, Abandon
<1> QED BY <1>1, IdleHolds, HalvesAfter

LEMMA StartRebuildHolds ==
    ASSUME IInv, StartRebuild
    PROVE  IInv'
<1>0. TreeInv /\ RunInv
  BY Halves
<1>1. TreeInv'
  BY <1>0, SameTree DEF StartRebuild
<1>2. /\ run.pc = "idle"
      /\ run' = [run EXCEPT !.pc = "rebuild_months"]
      /\ day' = day /\ \E d \in Days : ~ Empty(day[d])
  BY DEF StartRebuild, Goes, aggregates
<1>3. /\ run'.pc = "rebuild_months" /\ run'.day = run.day /\ run'.batch = run.batch
      /\ run' = [pc |-> run'.pc, day |-> run'.day, batch |-> run'.batch, unit |-> run'.unit]
  BY <1>0, <1>2 DEF RunInv, RunShape
<1>4. RunTyped'
  BY <1>0, <1>3 DEF RunInv, RunTyped, RebuildSteps
<1>5. RunShape'
  BY <1>3 DEF RunShape, At, PruneSteps, RepairSteps
<1>6. BatchPublished' /\ UnitInHand' /\ YearAgrees'
  BY <1>3 DEF BatchPublished, UnitInHand, YearAgrees, At, PruneSteps
<1>7. RepairShape' /\ RepairPublished' /\ RebuildPublished'
  BY <1>2, <1>3 DEF RepairShape, RepairPublished, RebuildPublished, At, RepairSteps,
                    RepairedDay, RepairedScopes, RebuildSteps
<1> QED BY <1>1, <1>4, <1>5, <1>6, <1>7, HalvesAfter DEF RunInv

-----------------------------------------------------------------------------
(***************************************************************************)
(* Prune Daily.                                                            *)
(***************************************************************************)

(* A walk that ends at a missing reference proves that the root vouches    *)
(* for nothing there.                                                      *)
LEMMA AbsentIsUnvouched ==
    ASSUME NEW u \in Units, Absent(u)
    PROVE  Vouched(u) = None
<1> DEFINE y == YearFor(u)
           m == MonthFor(u)
           d == DayOf[u]
<1>1. PICK n \in 1..4 : Path(u)[n] = "absent" /\ \A k \in 1..(n - 1) : Path(u)[k] = "held"
  BY DEF Absent
<1>2. /\ Path(u)[1] = Reference(root, y, year[y])
      /\ Path(u)[2] = Reference(year[y], m, month[m])
      /\ Path(u)[3] = Reference(month[m], d, day[d])
      /\ Path(u)[4] = Reference(day[d], u, conn[u])
  BY DEF Path
<1>3. /\ Path(u)[1] = "absent" => y \notin DOMAIN root
      /\ Path(u)[1] = "held" => root[y] = year[y]
      /\ Path(u)[2] = "absent" => m \notin DOMAIN year[y]
      /\ Path(u)[2] = "held" => year[y][m] = month[m]
      /\ Path(u)[3] = "absent" => d \notin DOMAIN month[m]
      /\ Path(u)[3] = "held" => month[m][d] = day[d]
      /\ Path(u)[4] = "absent" => u \notin DOMAIN day[d]
  BY <1>2 DEF Reference
<1>4. CASE n = 1
  BY <1>1, <1>3, <1>4 DEF Vouched, OfRoot
<1>5. CASE n = 2
  BY <1>1, <1>3, <1>5 DEF Vouched, OfRoot, OfYear
<1>6. CASE n = 3
  BY <1>1, <1>3, <1>6 DEF Vouched, OfRoot, OfYear, OfMonth
<1>7. CASE n = 4
  BY <1>1, <1>3, <1>7 DEF Vouched, OfRoot, OfYear, OfMonth, OfDay
<1> QED BY <1>4, <1>5, <1>6, <1>7

LEMMA PublishConnectorHolds ==
    ASSUME IInv, NEW u \in Units, NEW c \in Contents, PublishConnector(u, c)
    PROVE  IInv'
<1>0. TreeInv /\ RunInv
  BY Halves
<1>1. /\ run.pc = "publish" /\ DayOf[u] = run.day /\ u \notin DOMAIN run.batch
      /\ Absent(u)
      /\ conn' = [conn EXCEPT ![u] = c] /\ scoped' = scoped
      /\ aggregates' = aggregates /\ latest' = latest
      /\ acked' = acked /\ withdrawn' = withdrawn
      /\ day' = day /\ month' = month /\ year' = year /\ root' = root
      /\ run' = [run EXCEPT !.pc = "scope", !.unit = u]
  BY DEF PublishConnector, Admissible, aggregates, history
<1>2. Vouched(u) = None
  BY <1>1, AbsentIsUnvouched
<1>3. acked[u] = None
  BY <1>0, <1>2 DEF TreeInv, AckedIsVouched
<1>4. conn' \in [Units -> Contents \cup {None}] /\ conn'[u] = c
  BY <1>0, <1>1 DEF TreeInv, RestTyped
<1>5. TreeTyped' /\ RestTyped'
  BY <1>0, <1>1, <1>4 DEF TreeInv, TreeTyped, IsTree, RestTyped
<1>6. AckedIsVouched'
  BY <1>0, <1>1, <1>3, SameAggregates DEF TreeInv, AckedIsVouched, RestTyped
<1>7. KeptIsChained' /\ IndexedIsConfirmed'
  BY <1>0, <1>1, SameAggregates
     DEF TreeInv, KeptIsChained, IndexedIsConfirmed, Confirmed, Chain
<1>8. TreeInv'
  BY <1>5, <1>6, <1>7 DEF TreeInv
<1>9. /\ run'.pc = "scope" /\ run'.day = run.day /\ run'.batch = run.batch
      /\ run'.unit = u
      /\ run' = [pc |-> run'.pc, day |-> run'.day, batch |-> run'.batch, unit |-> run'.unit]
  BY <1>0, <1>1 DEF RunInv, RunShape
<1>10. RunTyped'
  BY <1>0, <1>9 DEF RunInv, RunTyped, PruneSteps
<1>11. RunShape'
  BY <1>0, <1>1, <1>9 DEF RunInv, RunShape, At, PruneSteps, RepairSteps
<1>12. BatchPublished'
  <2>1. \A x \in DOMAIN run.batch : conn'[x] = conn[x]
    BY <1>0, <1>1 DEF RunInv, RunTyped, IsDay, IsTree, TreeInv, RestTyped
  <2> QED BY <2>1, <1>0, <1>1, <1>9, SameAggregates
          DEF RunInv, BatchPublished, At, PruneSteps
<1>13. UnitInHand' /\ YearAgrees'
  BY <1>1, <1>2, <1>4, <1>9, SameAggregates DEF UnitInHand, YearAgrees, At
<1>14. RepairShape' /\ RepairPublished' /\ RebuildPublished'
  BY <1>9 DEF RepairShape, RepairPublished, RebuildPublished, At, RepairSteps,
              RepairedDay, RepairedScopes, RebuildSteps
<1> QED BY <1>8, <1>10, <1>11, <1>12, <1>13, <1>14, HalvesAfter DEF RunInv

LEMMA PublishScopeHolds ==
    ASSUME IInv, PublishScope
    PROVE  IInv'
<1> DEFINE u == run.unit
<1>0. TreeInv /\ RunInv
  BY Halves
<1>1. /\ run.pc = "scope"
      /\ scoped' = [scoped EXCEPT ![u] = conn[u]] /\ conn' = conn
      /\ aggregates' = aggregates /\ latest' = latest
      /\ acked' = acked /\ withdrawn' = withdrawn
      /\ day' = day /\ month' = month /\ year' = year /\ root' = root
      /\ run' = [run EXCEPT !.pc = "publish", !.unit = None,
                            !.batch = Over(Only(u, conn[u]), @)]
  BY DEF PublishScope, aggregates, history
<1>2. /\ u \in Units /\ u \notin DOMAIN run.batch /\ DayOf[u] = run.day
      /\ conn[u] \in Contents /\ Vouched(u) = None
  BY <1>0, <1>1 DEF RunInv, UnitInHand, At
<1>3. /\ scoped' \in [Units -> Contents \cup {None}] /\ scoped'[u] = conn[u]
      /\ \A x \in Units : x # u => scoped'[x] = scoped[x]
  BY <1>0, <1>1, <1>2 DEF TreeInv, RestTyped
<1>4. TreeTyped' /\ RestTyped'
  BY <1>0, <1>1, <1>3 DEF TreeInv, TreeTyped, IsTree, RestTyped
<1>5. AckedIsVouched' /\ KeptIsChained'
  BY <1>0, <1>1, SameAggregates
     DEF TreeInv, AckedIsVouched, KeptIsChained, Confirmed, Chain
<1>6. IndexedIsConfirmed'
  <2> SUFFICES ASSUME NEW x \in DOMAIN latest, DayOf[x] \notin withdrawn
               PROVE  (Confirmed(x) /\ latest[x] = Vouched(x) /\ scoped[x] = latest[x])'
    BY <1>1 DEF IndexedIsConfirmed
  <2>1. Confirmed(x) /\ latest[x] = Vouched(x) /\ scoped[x] = latest[x] /\ x \in Units
    BY <1>0 DEF TreeInv, IndexedIsConfirmed, RestTyped, IsDay, IsTree
  <2>2. x # u
    BY <1>2, <2>1 DEF Confirmed
  <2> QED BY <1>1, <1>3, <2>1, <2>2, SameAggregates DEF Confirmed
<1>7. TreeInv'
  BY <1>4, <1>5, <1>6 DEF TreeInv
<1>8. /\ run'.pc = "publish" /\ run'.day = run.day
      /\ run'.batch = Over(Only(u, conn[u]), run.batch)
      /\ run' = [pc |-> run'.pc, day |-> run'.day, batch |-> run'.batch, unit |-> run'.unit]
  BY <1>0, <1>1 DEF RunInv, RunShape
<1>9. /\ DOMAIN run'.batch = {u} \cup DOMAIN run.batch
      /\ run'.batch[u] = conn[u]
      /\ \A x \in DOMAIN run.batch : run'.batch[x] = run.batch[x]
  BY <1>2, <1>8 DEF Over, Only
<1>10. RunTyped'
  <2>1. IsDay(run'.batch)
    BY <1>0, <1>2, <1>8, OnlyDay, OverDay DEF RunInv, RunTyped
  <2> QED BY <1>0, <1>2, <1>8, <1>9, <2>1 DEF RunInv, RunTyped, PruneSteps
<1>11. RunShape'
  BY <1>0, <1>1, <1>8 DEF RunInv, RunShape, At, PruneSteps, RepairSteps
<1>12. BatchPublished'
  <2> SUFFICES ASSUME NEW x \in DOMAIN run'.batch
               PROVE  conn'[x] = run'.batch[x] /\ scoped'[x] = run'.batch[x] /\ Vouched(x)' = None
    BY <1>8 DEF BatchPublished, At
  <2>1. CASE x = u
    BY <1>1, <1>2, <1>3, <1>9, <2>1, SameAggregates
  <2>2. CASE x # u
    <3>1. x \in DOMAIN run.batch /\ x \in Units
      BY <1>0, <1>9, <2>2 DEF RunInv, RunTyped, IsDay, IsTree
    <3>2. conn[x] = run.batch[x] /\ scoped[x] = run.batch[x] /\ Vouched(x) = None
      BY <1>0, <1>1, <3>1 DEF RunInv, BatchPublished, At, PruneSteps
    <3> QED BY <1>1, <1>3, <1>9, <2>2, <3>1, <3>2, SameAggregates
  <2> QED BY <2>1, <2>2
<1>13. UnitInHand' /\ YearAgrees'
  BY <1>8 DEF UnitInHand, YearAgrees, At
<1>14. RepairShape' /\ RepairPublished' /\ RebuildPublished'
  BY <1>8 DEF RepairShape, RepairPublished, RebuildPublished, At, RepairSteps,
              RepairedDay, RepairedScopes, RebuildSteps
<1> QED BY <1>7, <1>10, <1>11, <1>12, <1>13, <1>14, HalvesAfter DEF RunInv

(* What is committed stays so.                                             *)
CommittedStays ==
    /\ withdrawn' = withdrawn
    /\ \A u \in Units :
          Confirmed(u) => Vouched(u)' = Vouched(u) /\ InDay(u)' = Vouched(u)

(* A step that rewrites aggregates keeps the tree if it keeps the chains   *)
(* of what is kept, and what it confirms is chained.                       *)
LEMMA TreeStep ==
    ASSUME TreeInv, TreeTyped', UNCHANGED <<leaves, latest, history>>,
           \A u \in Units : Confirmed(u) \/ acked[u] # None =>
               Vouched(u)' = Vouched(u) /\ Chain(u)',
           \A u \in Units : Confirmed(u)' => Chain(u)'
    PROVE  TreeInv' /\ CommittedStays
<1>1. /\ conn' = conn /\ scoped' = scoped /\ latest' = latest
      /\ acked' = acked /\ withdrawn' = withdrawn
  BY DEF leaves, history
<1>2. RestTyped'
  BY <1>1 DEF TreeInv, RestTyped
<1>3. KeptIsChained'
  BY <1>1 DEF KeptIsChained
<1>4. AckedIsVouched'
  BY <1>1 DEF TreeInv, AckedIsVouched
<1>5. IndexedIsConfirmed'
  <2> SUFFICES ASSUME NEW u \in DOMAIN latest, DayOf[u] \notin withdrawn
               PROVE  (Confirmed(u) /\ latest[u] = Vouched(u) /\ scoped[u] = latest[u])'
    BY <1>1 DEF IndexedIsConfirmed
  <2>1. /\ u \in Units
        /\ Confirmed(u) /\ latest[u] = Vouched(u) /\ scoped[u] = latest[u]
    BY DEF TreeInv, IndexedIsConfirmed, RestTyped, IsDay, IsTree
  <2>2. Vouched(u)' = Vouched(u) /\ Chain(u)'
    BY <2>1
  <2> QED BY <1>1, <2>1, <2>2 DEF Confirmed, Chain
<1>6. CommittedStays
  BY <1>1 DEF CommittedStays, Chain
<1> QED BY <1>2, <1>3, <1>4, <1>5, <1>6 DEF TreeInv

LEMMA GoesOn ==
    ASSUME RunInv, NEW pc, Goes(pc),
           pc \in {"idle"} \cup PruneSteps \cup RepairSteps \cup RebuildSteps
    PROVE  /\ run'.pc = pc /\ run'.day = run.day /\ run'.batch = run.batch
           /\ run' = [pc |-> run'.pc, day |-> run'.day, batch |-> run'.batch,
                      unit |-> run'.unit]
           /\ RunTyped'
BY DEF RunInv, RunShape, RunTyped, Goes

LEMMA PublishDayHolds ==
    ASSUME IInv, PublishDay
    PROVE  IInv' /\ CommittedStays
<1>0. TreeInv /\ RunInv
  BY Halves
<1>1. /\ run.pc = "publish" /\ ~ Empty(run.batch)
      /\ day' = [day EXCEPT ![run.day] = Over(run.batch, @)]
      /\ Goes("month")
      /\ UNCHANGED <<leaves, latest, history>>
      /\ conn' = conn /\ scoped' = scoped
      /\ month' = month /\ year' = year /\ root' = root
      /\ acked' = acked /\ withdrawn' = withdrawn
  BY DEF PublishDay, leaves, history
<1>2. run.day \in Days
  BY <1>0, <1>1 DEF RunInv, RunShape, At, PruneSteps
<1>3. /\ DOMAIN day = Days /\ IsDay(day[run.day]) /\ IsDay(run.batch)
      /\ \A u \in DOMAIN run.batch : u \in Units /\ DayOf[u] = run.day
  BY <1>0, <1>2 DEF TreeInv, TreeTyped, RunInv, RunTyped, IsDay, IsTree
<1>4. TreeTyped'
  <2>1. IsDay(Over(run.batch, day[run.day]))
    BY <1>3, OverDay
  <2> QED BY <1>0, <1>1, <1>2, <2>1 DEF TreeInv, TreeTyped, IsTree
<1>5. ASSUME NEW u \in Units
      PROVE  /\ InDay(u)' = IF u \in DOMAIN run.batch THEN run.batch[u] ELSE InDay(u)
             /\ InMonth(u)' = InMonth(u) /\ InYear(u)' = InYear(u)
             /\ Vouched(u)' = Vouched(u)
  <2>1. InDay(u)' = IF u \in DOMAIN run.batch THEN run.batch[u] ELSE InDay(u)
    <3>1. CASE DayOf[u] = run.day
      BY <1>1, <1>2, <1>3, <3>1, OverDay DEF InDay
    <3>2. CASE DayOf[u] # run.day
      BY <1>1, <1>3, <3>2, Calendar DEF InDay
    <3> QED BY <3>1, <3>2
  <2> QED BY <1>1, <2>1 DEF InMonth, InYear, Vouched
<1>6. \A u \in DOMAIN run.batch :
          conn[u] = run.batch[u] /\ scoped[u] = run.batch[u] /\ Vouched(u) = None
  BY <1>0, <1>1 DEF RunInv, BatchPublished, At, PruneSteps
<1>7. ASSUME NEW u \in Units, Confirmed(u) \/ acked[u] # None
      PROVE  Vouched(u)' = Vouched(u) /\ Chain(u)'
  <2>1. Chain(u) /\ Vouched(u) # None
    BY <1>0, <1>7 DEF TreeInv, KeptIsChained, AckedIsVouched, Confirmed
  <2>2. u \notin DOMAIN run.batch
    BY <1>6, <2>1
  <2> QED BY <1>5, <2>1, <2>2 DEF Chain
<1>8. ASSUME NEW u \in Units, Confirmed(u)'
      PROVE  Chain(u)'
  <2>1. Vouched(u) # None /\ u \notin DOMAIN run.batch
    BY <1>5, <1>6, <1>8 DEF Confirmed
  <2>2. Confirmed(u)
    BY <1>1, <1>5, <1>8, <2>1 DEF Confirmed
  <2> QED BY <1>7, <2>2
<1>9. TreeInv' /\ CommittedStays
  BY <1>0, <1>1, <1>4, <1>7, <1>8, TreeStep
<1>10. /\ run'.pc = "month" /\ run'.day = run.day /\ run'.batch = run.batch
       /\ run' = [pc |-> run'.pc, day |-> run'.day, batch |-> run'.batch, unit |-> run'.unit]
       /\ RunTyped'
  BY <1>0, <1>1, GoesOn DEF PruneSteps
<1>11. RunShape'
  BY <1>1, <1>2, <1>10 DEF RunShape, At, RepairSteps
<1>12. BatchPublished'
  BY <1>1, <1>3, <1>5, <1>6, <1>10 DEF BatchPublished, At
<1>13. UnitInHand' /\ YearAgrees'
  BY <1>10 DEF UnitInHand, YearAgrees, At
<1>14. RepairShape' /\ RepairPublished' /\ RebuildPublished'
  BY <1>10 DEF RepairShape, RepairPublished, RebuildPublished, At, RepairSteps,
               RepairedDay, RepairedScopes, RebuildSteps
<1> QED BY <1>9, <1>10, <1>11, <1>12, <1>13, <1>14, HalvesAfter DEF RunInv

LEMMA PublishMonthHolds ==
    ASSUME IInv, NEW listed \in SUBSET Days, PublishMonth(listed)
    PROVE  IInv' /\ CommittedStays
<1> DEFINE m == RunMonth
           days == {d \in Required(m) \cup listed : ~ Empty(day[d])}
<1>0. TreeInv /\ RunInv
  BY Halves
<1>1. /\ run.pc = "month" /\ RequiredPresent(m)
      /\ month' = [month EXCEPT ![m] = [d \in days |-> day[d]]]
      /\ Goes("year")
      /\ UNCHANGED <<leaves, latest, history>>
      /\ conn' = conn /\ scoped' = scoped
      /\ day' = day /\ year' = year /\ root' = root
      /\ acked' = acked /\ withdrawn' = withdrawn
  BY DEF PublishMonth, RunMonth, leaves, history
<1>2. run.day \in Days /\ m \in Months /\ ~ Empty(run.batch)
  BY <1>0, <1>1, CalendarAssumption DEF RunInv, RunShape, At, PruneSteps, RunMonth
<1>3. /\ DOMAIN month = Months /\ DOMAIN day = Days
      /\ DOMAIN month[m] \subseteq Days
      /\ \A d \in Days : IsDay(day[d])
      /\ \A u \in DOMAIN run.batch : u \in Units /\ DayOf[u] = run.day
  BY <1>0, <1>2 DEF TreeInv, TreeTyped, RunInv, RunTyped, IsMonth, IsDay, IsTree
<1>4. /\ days \subseteq Days
      /\ \A d \in DOMAIN month[m] \cup {run.day} : d \in days
  BY <1>1, <1>2, <1>3 DEF Required, RequiredPresent
<1>5. TreeTyped'
  <2>1. IsMonth([d \in days |-> day[d]])
    BY <1>3, <1>4 DEF IsMonth, IsTree
  <2> QED BY <1>0, <1>1, <1>2, <2>1 DEF TreeInv, TreeTyped, IsTree
<1>6. ASSUME NEW u \in Units
      PROVE  /\ InDay(u)' = InDay(u) /\ InYear(u)' = InYear(u)
             /\ Vouched(u)' = Vouched(u)
             /\ MonthFor(u) # m => InMonth(u)' = InMonth(u)
             /\ MonthFor(u) = m /\ DayOf[u] \in days => InMonth(u)' = InDay(u)
             /\ MonthFor(u) = m /\ DayOf[u] \notin days => InMonth(u)' = None
  <2>1. InDay(u)' = InDay(u) /\ InYear(u)' = InYear(u) /\ Vouched(u)' = Vouched(u)
    BY <1>1 DEF InDay, InYear, Vouched
  <2>2. CASE MonthFor(u) # m
    BY <1>1, <1>3, <2>1, <2>2, Calendar DEF InMonth
  <2>3. CASE MonthFor(u) = m
    <3>1. month'[m] = [d \in days |-> day[d]]
      BY <1>1, <1>2, <1>3
    <3>2. InMonth(u)' = OfMonth([d \in days |-> day[d]], u)
      BY <2>3, <3>1 DEF InMonth
    <3> QED BY <2>1, <2>3, <3>2 DEF OfMonth, InDay
  <2> QED BY <2>2, <2>3
<1>7. ASSUME NEW u \in Units, Confirmed(u) \/ acked[u] # None
      PROVE  Vouched(u)' = Vouched(u) /\ Chain(u)'
  <2>1. Chain(u) /\ Vouched(u) # None
    BY <1>0, <1>7 DEF TreeInv, KeptIsChained, AckedIsVouched, Confirmed
  <2>2. MonthFor(u) = m => DayOf[u] \in days
    BY <1>4, <2>1 DEF Chain, InMonth, OfMonth
  <2> QED BY <1>6, <2>1, <2>2 DEF Chain
<1>8. ASSUME NEW u \in Units, Confirmed(u)'
      PROVE  Chain(u)'
  BY <1>1, <1>6, <1>7, <1>8 DEF Confirmed
<1>9. TreeInv' /\ CommittedStays
  BY <1>0, <1>1, <1>5, <1>7, <1>8, TreeStep
<1>10. /\ run'.pc = "year" /\ run'.day = run.day /\ run'.batch = run.batch
       /\ run' = [pc |-> run'.pc, day |-> run'.day, batch |-> run'.batch, unit |-> run'.unit]
       /\ RunTyped'
  BY <1>0, <1>1, GoesOn DEF PruneSteps
<1>11. RunShape'
  BY <1>2, <1>10 DEF RunShape, At, RepairSteps
<1>12. BatchPublished'
  <2> SUFFICES ASSUME NEW u \in DOMAIN run.batch
               PROVE  /\ conn[u] = run.batch[u] /\ scoped[u] = run.batch[u]
                      /\ Vouched(u)' = None
                      /\ InDay(u)' = run.batch[u] /\ InMonth(u)' = run.batch[u]
    BY <1>1, <1>10 DEF BatchPublished, At
  <2>1. /\ conn[u] = run.batch[u] /\ scoped[u] = run.batch[u]
        /\ Vouched(u) = None /\ InDay(u) = run.batch[u]
    BY <1>0, <1>1 DEF RunInv, BatchPublished, At, PruneSteps
  <2>2. MonthFor(u) = m /\ DayOf[u] \in days
    BY <1>3, <1>4 DEF MonthFor, RunMonth
  <2> QED BY <1>3, <1>6, <2>1, <2>2
<1>13. UnitInHand' /\ YearAgrees'
  BY <1>10 DEF UnitInHand, YearAgrees, At
<1>14. RepairShape' /\ RepairPublished' /\ RebuildPublished'
  BY <1>10 DEF RepairShape, RepairPublished, RebuildPublished, At, RepairSteps,
               RepairedDay, RepairedScopes, RebuildSteps
<1> QED BY <1>9, <1>10, <1>11, <1>12, <1>13, <1>14, HalvesAfter DEF RunInv

LEMMA PublishYearHolds ==
    ASSUME IInv, PublishYear
    PROVE  IInv' /\ CommittedStays
<1> DEFINE m == RunMonth
           y == RunYear
<1>0. TreeInv /\ RunInv
  BY Halves
<1>1. /\ run.pc = "year" /\ SiblingMonthsAgree
      /\ year' = [year EXCEPT ![y] = Over(Only(m, month[m]), @)]
      /\ Goes("root")
      /\ UNCHANGED <<leaves, latest, history>>
      /\ conn' = conn /\ scoped' = scoped
      /\ day' = day /\ month' = month /\ root' = root
      /\ acked' = acked /\ withdrawn' = withdrawn
  BY DEF PublishYear, leaves, history
<1>2. run.day \in Days /\ m \in Months /\ y \in Years /\ ~ Empty(run.batch)
  BY <1>0, <1>1, CalendarAssumption
     DEF RunInv, RunShape, At, PruneSteps, RunMonth, RunYear
<1>3. /\ DOMAIN month = Months /\ DOMAIN year = Years
      /\ IsMonth(month[m]) /\ IsYear(year[y])
      /\ IsDay(run.batch)
      /\ \A u \in DOMAIN run.batch :
            u \in Units /\ DayOf[u] = run.day /\ run.batch[u] \in Contents
  BY <1>0, <1>2 DEF TreeInv, TreeTyped, RunInv, RunTyped, IsDay, IsTree
<1>4. \A u \in DOMAIN run.batch : MonthFor(u) = m /\ YearFor(u) = y
  BY <1>3 DEF MonthFor, YearFor, RunMonth, RunYear
<1>5. \A u \in DOMAIN run.batch :
          /\ conn[u] = run.batch[u] /\ scoped[u] = run.batch[u]
          /\ Vouched(u) = None
          /\ InDay(u) = run.batch[u] /\ InMonth(u) = run.batch[u]
  BY <1>0, <1>1 DEF RunInv, BatchPublished, At, PruneSteps
<1>6. ~ Empty(month[m])
  <2>1. PICK u \in DOMAIN run.batch : TRUE
    BY <1>2 DEF Empty
  <2>2. OfMonth(month[m], u) = run.batch[u] /\ run.batch[u] # None
    BY <1>3, <1>4, <1>5, ContentsAssumption DEF InMonth
  <2> QED BY <2>2 DEF OfMonth, Empty
<1>7. /\ year'[y] = Over(Only(m, month[m]), year[y])
      /\ \A x \in Years : x # y => year'[x] = year[x]
      /\ DOMAIN year' = Years
      /\ DOMAIN year'[y] = {m} \cup DOMAIN year[y]
      /\ year'[y][m] = month[m]
      /\ \A n \in DOMAIN year[y] : n # m => year'[y][n] = year[y][n]
  BY <1>1, <1>2, <1>3 DEF Over, Only
<1>8. IsYear(year'[y])
  BY <1>2, <1>3, <1>6, <1>7 DEF IsYear, IsTree
<1>9. TreeTyped'
  BY <1>0, <1>1, <1>7, <1>8 DEF TreeInv, TreeTyped, IsTree
<1>10. ASSUME NEW u \in Units
       PROVE  /\ InDay(u)' = InDay(u) /\ InMonth(u)' = InMonth(u)
              /\ Vouched(u)' = Vouched(u)
              /\ InYear(u)' = IF MonthFor(u) = m THEN InMonth(u) ELSE InYear(u)
  <2>1. InDay(u)' = InDay(u) /\ InMonth(u)' = InMonth(u) /\ Vouched(u)' = Vouched(u)
    BY <1>1 DEF InDay, InMonth, Vouched
  <2>2. CASE MonthFor(u) = m
    BY <1>7, <2>1, <2>2 DEF InYear, OfYear, InMonth, YearFor, RunYear
  <2>3. CASE MonthFor(u) # m
    BY <1>7, <2>1, <2>3, Calendar DEF InYear, OfYear
  <2> QED BY <2>1, <2>2, <2>3
<1>11. ASSUME NEW u \in Units, Confirmed(u) \/ acked[u] # None
       PROVE  Vouched(u)' = Vouched(u) /\ Chain(u)'
  <2>1. Chain(u)
    BY <1>0, <1>11 DEF TreeInv, KeptIsChained
  <2> QED BY <1>10, <2>1 DEF Chain
<1>12. ASSUME NEW u \in Units, Confirmed(u)'
       PROVE  Chain(u)'
  BY <1>1, <1>10, <1>11, <1>12 DEF Confirmed
<1>13. TreeInv' /\ CommittedStays
  BY <1>0, <1>1, <1>9, <1>11, <1>12, TreeStep
<1>14. /\ run'.pc = "root" /\ run'.day = run.day /\ run'.batch = run.batch
       /\ run' = [pc |-> run'.pc, day |-> run'.day, batch |-> run'.batch, unit |-> run'.unit]
       /\ RunTyped'
  BY <1>0, <1>1, GoesOn DEF PruneSteps
<1>15. RunShape'
  BY <1>2, <1>14 DEF RunShape, At, RepairSteps
<1>16. BatchPublished'
  BY <1>1, <1>3, <1>4, <1>5, <1>10, <1>14 DEF BatchPublished, At
<1>17. YearAgrees'
  <2>1. \A n \in DOMAIN year'[y] : month'[n] = year'[y][n]
    BY <1>1, <1>7 DEF SiblingMonthsAgree
  <2>2. RunYear' = y
    BY <1>14 DEF RunYear, RunMonth
  <2> QED BY <2>1, <2>2 DEF YearAgrees
<1>18. UnitInHand'
  BY <1>14 DEF UnitInHand, At
<1>19. RepairShape' /\ RepairPublished' /\ RebuildPublished'
  BY <1>14 DEF RepairShape, RepairPublished, RebuildPublished, At, RepairSteps,
               RepairedDay, RepairedScopes, RebuildSteps
<1> QED BY <1>13, <1>14, <1>15, <1>16, <1>17, <1>18, <1>19, HalvesAfter DEF RunInv

LEMMA PublishRootHolds ==
    ASSUME IInv, PublishRoot
    PROVE  IInv' /\ CommittedStays
<1> DEFINE y == RunYear
<1>0. TreeInv /\ RunInv
  BY Halves
<1>1. /\ run.pc = "root"
      /\ root' = Over(Only(y, year[y]), root)
      /\ Goes("latest")
      /\ UNCHANGED <<leaves, latest, history>>
      /\ conn' = conn /\ scoped' = scoped
      /\ day' = day /\ month' = month /\ year' = year
      /\ acked' = acked /\ withdrawn' = withdrawn
  BY DEF PublishRoot, leaves, history
<1>2. run.day \in Days /\ y \in Years /\ ~ Empty(run.batch)
  BY <1>0, <1>1, CalendarAssumption
     DEF RunInv, RunShape, At, PruneSteps, RunMonth, RunYear
<1>3. /\ IsYear(year[y])
      /\ DOMAIN root \subseteq Years
      /\ \A x \in DOMAIN root : ~ Empty(root[x]) /\ IsYear(root[x])
      /\ \A u \in DOMAIN run.batch :
            u \in Units /\ DayOf[u] = run.day /\ run.batch[u] \in Contents
  BY <1>0, <1>2 DEF TreeInv, TreeTyped, RunInv, RunTyped, IsDay, IsTree
<1>4. \A u \in DOMAIN run.batch : YearFor(u) = y
  BY <1>3 DEF MonthFor, YearFor, RunMonth, RunYear
<1>5. \A u \in DOMAIN run.batch :
          /\ conn[u] = run.batch[u] /\ scoped[u] = run.batch[u]
          /\ Vouched(u) = None
          /\ InDay(u) = run.batch[u] /\ InMonth(u) = run.batch[u]
          /\ InYear(u) = run.batch[u]
  BY <1>0, <1>1 DEF RunInv, BatchPublished, At, PruneSteps
<1>6. ~ Empty(year[y])
  <2>1. PICK u \in DOMAIN run.batch : TRUE
    BY <1>2 DEF Empty
  <2>2. OfYear(year[y], u) = run.batch[u] /\ run.batch[u] # None
    BY <1>3, <1>4, <1>5, ContentsAssumption DEF InYear
  <2> QED BY <2>2 DEF OfYear, Empty
<1>7. /\ DOMAIN root' = {y} \cup DOMAIN root
      /\ root'[y] = year[y]
      /\ \A x \in DOMAIN root : x # y => root'[x] = root[x]
  BY <1>1 DEF Over, Only
<1>8. TreeTyped'
  <2>1. ~ Empty(root')
    BY <1>7 DEF Empty
  <2>2. DOMAIN root' \subseteq Years /\ \A x \in DOMAIN root' : ~ Empty(root'[x]) /\ IsYear(root'[x])
    BY <1>2, <1>3, <1>6, <1>7
  <2> QED BY <1>0, <1>1, <2>1, <2>2 DEF TreeInv, TreeTyped, IsTree
<1>9. ASSUME NEW u \in Units
      PROVE  /\ InDay(u)' = InDay(u) /\ InMonth(u)' = InMonth(u)
             /\ InYear(u)' = InYear(u)
             /\ Vouched(u)' = IF YearFor(u) = y THEN InYear(u) ELSE Vouched(u)
  <2>1. InDay(u)' = InDay(u) /\ InMonth(u)' = InMonth(u) /\ InYear(u)' = InYear(u)
    BY <1>1 DEF InDay, InMonth, InYear
  <2>2. Vouched(u)' = IF YearFor(u) = y THEN InYear(u) ELSE Vouched(u)
    BY <1>7 DEF Vouched, OfRoot, InYear
  <2> QED BY <2>1, <2>2
<1>10. ASSUME NEW u \in Units, Confirmed(u) \/ acked[u] # None
       PROVE  Vouched(u)' = Vouched(u) /\ Chain(u)'
  <2>1. Chain(u)
    BY <1>0, <1>10 DEF TreeInv, KeptIsChained
  <2> QED BY <1>9, <2>1 DEF Chain
<1>11. ASSUME NEW u \in Units, Confirmed(u)'
       PROVE  Chain(u)'
  <2>1. CASE YearFor(u) = y
    <3>1. InDay(u) = InYear(u) /\ InYear(u) # None /\ Vouched(u)' = InYear(u)
      BY <1>9, <1>11, <2>1 DEF Confirmed
    <3>2. MonthFor(u) \in DOMAIN year[y]
      BY <2>1, <3>1 DEF InYear, OfYear
    <3>3. month[MonthFor(u)] = year[y][MonthFor(u)]
      BY <1>0, <1>1, <3>2 DEF RunInv, YearAgrees, At
    <3>4. InMonth(u) = InYear(u)
      BY <2>1, <3>2, <3>3 DEF InMonth, InYear, OfYear
    <3> QED BY <1>9, <3>1, <3>4 DEF Chain
  <2>2. CASE YearFor(u) # y
    <3>1. Confirmed(u)
      BY <1>1, <1>9, <1>11, <2>2 DEF Confirmed
    <3> QED BY <1>10, <3>1
  <2> QED BY <2>1, <2>2
<1>12. TreeInv' /\ CommittedStays
  BY <1>0, <1>1, <1>8, <1>10, <1>11, TreeStep
<1>13. /\ run'.pc = "latest" /\ run'.day = run.day /\ run'.batch = run.batch
       /\ run' = [pc |-> run'.pc, day |-> run'.day, batch |-> run'.batch, unit |-> run'.unit]
       /\ RunTyped'
  BY <1>0, <1>1, GoesOn DEF PruneSteps
<1>14. RunShape'
  BY <1>2, <1>13 DEF RunShape, At, RepairSteps
<1>15. BatchPublished'
  BY <1>1, <1>3, <1>4, <1>5, <1>9, <1>13 DEF BatchPublished, At, PruneSteps
<1>16. UnitInHand' /\ YearAgrees'
  BY <1>13 DEF UnitInHand, YearAgrees, At
<1>17. RepairShape' /\ RepairPublished' /\ RebuildPublished'
  BY <1>13 DEF RepairShape, RepairPublished, RebuildPublished, At, RepairSteps,
               RepairedDay, RepairedScopes, RebuildSteps
<1> QED BY <1>12, <1>13, <1>14, <1>15, <1>16, <1>17, HalvesAfter DEF RunInv

LEMMA PublishLatestHolds ==
    ASSUME IInv, PublishLatest
    PROVE  IInv'
<1> DEFINE rescued == [u \in Stale |-> scoped[u]]
<1>0. TreeInv /\ RunInv
  BY Halves
<1>1. /\ run.pc = "latest" /\ Recoverable
      /\ latest' = Over(run.batch, Over(rescued, latest))
      /\ acked' = Over(run.batch, acked)
      /\ run' = Idle
      /\ aggregates' = aggregates /\ withdrawn' = withdrawn
      /\ conn' = conn /\ scoped' = scoped
      /\ day' = day /\ month' = month /\ year' = year /\ root' = root
  BY DEF PublishLatest, leaves, aggregates
<1>2. /\ IsDay(run.batch) /\ IsDay(latest) /\ ~ Empty(latest)
      /\ acked \in [Units -> Contents \cup {None}]
      /\ scoped \in [Units -> Contents \cup {None}]
  BY <1>0 DEF TreeInv, RestTyped, RunInv, RunTyped
<1>3. /\ Stale \subseteq DOMAIN latest /\ DOMAIN latest \subseteq Units
      /\ \A u \in Stale : u \notin DOMAIN run.batch /\ scoped[u] \in Contents
      /\ DOMAIN rescued = Stale /\ \A u \in Stale : rescued[u] = scoped[u]
  <2>1. DOMAIN latest \subseteq Units
    BY <1>2 DEF IsDay, IsTree
  <2> QED BY <1>1, <1>2, <2>1 DEF Stale, Recoverable
<1>4. IsDay(rescued)
  BY <1>3 DEF IsDay, IsTree
<1> HIDE DEF rescued
<1>5. /\ IsDay(latest')
      /\ DOMAIN latest' = DOMAIN run.batch \cup DOMAIN latest
      /\ \A u \in DOMAIN run.batch : latest'[u] = run.batch[u]
      /\ \A u \in DOMAIN latest \ DOMAIN run.batch :
            latest'[u] = scoped[u] \/ (u \notin Stale /\ latest'[u] = latest[u])
  <2>1. IsDay(Over(rescued, latest))
    BY <1>2, <1>4, OverDay
  <2>2. IsDay(latest')
    BY <1>1, <1>2, <2>1, OverDay
  <2>3. /\ DOMAIN Over(rescued, latest) = DOMAIN latest
        /\ \A u \in Stale : Over(rescued, latest)[u] = scoped[u]
        /\ \A u \in DOMAIN latest \ Stale : Over(rescued, latest)[u] = latest[u]
    BY <1>3 DEF Over
  <2>4. /\ DOMAIN latest' = DOMAIN run.batch \cup DOMAIN latest
        /\ \A u \in DOMAIN run.batch : latest'[u] = run.batch[u]
        /\ \A u \in DOMAIN latest \ DOMAIN run.batch : latest'[u] = Over(rescued, latest)[u]
    BY <1>1, <2>3 DEF Over
  <2>5. ASSUME NEW u \in DOMAIN latest \ DOMAIN run.batch
        PROVE  latest'[u] = scoped[u] \/ (u \notin Stale /\ latest'[u] = latest[u])
    <3>1. latest'[u] = Over(rescued, latest)[u]
      BY <2>4
    <3>2. CASE u \in Stale
      BY <2>3, <3>1, <3>2
    <3>3. CASE u \notin Stale
      BY <2>3, <3>1, <3>3
    <3> QED BY <3>2, <3>3
  <2> QED BY <2>2, <2>4, <2>5
<1>6. /\ acked' \in [Units -> Contents \cup {None}]
      /\ \A u \in DOMAIN run.batch : acked'[u] = run.batch[u]
      /\ \A u \in Units \ DOMAIN run.batch : acked'[u] = acked[u]
  BY <1>1, <1>2, OverUnits
<1>7. ~ Empty(latest')
  BY <1>2, <1>5 DEF Empty
<1>8. TreeTyped' /\ RestTyped'
  BY <1>0, <1>1, <1>5, <1>6, <1>7 DEF TreeInv, TreeTyped, IsTree, RestTyped
<1>9. ASSUME NEW u \in DOMAIN run.batch
      PROVE  /\ u \in Units /\ run.batch[u] # None
             /\ conn[u] = run.batch[u] /\ scoped[u] = run.batch[u]
             /\ Vouched(u) = run.batch[u] /\ Chain(u)
  <2>1. u \in Units /\ run.batch[u] # None
    BY <1>2, ContentsAssumption DEF IsDay, IsTree
  <2> QED BY <1>0, <1>1, <2>1 DEF RunInv, BatchPublished, At, PruneSteps, Chain
<1>10. \A u \in Units :
          (Chain(u)' <=> Chain(u)) /\ (Confirmed(u)' <=> Confirmed(u)) /\ Vouched(u)' = Vouched(u)
  BY <1>1, SameAggregates DEF Chain, Confirmed
<1>11. KeptIsChained'
  BY <1>0, <1>6, <1>9, <1>10 DEF TreeInv, KeptIsChained
<1>12. AckedIsVouched'
  BY <1>0, <1>1, <1>6, <1>9, <1>10 DEF TreeInv, AckedIsVouched
<1>13. IndexedIsConfirmed'
  <2> SUFFICES ASSUME NEW u \in DOMAIN latest', DayOf[u] \notin withdrawn
               PROVE  Confirmed(u) /\ latest'[u] = Vouched(u) /\ scoped[u] = latest'[u]
    BY <1>1, <1>3, <1>5, <1>9, <1>10 DEF IndexedIsConfirmed
  <2>1. CASE u \in DOMAIN run.batch
    BY <1>5, <1>9, <2>1 DEF Confirmed, Chain
  <2>2. CASE u \notin DOMAIN run.batch
    <3>1. u \in DOMAIN latest
      BY <1>5, <2>2
    <3>2. Confirmed(u) /\ latest[u] = Vouched(u) /\ scoped[u] = latest[u]
      BY <1>0, <3>1 DEF TreeInv, IndexedIsConfirmed
    <3> QED BY <1>5, <2>2, <3>1, <3>2
  <2> QED BY <2>1, <2>2
<1> QED BY <1>1, <1>8, <1>11, <1>12, <1>13, IdleHolds, HalvesAfter DEF TreeInv

-----------------------------------------------------------------------------
(***************************************************************************)
(* The repair of a day.                                                    *)
(***************************************************************************)
LEMMA BackedMeans ==
    Backed <=> \A u \in Units : Vouched(u) # None /\ DayOf[u] \notin withdrawn =>
                    InDay(u) = Vouched(u)
BY DEF Backed, Catalogue, InDay

LEMMA BackedMeansAfter ==
    Backed' <=> \A u \in Units : (Vouched(u) # None /\ DayOf[u] \notin withdrawn =>
                    InDay(u) = Vouched(u))'
BY DEF Backed, Catalogue, InDay

(* What the root lists of a connector-day it vouches for.                  *)
LEMMA VouchedIsListed ==
    ASSUME NEW u \in Units, Vouched(u) # None
    PROVE  /\ YearFor(u) \in DOMAIN root
           /\ MonthFor(u) \in DOMAIN root[YearFor(u)]
           /\ DayOf[u] \in DOMAIN root[YearFor(u)][MonthFor(u)]
BY DEF Vouched, OfRoot, OfYear, OfMonth

LEMMA StartRepairHolds ==
    ASSUME IInv, NEW d \in Days, NEW contents \in [DOMAIN Baseline(d) -> Contents],
           StartRepair(d, contents)
    PROVE  IInv'
<1>0. TreeInv /\ RunInv
  BY Halves
<1>1. /\ Backed /\ ~ Empty(contents)
      /\ conn' = [u \in Units |-> IF DayOf[u] = d THEN None ELSE conn[u]]
      /\ day' = [day EXCEPT ![d] = Nothing]
      /\ acked' = [u \in Units |-> IF DayOf[u] = d THEN None ELSE acked[u]]
      /\ withdrawn' = withdrawn \cup {d}
      /\ run' = [Idle EXCEPT !.pc = "repair_connectors", !.day = d, !.batch = contents]
      /\ scoped' = scoped /\ month' = month /\ year' = year /\ root' = root
      /\ latest' = latest
  BY DEF StartRepair
<1>2. /\ DOMAIN contents \subseteq Units
      /\ \A u \in DOMAIN contents :
            DayOf[u] = d /\ Vouched(u) # None /\ contents[u] \in Contents
  BY DEF Baseline, Catalogue
<1>3. IsDay(contents)
  BY <1>2 DEF IsDay, IsTree
<1>4. TreeTyped' /\ RestTyped'
  BY <1>0, <1>1, NothingIsDay DEF TreeInv, TreeTyped, IsTree, RestTyped
<1>5. ASSUME NEW u \in Units
      PROVE  /\ InMonth(u)' = InMonth(u) /\ InYear(u)' = InYear(u)
             /\ Vouched(u)' = Vouched(u)
             /\ DayOf[u] # d => InDay(u)' = InDay(u)
  <2>1. DOMAIN day = Days /\ DayOf[u] \in Days
    BY <1>0, Calendar DEF TreeInv, TreeTyped
  <2> QED BY <1>1, <2>1 DEF InDay, InMonth, InYear, Vouched
<1>6. KeptIsChained'
  <2> SUFFICES ASSUME NEW u \in Units, Confirmed(u)' \/ acked'[u] # None
               PROVE  Chain(u)'
    BY DEF KeptIsChained
  <2>1. DayOf[u] # d /\ (Confirmed(u) \/ acked[u] # None)
    BY <1>1, <1>5 DEF Confirmed
  <2>2. Chain(u)
    BY <1>0, <2>1 DEF TreeInv, KeptIsChained
  <2> QED BY <1>5, <2>1, <2>2 DEF Chain
<1>7. AckedIsVouched'
  BY <1>0, <1>1, <1>5 DEF TreeInv, AckedIsVouched
<1>8. IndexedIsConfirmed'
  <2> SUFFICES ASSUME NEW u \in DOMAIN latest, DayOf[u] \notin withdrawn'
               PROVE  (Confirmed(u) /\ latest[u] = Vouched(u) /\ scoped[u] = latest[u])'
    BY <1>1 DEF IndexedIsConfirmed
  <2>1. /\ DayOf[u] # d /\ u \in Units
        /\ Confirmed(u) /\ latest[u] = Vouched(u) /\ scoped[u] = latest[u]
    BY <1>0, <1>1 DEF TreeInv, IndexedIsConfirmed, RestTyped, IsDay, IsTree
  <2> QED BY <1>1, <1>5, <2>1 DEF Confirmed
<1>9. TreeInv'
  BY <1>4, <1>6, <1>7, <1>8 DEF TreeInv
<1>10. /\ run'.pc = "repair_connectors" /\ run'.day = d /\ run'.batch = contents
       /\ run' = [pc |-> run'.pc, day |-> run'.day, batch |-> run'.batch, unit |-> run'.unit]
  BY <1>1 DEF Idle
<1>11. RunTyped'
  BY <1>2, <1>3, <1>10 DEF RunTyped, RepairSteps
<1>12. RunShape'
  BY <1>1, <1>10 DEF RunShape, At
<1>13. BatchPublished' /\ UnitInHand' /\ YearAgrees'
  BY <1>10 DEF BatchPublished, UnitInHand, YearAgrees, At, PruneSteps
<1>14. RepairShape'
  <2>1. PICK u \in Units : DayOf[u] = d /\ Vouched(u) # None
    BY <1>1, <1>2 DEF Empty
  <2>2. MonthFor(u) = MonthOf[d] /\ YearFor(u) = YearOf[MonthOf[d]]
    BY <2>1 DEF MonthFor, YearFor
  <2>3. RunMonth' = MonthOf[d] /\ RunYear' = YearOf[MonthOf[d]]
    BY <1>10 DEF RunMonth, RunYear
  <2>4. /\ RunYear' \in DOMAIN root'
        /\ RunMonth' \in DOMAIN root'[RunYear']
        /\ run'.day \in DOMAIN root'[RunYear'][RunMonth']
    BY <1>1, <1>10, <2>1, <2>2, <2>3, VouchedIsListed
  <2>5. Backed'
    BY <1>1, <1>5, BackedMeans, BackedMeansAfter
  <2>6. d \in withdrawn' /\ \A x \in Units : DayOf[x] = d => acked'[x] = None
    BY <1>1
  <2> QED BY <1>10, <2>4, <2>5, <2>6 DEF RepairShape
<1>15. RepairPublished' /\ RebuildPublished'
  BY <1>10 DEF RepairPublished, RebuildPublished, At, RepairSteps,
               RepairedDay, RepairedScopes, RebuildSteps
<1> QED BY <1>9, <1>11, <1>12, <1>13, <1>14, <1>15, HalvesAfter DEF RunInv

(* What a repair knows at each of its steps.                               *)
LEMMA RepairKnows ==
    ASSUME IInv, run.pc \in RepairSteps
    PROVE  /\ run.day \in Days /\ run.day \in withdrawn
           /\ RunMonth \in Months /\ RunYear \in Years
           /\ ~ Empty(run.batch) /\ IsDay(run.batch)
           /\ RunYear \in DOMAIN root
           /\ RunMonth \in DOMAIN root[RunYear]
           /\ run.day \in DOMAIN root[RunYear][RunMonth]
           /\ \A u \in DOMAIN run.batch :
                 u \in Units /\ DayOf[u] = run.day /\ run.batch[u] \in Contents
           /\ \A u \in Units : DayOf[u] = run.day =>
                 MonthFor(u) = RunMonth /\ YearFor(u) = RunYear /\ acked[u] = None
           /\ Backed
<1>0. RunInv
  BY Halves
<1>1. run.day \in Days /\ ~ Empty(run.batch) /\ IsDay(run.batch)
  BY <1>0 DEF RunInv, RunShape, RunTyped, At
<1>2. RunMonth \in Months /\ RunYear \in Years
  BY <1>1, CalendarAssumption DEF RunMonth, RunYear
<1>3. \A u \in DOMAIN run.batch :
          u \in Units /\ DayOf[u] = run.day /\ run.batch[u] \in Contents
  BY <1>0 DEF RunInv, RunTyped, IsDay, IsTree
<1>4. \A u \in Units : DayOf[u] = run.day => MonthFor(u) = RunMonth /\ YearFor(u) = RunYear
  BY DEF MonthFor, YearFor, RunMonth, RunYear
<1>5. /\ run.day \in withdrawn
      /\ RunYear \in DOMAIN root
      /\ RunMonth \in DOMAIN root[RunYear]
      /\ run.day \in DOMAIN root[RunYear][RunMonth]
      /\ \A u \in Units : DayOf[u] = run.day => acked[u] = None
      /\ Backed
  BY <1>0 DEF RunInv, RepairShape, At
<1> QED BY <1>1, <1>2, <1>3, <1>4, <1>5

(* A repair goes on with its day and batch.                                *)
LEMMA RepairGoesOn ==
    ASSUME IInv, run.pc \in RepairSteps, NEW pc \in RepairSteps, Goes(pc)
    PROVE  /\ run'.pc = pc /\ run'.day = run.day /\ run'.batch = run.batch
           /\ RunMonth' = RunMonth /\ RunYear' = RunYear
           /\ RunTyped' /\ RunShape'
           /\ BatchPublished' /\ UnitInHand' /\ YearAgrees' /\ RebuildPublished'
<1>0. RunInv
  BY Halves
<1>1. /\ run'.pc = pc /\ run'.day = run.day /\ run'.batch = run.batch
      /\ run' = [pc |-> run'.pc, day |-> run'.day, batch |-> run'.batch,
                 unit |-> run'.unit]
      /\ RunTyped'
  BY <1>0, GoesOn
<1>2. RunShape'
  BY <1>1, RepairKnows DEF RunShape, At
<1>3. BatchPublished' /\ UnitInHand' /\ YearAgrees' /\ RebuildPublished'
  BY <1>1 DEF BatchPublished, UnitInHand, YearAgrees, RebuildPublished, At,
              RepairSteps, PruneSteps, RebuildSteps
<1> QED BY <1>1, <1>2, <1>3 DEF RunMonth, RunYear

(* The shape of a repair lasts while root, days and withdrawn do.          *)
LEMMA RepairShapeKept ==
    ASSUME IInv, run.pc \in RepairSteps, NEW pc \in RepairSteps, Goes(pc),
           root' = root, acked' = acked, withdrawn' = withdrawn,
           \A u \in Units : DayOf[u] # run.day => InDay(u)' = InDay(u)
    PROVE  RepairShape'
<1>1. run'.day = run.day /\ RunMonth' = RunMonth /\ RunYear' = RunYear
  BY RepairGoesOn
<1>2. \A u \in Units : Vouched(u)' = Vouched(u)
  BY DEF Vouched
<1>3. Backed' <=> \A u \in Units :
          Vouched(u) # None /\ DayOf[u] \notin withdrawn => InDay(u)' = Vouched(u)
  BY <1>2, BackedMeansAfter
<1>4. run.day \in withdrawn /\ Backed
  BY RepairKnows
<1>5. Backed'
  BY <1>3, <1>4, BackedMeans
<1> QED BY <1>1, <1>5, RepairKnows DEF RepairShape

LEMMA RepairConnectorsHolds ==
    ASSUME IInv, RepairConnectors
    PROVE  IInv'
<1>0. TreeInv /\ RunInv
  BY Halves
<1>1. /\ run.pc = "repair_connectors" /\ run.pc \in RepairSteps
      /\ conn' = Over(run.batch, conn) /\ scoped' = scoped
      /\ Goes("repair_day") /\ "repair_day" \in RepairSteps
      /\ aggregates' = aggregates /\ latest' = latest
      /\ acked' = acked /\ withdrawn' = withdrawn
      /\ day' = day /\ month' = month /\ year' = year /\ root' = root
  BY DEF RepairConnectors, aggregates, history, RepairSteps
<1>2. /\ conn' \in [Units -> Contents \cup {None}]
      /\ \A u \in DOMAIN run.batch : conn'[u] = run.batch[u]
      /\ \A u \in Units \ DOMAIN run.batch : conn'[u] = conn[u]
  BY <1>0, <1>1, RepairKnows, OverUnits DEF TreeInv, RestTyped
<1>3. TreeTyped' /\ RestTyped'
  BY <1>0, <1>1, <1>2 DEF TreeInv, TreeTyped, IsTree, RestTyped
<1>4. KeptIsChained' /\ IndexedIsConfirmed'
  BY <1>0, <1>1, SameAggregates
     DEF TreeInv, KeptIsChained, IndexedIsConfirmed, Confirmed, Chain
<1>5. AckedIsVouched'
  <2> SUFFICES ASSUME NEW u \in Units, acked[u] # None
               PROVE  conn'[u] = acked[u] /\ Vouched(u)' = acked[u]
    BY <1>1 DEF AckedIsVouched
  <2>1. u \notin DOMAIN run.batch
    BY <1>1, RepairKnows
  <2> QED BY <1>0, <1>1, <1>2, <2>1, SameAggregates DEF TreeInv, AckedIsVouched
<1>6. TreeInv'
  BY <1>3, <1>4, <1>5 DEF TreeInv
<1>7. RepairShape'
  BY <1>1, SameAggregates, RepairShapeKept
<1>8. RepairPublished'
  BY <1>1, <1>2, RepairGoesOn DEF RepairPublished, At, RepairedDay, RepairedScopes
<1> QED BY <1>1, <1>6, <1>7, <1>8, RepairGoesOn, HalvesAfter DEF RunInv

LEMMA RepairDayHolds ==
    ASSUME IInv, RepairDay
    PROVE  IInv' /\ CommittedStays
<1>0. TreeInv /\ RunInv
  BY Halves
<1>1. /\ run.pc = "repair_day" /\ run.pc \in RepairSteps
      /\ day' = [day EXCEPT ![run.day] = run.batch]
      /\ Goes("repair_scopes") /\ "repair_scopes" \in RepairSteps
      /\ UNCHANGED <<leaves, latest, history>>
      /\ month' = month /\ year' = year /\ root' = root
      /\ conn' = conn /\ acked' = acked /\ withdrawn' = withdrawn
  BY DEF RepairDay, leaves, history, RepairSteps
<1>2. /\ run.day \in Days /\ run.day \in withdrawn /\ IsDay(run.batch)
      /\ DOMAIN day = Days
      /\ \A u \in Units : DayOf[u] = run.day => acked[u] = None
  BY <1>0, <1>1, RepairKnows DEF TreeInv, TreeTyped
<1>3. TreeTyped'
  BY <1>0, <1>1, <1>2 DEF TreeInv, TreeTyped, IsTree
<1>4. ASSUME NEW u \in Units
      PROVE  /\ InMonth(u)' = InMonth(u) /\ InYear(u)' = InYear(u)
             /\ Vouched(u)' = Vouched(u)
             /\ DayOf[u] # run.day => InDay(u)' = InDay(u)
  BY <1>1, <1>2, Calendar DEF InDay, InMonth, InYear, Vouched
<1>5. ASSUME NEW u \in Units, Confirmed(u) \/ acked[u] # None
      PROVE  Vouched(u)' = Vouched(u) /\ Chain(u)'
  <2>1. Chain(u) /\ DayOf[u] # run.day
    BY <1>0, <1>2, <1>5 DEF TreeInv, KeptIsChained, Confirmed
  <2> QED BY <1>4, <2>1 DEF Chain
<1>6. ASSUME NEW u \in Units, Confirmed(u)'
      PROVE  Chain(u)'
  BY <1>1, <1>2, <1>4, <1>5, <1>6 DEF Confirmed
<1>7. TreeInv' /\ CommittedStays
  BY <1>0, <1>1, <1>3, <1>5, <1>6, TreeStep
<1>8. RepairShape'
  BY <1>1, <1>4, RepairShapeKept
<1>9. RepairPublished'
  <2>1. \A u \in DOMAIN run.batch : conn[u] = run.batch[u]
    BY <1>0, <1>1 DEF RunInv, RepairPublished, At
  <2>2. day'[run.day] = run.batch
    BY <1>1, <1>2
  <2> QED BY <1>1, <2>1, <2>2, RepairGoesOn DEF RepairPublished, At, RepairedScopes
<1> QED BY <1>1, <1>7, <1>8, <1>9, RepairGoesOn, HalvesAfter DEF RunInv

LEMMA TargetIs ==
    ASSUME TreeTyped, IsDay(run.batch)
    PROVE  /\ IsDay(Target)
           /\ DOMAIN Target = DOMAIN run.batch \cup {u \in Units : Vouched(u) # None}
           /\ \A u \in DOMAIN run.batch : Target[u] = run.batch[u]
           /\ \A u \in Units : Vouched(u) # None /\ u \notin DOMAIN run.batch =>
                  Target[u] = Vouched(u)
<1>1. /\ DOMAIN Catalogue = {u \in Units : Vouched(u) # None}
      /\ \A u \in DOMAIN Catalogue : Catalogue[u] = Vouched(u)
  BY DEF Catalogue
<1>2. \A u \in Units : Vouched(u) # None => Vouched(u) \in Contents
  <2> SUFFICES ASSUME NEW u \in Units, Vouched(u) # None
               PROVE  Vouched(u) \in Contents
    OBVIOUS
  <2>1. /\ YearFor(u) \in DOMAIN root
        /\ MonthFor(u) \in DOMAIN root[YearFor(u)]
        /\ DayOf[u] \in DOMAIN root[YearFor(u)][MonthFor(u)]
    BY VouchedIsListed
  <2>2. IsYear(root[YearFor(u)])
    BY <2>1 DEF TreeTyped, IsTree
  <2>3. IsMonth(root[YearFor(u)][MonthFor(u)])
    BY <2>1, <2>2 DEF IsYear, IsTree
  <2>4. IsDay(root[YearFor(u)][MonthFor(u)][DayOf[u]])
    BY <2>1, <2>3 DEF IsMonth, IsTree
  <2>5. Vouched(u) = OfDay(root[YearFor(u)][MonthFor(u)][DayOf[u]], u)
    BY <2>1 DEF Vouched, OfRoot, OfYear, OfMonth
  <2> QED BY <2>4, <2>5, DayHolds
<1>3. IsDay(Catalogue)
  BY <1>1, <1>2 DEF IsDay, IsTree
<1>4. IsDay(Target)
  BY <1>3, OverDay DEF Target
<1>5. /\ DOMAIN Target = DOMAIN run.batch \cup DOMAIN Catalogue
      /\ \A u \in DOMAIN run.batch : Target[u] = run.batch[u]
      /\ \A u \in DOMAIN Catalogue : u \notin DOMAIN run.batch => Target[u] = Catalogue[u]
  BY OverIs DEF Target
<1> QED BY <1>1, <1>4, <1>5

LEMMA RepairScopesHolds ==
    ASSUME IInv, RepairScopes
    PROVE  IInv'
<1> DEFINE written == IF IndexAccounts THEN run.batch ELSE Target
<1>0. TreeInv /\ RunInv
  BY Halves
<1>1. /\ run.pc = "repair_scopes" /\ run.pc \in RepairSteps
      /\ scoped' = Over(written, scoped) /\ conn' = conn
      /\ Goes("repair_month") /\ "repair_month" \in RepairSteps
      /\ aggregates' = aggregates /\ latest' = latest
      /\ acked' = acked /\ withdrawn' = withdrawn
      /\ day' = day /\ month' = month /\ year' = year /\ root' = root
  BY DEF RepairScopes, aggregates, history, RepairSteps
<1>2. /\ run.day \in withdrawn /\ IsDay(run.batch)
      /\ \A u \in DOMAIN run.batch : u \in Units /\ DayOf[u] = run.day
  BY <1>1, RepairKnows
<1>3. /\ IsDay(written)
      /\ \A u \in DOMAIN run.batch : u \in DOMAIN written /\ written[u] = run.batch[u]
      /\ \A u \in DOMAIN written \ DOMAIN run.batch : written[u] = Vouched(u)
      /\ ~ IndexAccounts => \A u \in Units : Vouched(u) # None => u \in DOMAIN written
  <2>1. TreeTyped
    BY <1>0 DEF TreeInv
  <2>2. /\ IsDay(Target)
        /\ DOMAIN Target = DOMAIN run.batch \cup {u \in Units : Vouched(u) # None}
        /\ \A u \in DOMAIN run.batch : Target[u] = run.batch[u]
        /\ \A u \in Units : Vouched(u) # None /\ u \notin DOMAIN run.batch =>
               Target[u] = Vouched(u)
    BY <1>2, <2>1, TargetIs
  <2>3. CASE IndexAccounts
    BY <1>2, <2>3
  <2>4. CASE ~ IndexAccounts
    BY <2>2, <2>4
  <2> QED BY <2>3, <2>4
<1> HIDE DEF written
<1>4. /\ scoped' \in [Units -> Contents \cup {None}]
      /\ \A u \in DOMAIN written : scoped'[u] = written[u]
      /\ \A u \in Units \ DOMAIN written : scoped'[u] = scoped[u]
  BY <1>0, <1>1, <1>3, OverUnits DEF TreeInv, RestTyped
<1>5. ASSUME NEW u \in Units, Vouched(u) # None, DayOf[u] \notin withdrawn
      PROVE  scoped'[u] = Vouched(u)
  <2>1. u \notin DOMAIN run.batch /\ DayOf[u] # run.day
    BY <1>2, <1>5
  <2>2. CASE u \in DOMAIN written
    BY <1>3, <1>4, <2>1, <2>2
  <2>3. CASE u \notin DOMAIN written
    <3>1. OfDay(latest, u) = Vouched(u)
      BY <1>3, <1>5, <2>1, <2>3 DEF IndexAccounts
    <3>2. u \in DOMAIN latest
      BY <1>5, <3>1 DEF OfDay
    <3>3. scoped[u] = Vouched(u)
      BY <1>0, <1>5, <3>2 DEF TreeInv, IndexedIsConfirmed
    <3> QED BY <1>4, <2>3, <3>3
  <2> QED BY <2>2, <2>3
<1>6. TreeTyped' /\ RestTyped'
  BY <1>0, <1>1, <1>4 DEF TreeInv, TreeTyped, IsTree, RestTyped
<1>7. KeptIsChained' /\ AckedIsVouched'
  BY <1>0, <1>1, SameAggregates
     DEF TreeInv, KeptIsChained, AckedIsVouched, Confirmed, Chain
<1>8. IndexedIsConfirmed'
  <2> SUFFICES ASSUME NEW u \in DOMAIN latest, DayOf[u] \notin withdrawn
               PROVE  (Confirmed(u) /\ latest[u] = Vouched(u) /\ scoped[u] = latest[u])'
    BY <1>1 DEF IndexedIsConfirmed
  <2>1. u \in Units /\ Confirmed(u) /\ latest[u] = Vouched(u)
    BY <1>0 DEF TreeInv, IndexedIsConfirmed, RestTyped, IsDay, IsTree
  <2>2. scoped'[u] = Vouched(u)
    BY <1>5, <2>1 DEF Confirmed
  <2> QED BY <1>1, <2>1, <2>2, SameAggregates DEF Confirmed
<1>9. TreeInv'
  BY <1>6, <1>7, <1>8 DEF TreeInv
<1>10. RepairShape'
  BY <1>1, SameAggregates, RepairShapeKept
<1>11. RepairPublished'
  <2>1. /\ \A u \in DOMAIN run.batch : conn[u] = run.batch[u]
        /\ day[run.day] = run.batch
    BY <1>0, <1>1 DEF RunInv, RepairPublished, At, RepairedDay
  <2>2. \A u \in DOMAIN run.batch : scoped'[u] = run.batch[u]
    BY <1>3, <1>4
  <2>3. \A u \in Units : Vouched(u)' = Vouched(u)
    BY <1>1, SameAggregates
  <2> QED BY <1>1, <1>5, <2>1, <2>2, <2>3, RepairGoesOn DEF RepairPublished, At
<1> QED BY <1>1, <1>9, <1>10, <1>11, RepairGoesOn, HalvesAfter DEF RunInv

(* The month, the year and the root a repair writes hold its batch for its *)
(* own day, and what the root vouches for elsewhere.                       *)
LEMMA RepairedMonthIs ==
    ASSUME IInv, run.pc \in RepairSteps, NEW f,
           f = [root[RunYear][RunMonth] EXCEPT ![run.day] = run.batch]
    PROVE  /\ IsMonth(f) /\ run.day \in DOMAIN f
           /\ \A u \in Units : MonthFor(u) = RunMonth =>
                 OfMonth(f, u) = IF DayOf[u] = run.day THEN OfDay(run.batch, u) ELSE Vouched(u)
<1> DEFINE g == root[RunYear][RunMonth]
<1>1. /\ RunYear \in DOMAIN root /\ RunMonth \in DOMAIN root[RunYear]
      /\ run.day \in DOMAIN g
      /\ IsDay(run.batch) /\ ~ Empty(run.batch)
  BY RepairKnows
<1>2. IsYear(root[RunYear])
  BY <1>1, Halves DEF TreeInv, TreeTyped, IsTree
<1>3. IsMonth(g)
  BY <1>1, <1>2 DEF IsYear, IsTree
<1>4. /\ DOMAIN f = DOMAIN g
      /\ f[run.day] = run.batch
      /\ \A d \in DOMAIN g : d # run.day => f[d] = g[d]
  BY <1>1
<1>5. IsMonth(f)
  BY <1>1, <1>3, <1>4 DEF IsMonth, IsTree
<1>6. ASSUME NEW u \in Units, MonthFor(u) = RunMonth
      PROVE  OfMonth(f, u) = IF DayOf[u] = run.day THEN OfDay(run.batch, u) ELSE Vouched(u)
  <2>1. YearFor(u) = RunYear
    BY <1>6 DEF YearFor, RunYear
  <2>2. Vouched(u) = OfMonth(g, u)
    BY <1>1, <1>6, <2>1 DEF Vouched, OfRoot, OfYear
  <2> QED BY <1>1, <1>4, <2>2 DEF OfMonth
<1> QED BY <1>1, <1>4, <1>5, <1>6

LEMMA RepairMonthHolds ==
    ASSUME IInv, RepairMonth
    PROVE  IInv' /\ CommittedStays
<1> DEFINE f == [root[RunYear][RunMonth] EXCEPT ![run.day] = run.batch]
<1>0. TreeInv /\ RunInv
  BY Halves
<1>1. /\ run.pc = "repair_month" /\ run.pc \in RepairSteps
      /\ month' = [month EXCEPT ![RunMonth] = f]
      /\ Goes("repair_year") /\ "repair_year" \in RepairSteps
      /\ UNCHANGED <<leaves, latest, history>>
      /\ day' = day /\ year' = year /\ root' = root
      /\ conn' = conn /\ scoped' = scoped /\ acked' = acked /\ withdrawn' = withdrawn
  BY DEF RepairMonth, leaves, history, RepairSteps
<1>2. /\ IsMonth(f)
      /\ \A u \in Units : MonthFor(u) = RunMonth =>
            OfMonth(f, u) = IF DayOf[u] = run.day THEN OfDay(run.batch, u) ELSE Vouched(u)
  BY <1>1, RepairedMonthIs
<1> HIDE DEF f
<1>3. /\ run.day \in withdrawn /\ RunMonth \in Months
      /\ \A u \in Units : DayOf[u] = run.day => acked[u] = None
      /\ DOMAIN month = Months
  BY <1>0, <1>1, RepairKnows DEF TreeInv, TreeTyped
<1>4. TreeTyped'
  BY <1>0, <1>1, <1>2, <1>3 DEF TreeInv, TreeTyped, IsTree
<1>5. ASSUME NEW u \in Units
      PROVE  /\ InDay(u)' = InDay(u) /\ InYear(u)' = InYear(u) /\ Vouched(u)' = Vouched(u)
             /\ InMonth(u)' = IF MonthFor(u) = RunMonth THEN OfMonth(f, u) ELSE InMonth(u)
  BY <1>1, <1>3, Calendar DEF InDay, InMonth, InYear, Vouched
<1>6. ASSUME NEW u \in Units, Confirmed(u) \/ acked[u] # None
      PROVE  Vouched(u)' = Vouched(u) /\ Chain(u)'
  <2>1. Chain(u) /\ DayOf[u] # run.day
    BY <1>0, <1>3, <1>6 DEF TreeInv, KeptIsChained, Confirmed
  <2> QED BY <1>2, <1>5, <2>1 DEF Chain
<1>7. ASSUME NEW u \in Units, Confirmed(u)'
      PROVE  Chain(u)'
  BY <1>1, <1>5, <1>6, <1>7 DEF Confirmed
<1>8. TreeInv' /\ CommittedStays
  BY <1>0, <1>1, <1>4, <1>6, <1>7, TreeStep
<1>9. RepairShape'
  BY <1>1, <1>5, RepairShapeKept
<1>10. RepairPublished'
  <2>1. /\ \A u \in DOMAIN run.batch : conn[u] = run.batch[u] /\ scoped[u] = run.batch[u]
        /\ day[run.day] = run.batch
        /\ \A u \in Units : Vouched(u) # None /\ DayOf[u] \notin withdrawn =>
               scoped[u] = Vouched(u)
    BY <1>0, <1>1 DEF RunInv, RepairPublished, At, RepairedDay, RepairedScopes
  <2>2. month'[RunMonth] = [root[RunYear][RunMonth] EXCEPT ![run.day] = run.batch]
    BY <1>1, <1>3 DEF f
  <2> QED BY <1>1, <1>5, <2>1, <2>2, RepairGoesOn DEF RepairPublished, At
<1> QED BY <1>1, <1>8, <1>9, <1>10, RepairGoesOn, HalvesAfter DEF RunInv

LEMMA RepairedYearIs ==
    ASSUME IInv, run.pc \in RepairSteps, NEW f, NEW g,
           f = [root[RunYear][RunMonth] EXCEPT ![run.day] = run.batch],
           g = [root[RunYear] EXCEPT ![RunMonth] = f]
    PROVE  /\ IsYear(g) /\ RunMonth \in DOMAIN g /\ g[RunMonth] = f
           /\ \A u \in Units : YearFor(u) = RunYear =>
                 OfYear(g, u) = IF DayOf[u] = run.day THEN OfDay(run.batch, u) ELSE Vouched(u)
<1>1. /\ RunYear \in DOMAIN root /\ RunMonth \in DOMAIN root[RunYear]
      /\ \A u \in Units : DayOf[u] = run.day => MonthFor(u) = RunMonth
  BY RepairKnows
<1>2. IsYear(root[RunYear])
  BY <1>1, Halves DEF TreeInv, TreeTyped, IsTree
<1>3. /\ IsMonth(f) /\ run.day \in DOMAIN f
      /\ \A u \in Units : MonthFor(u) = RunMonth =>
            OfMonth(f, u) = IF DayOf[u] = run.day THEN OfDay(run.batch, u) ELSE Vouched(u)
  BY RepairedMonthIs
<1>4. /\ DOMAIN g = DOMAIN root[RunYear]
      /\ g[RunMonth] = f
      /\ \A m \in DOMAIN g : m # RunMonth => g[m] = root[RunYear][m]
  BY <1>1
<1>5. ~ Empty(f)
  BY <1>3 DEF Empty
<1>6. IsYear(g)
  BY <1>2, <1>3, <1>4, <1>5 DEF IsYear, IsTree
<1>7. ASSUME NEW u \in Units, YearFor(u) = RunYear
      PROVE  OfYear(g, u) = IF DayOf[u] = run.day THEN OfDay(run.batch, u) ELSE Vouched(u)
  <2>1. CASE MonthFor(u) = RunMonth
    BY <1>1, <1>3, <1>4, <2>1 DEF OfYear
  <2>2. CASE MonthFor(u) # RunMonth
    BY <1>1, <1>4, <1>7, <2>2 DEF OfYear, Vouched, OfRoot
  <2> QED BY <2>1, <2>2
<1> QED BY <1>1, <1>4, <1>6, <1>7

LEMMA RepairYearHolds ==
    ASSUME IInv, RepairYear
    PROVE  IInv' /\ CommittedStays
<1> DEFINE g == [root[RunYear] EXCEPT ![RunMonth] = month[RunMonth]]
<1>0. TreeInv /\ RunInv
  BY Halves
<1>1. /\ run.pc = "repair_year" /\ run.pc \in RepairSteps
      /\ year' = [year EXCEPT ![RunYear] = g]
      /\ Goes("repair_root") /\ "repair_root" \in RepairSteps
      /\ UNCHANGED <<leaves, latest, history>>
      /\ day' = day /\ month' = month /\ root' = root
      /\ conn' = conn /\ scoped' = scoped /\ acked' = acked /\ withdrawn' = withdrawn
  BY DEF RepairYear, leaves, history, RepairSteps
<1>2. /\ \A u \in DOMAIN run.batch : conn[u] = run.batch[u] /\ scoped[u] = run.batch[u]
      /\ day[run.day] = run.batch
      /\ \A u \in Units : Vouched(u) # None /\ DayOf[u] \notin withdrawn =>
             scoped[u] = Vouched(u)
      /\ month[RunMonth] = [root[RunYear][RunMonth] EXCEPT ![run.day] = run.batch]
  BY <1>0, <1>1 DEF RunInv, RepairPublished, At, RepairedDay, RepairedScopes
<1>3. /\ IsYear(g)
      /\ \A u \in Units : YearFor(u) = RunYear =>
            OfYear(g, u) = IF DayOf[u] = run.day THEN OfDay(run.batch, u) ELSE Vouched(u)
  BY <1>1, <1>2, RepairedYearIs
<1> HIDE DEF g
<1>4. /\ run.day \in withdrawn /\ RunYear \in Years
      /\ \A u \in Units : DayOf[u] = run.day => acked[u] = None
      /\ DOMAIN year = Years
  BY <1>0, <1>1, RepairKnows DEF TreeInv, TreeTyped
<1>5. TreeTyped'
  BY <1>0, <1>1, <1>3, <1>4 DEF TreeInv, TreeTyped, IsTree
<1>6. ASSUME NEW u \in Units
      PROVE  /\ InDay(u)' = InDay(u) /\ InMonth(u)' = InMonth(u) /\ Vouched(u)' = Vouched(u)
             /\ InYear(u)' = IF YearFor(u) = RunYear THEN OfYear(g, u) ELSE InYear(u)
  BY <1>1, <1>4, Calendar DEF InDay, InMonth, InYear, Vouched
<1>7. ASSUME NEW u \in Units, Confirmed(u) \/ acked[u] # None
      PROVE  Vouched(u)' = Vouched(u) /\ Chain(u)'
  <2>1. Chain(u) /\ DayOf[u] # run.day
    BY <1>0, <1>4, <1>7 DEF TreeInv, KeptIsChained, Confirmed
  <2> QED BY <1>3, <1>6, <2>1 DEF Chain
<1>8. ASSUME NEW u \in Units, Confirmed(u)'
      PROVE  Chain(u)'
  BY <1>1, <1>6, <1>7, <1>8 DEF Confirmed
<1>9. TreeInv' /\ CommittedStays
  BY <1>0, <1>1, <1>5, <1>7, <1>8, TreeStep
<1>10. RepairShape'
  BY <1>1, <1>6, RepairShapeKept
<1>11. RepairPublished'
  <2>1. year'[RunYear] = [root[RunYear] EXCEPT ![RunMonth] = month[RunMonth]]
    BY <1>1, <1>4 DEF g
  <2> QED BY <1>1, <1>2, <1>6, <2>1, RepairGoesOn DEF RepairPublished, At
<1> QED BY <1>1, <1>9, <1>10, <1>11, RepairGoesOn, HalvesAfter DEF RunInv

LEMMA RepairRootHolds ==
    ASSUME IInv, RepairRoot
    PROVE  IInv' /\ CommittedStays
<1> DEFINE g == year[RunYear]
<1>0. TreeInv /\ RunInv
  BY Halves
<1>1. /\ run.pc = "repair_root" /\ run.pc \in RepairSteps
      /\ root' = [root EXCEPT ![RunYear] = year[RunYear]]
      /\ Goes("repair_latest") /\ "repair_latest" \in RepairSteps
      /\ UNCHANGED <<leaves, latest, history>>
      /\ day' = day /\ month' = month /\ year' = year
      /\ conn' = conn /\ scoped' = scoped /\ acked' = acked /\ withdrawn' = withdrawn
  BY DEF RepairRoot, leaves, history, RepairSteps
<1>2. /\ \A u \in DOMAIN run.batch : conn[u] = run.batch[u] /\ scoped[u] = run.batch[u]
      /\ day[run.day] = run.batch
      /\ \A u \in Units : Vouched(u) # None /\ DayOf[u] \notin withdrawn =>
             scoped[u] = Vouched(u)
      /\ month[RunMonth] = [root[RunYear][RunMonth] EXCEPT ![run.day] = run.batch]
      /\ g = [root[RunYear] EXCEPT ![RunMonth] = month[RunMonth]]
  BY <1>0, <1>1 DEF RunInv, RepairPublished, At, RepairedDay, RepairedScopes
<1>3. /\ IsYear(g) /\ RunMonth \in DOMAIN g /\ g[RunMonth] = month[RunMonth]
      /\ \A u \in Units : YearFor(u) = RunYear =>
            OfYear(g, u) = IF DayOf[u] = run.day THEN OfDay(run.batch, u) ELSE Vouched(u)
  BY <1>1, <1>2, RepairedYearIs
<1>4. /\ run.day \in DOMAIN month[RunMonth]
      /\ \A u \in Units : MonthFor(u) = RunMonth =>
            OfMonth(month[RunMonth], u) =
                IF DayOf[u] = run.day THEN OfDay(run.batch, u) ELSE Vouched(u)
  BY <1>1, <1>2, RepairedMonthIs
<1>5. /\ run.day \in withdrawn /\ RunYear \in Years /\ RunYear \in DOMAIN root
      /\ \A u \in Units : DayOf[u] = run.day =>
            acked[u] = None /\ MonthFor(u) = RunMonth /\ YearFor(u) = RunYear
      /\ Backed
  BY <1>1, RepairKnows
<1>6. /\ DOMAIN root' = DOMAIN root /\ root'[RunYear] = g
      /\ \A y \in DOMAIN root : y # RunYear => root'[y] = root[y]
  BY <1>1, <1>5
<1> HIDE DEF g
<1>7. TreeTyped'
  <2>1. ~ Empty(g)
    BY <1>3 DEF Empty
  <2>2. ~ Empty(root')
    BY <1>5, <1>6 DEF Empty
  <2>3. DOMAIN root' \subseteq Years /\ \A y \in DOMAIN root' : ~ Empty(root'[y]) /\ IsYear(root'[y])
    BY <1>0, <1>3, <1>6, <2>1 DEF TreeInv, TreeTyped, IsTree
  <2> QED BY <1>0, <1>1, <2>2, <2>3 DEF TreeInv, TreeTyped, IsTree
<1>8. ASSUME NEW u \in Units
      PROVE  /\ InDay(u)' = InDay(u) /\ InMonth(u)' = InMonth(u) /\ InYear(u)' = InYear(u)
             /\ DayOf[u] # run.day => Vouched(u)' = Vouched(u)
             /\ DayOf[u] = run.day => Vouched(u)' = OfDay(run.batch, u)
  <2>1. InDay(u)' = InDay(u) /\ InMonth(u)' = InMonth(u) /\ InYear(u)' = InYear(u)
    BY <1>1 DEF InDay, InMonth, InYear
  <2>2. Vouched(u)' = IF YearFor(u) = RunYear THEN OfYear(g, u) ELSE Vouched(u)
    BY <1>5, <1>6 DEF Vouched, OfRoot
  <2> QED BY <1>3, <1>5, <2>1, <2>2
<1>9. ASSUME NEW u \in Units, Confirmed(u) \/ acked[u] # None
      PROVE  Vouched(u)' = Vouched(u) /\ Chain(u)'
  <2>1. Chain(u) /\ DayOf[u] # run.day
    BY <1>0, <1>5, <1>9 DEF TreeInv, KeptIsChained, Confirmed
  <2> QED BY <1>8, <2>1 DEF Chain
<1>10. ASSUME NEW u \in Units, Confirmed(u)'
       PROVE  Chain(u)'
  <2>1. DayOf[u] # run.day
    BY <1>1, <1>5, <1>10 DEF Confirmed
  <2>2. Confirmed(u)
    BY <1>1, <1>8, <1>10, <2>1 DEF Confirmed
  <2> QED BY <1>9, <2>2
<1>11. TreeInv' /\ CommittedStays
  BY <1>0, <1>1, <1>7, <1>9, <1>10, TreeStep
<1>12. run'.day = run.day /\ run'.batch = run.batch /\ run'.pc = "repair_latest"
       /\ RunMonth' = RunMonth /\ RunYear' = RunYear
  BY <1>1, RepairGoesOn
<1>13. RepairShape'
  <2>1. Backed'
    BY <1>1, <1>5, <1>8, BackedMeans, BackedMeansAfter
  <2> QED BY <1>1, <1>3, <1>4, <1>5, <1>6, <1>12, <2>1 DEF RepairShape
<1>14. RepairPublished'
  <2>1. ASSUME NEW u \in Units, DayOf[u] = run.day
        PROVE  Chain(u)'
    <3>1. InDay(u) = OfDay(run.batch, u)
      BY <1>2, <2>1 DEF InDay
    <3>2. InMonth(u) = OfDay(run.batch, u)
      BY <1>4, <1>5, <2>1 DEF InMonth
    <3>3. InYear(u) = OfDay(run.batch, u)
      BY <1>3, <1>5, <2>1 DEF InYear, g
    <3> QED BY <1>8, <2>1, <3>1, <3>2, <3>3 DEF Chain
  <2>2. \A u \in Units : Vouched(u)' # None /\ DayOf[u] \notin withdrawn =>
            scoped[u] = Vouched(u)'
    BY <1>2, <1>5, <1>8
  <2> QED BY <1>1, <1>2, <1>12, <2>1, <2>2 DEF RepairPublished, At
<1> QED BY <1>1, <1>11, <1>13, <1>14, RepairGoesOn, HalvesAfter DEF RunInv

LEMMA RepairLatestHolds ==
    ASSUME IInv, RepairLatest
    PROVE  IInv'
<1>0. TreeInv /\ RunInv
  BY Halves
<1>1. /\ run.pc = "repair_latest" /\ run.pc \in RepairSteps
      /\ latest' = Target
      /\ acked' = Over(run.batch, acked)
      /\ withdrawn' = withdrawn \ {run.day}
      /\ run' = Idle
      /\ aggregates' = aggregates
      /\ conn' = conn /\ scoped' = scoped
      /\ day' = day /\ month' = month /\ year' = year /\ root' = root
  BY DEF RepairLatest, leaves, aggregates, RepairSteps
<1>2. /\ \A u \in DOMAIN run.batch : conn[u] = run.batch[u] /\ scoped[u] = run.batch[u]
      /\ day[run.day] = run.batch
      /\ \A u \in Units : Vouched(u) # None /\ DayOf[u] \notin withdrawn =>
             scoped[u] = Vouched(u)
      /\ \A u \in Units : DayOf[u] = run.day => Chain(u)
  BY <1>0, <1>1 DEF RunInv, RepairPublished, At, RepairedDay, RepairedScopes
<1>3. /\ IsDay(run.batch) /\ ~ Empty(run.batch) /\ Backed
      /\ \A u \in DOMAIN run.batch :
            u \in Units /\ DayOf[u] = run.day /\ run.batch[u] \in Contents
  BY <1>1, RepairKnows
<1>4. /\ IsDay(Target)
      /\ DOMAIN Target = DOMAIN run.batch \cup {u \in Units : Vouched(u) # None}
      /\ \A u \in DOMAIN run.batch : Target[u] = run.batch[u]
      /\ \A u \in Units : Vouched(u) # None /\ u \notin DOMAIN run.batch =>
             Target[u] = Vouched(u)
  BY <1>0, <1>3, TargetIs DEF TreeInv
<1>5. ~ Empty(Target)
  BY <1>3, <1>4 DEF Empty
<1>6. /\ acked' \in [Units -> Contents \cup {None}]
      /\ \A u \in DOMAIN run.batch : acked'[u] = run.batch[u]
      /\ \A u \in Units \ DOMAIN run.batch : acked'[u] = acked[u]
  BY <1>0, <1>1, <1>3, OverUnits DEF TreeInv, RestTyped
<1>7. TreeTyped' /\ RestTyped'
  BY <1>0, <1>1, <1>4, <1>5, <1>6 DEF TreeInv, TreeTyped, IsTree, RestTyped
<1>8. \A u \in Units : DayOf[u] = run.day => Vouched(u) = OfDay(run.batch, u)
  BY <1>2 DEF Chain, InDay
<1>9. \A u \in Units :
          /\ InDay(u)' = InDay(u) /\ Vouched(u)' = Vouched(u)
          /\ Chain(u)' <=> Chain(u)
  BY <1>1, SameAggregates DEF Chain
<1>10. KeptIsChained'
  <2> SUFFICES ASSUME NEW u \in Units, Confirmed(u)' \/ acked'[u] # None
               PROVE  Chain(u)
    BY <1>9 DEF KeptIsChained
  <2>1. CASE DayOf[u] = run.day
    BY <1>2, <2>1
  <2>2. CASE DayOf[u] # run.day
    <3>1. u \notin DOMAIN run.batch
      BY <1>3, <2>2
    <3>2. Confirmed(u) \/ acked[u] # None
      BY <1>1, <1>6, <1>9, <2>2, <3>1 DEF Confirmed
    <3> QED BY <1>0, <3>2 DEF TreeInv, KeptIsChained
  <2> QED BY <2>1, <2>2
<1>11. AckedIsVouched'
  <2> SUFFICES ASSUME NEW u \in Units, acked'[u] # None
               PROVE  conn[u] = acked'[u] /\ Vouched(u) = acked'[u]
    BY <1>1, <1>9 DEF AckedIsVouched
  <2>1. CASE u \in DOMAIN run.batch
    BY <1>2, <1>3, <1>6, <1>8, <2>1 DEF OfDay
  <2>2. CASE u \notin DOMAIN run.batch
    BY <1>0, <1>6, <2>2 DEF TreeInv, AckedIsVouched
  <2> QED BY <2>1, <2>2
<1>12. IndexedIsConfirmed'
  <2> SUFFICES ASSUME NEW u \in DOMAIN Target, DayOf[u] \notin withdrawn \ {run.day}
               PROVE  /\ Vouched(u) # None /\ InDay(u) = Vouched(u)
                      /\ Target[u] = Vouched(u) /\ scoped[u] = Target[u]
    <3>1. \A u \in DOMAIN Target : u \in Units
      BY <1>4 DEF IsDay, IsTree
    <3> QED BY <1>1, <1>9, <3>1 DEF IndexedIsConfirmed, Confirmed
  <2>1. u \in Units /\ Target[u] \in Contents /\ Target[u] # None
    BY <1>4, ContentsAssumption DEF IsDay, IsTree
  <2>2. CASE DayOf[u] = run.day
    <3>1. Vouched(u) = OfDay(run.batch, u) /\ InDay(u) = Vouched(u)
      BY <1>2, <1>8, <2>1, <2>2 DEF Chain
    <3>2. u \in DOMAIN run.batch
      BY <1>4, <2>1, <3>1 DEF OfDay
    <3>3. Vouched(u) = run.batch[u]
      BY <3>1, <3>2 DEF OfDay
    <3> QED BY <1>2, <1>4, <2>1, <3>1, <3>2, <3>3
  <2>3. CASE DayOf[u] # run.day
    <3>1. u \notin DOMAIN run.batch /\ Vouched(u) # None
      BY <1>3, <1>4, <2>1, <2>3
    <3>2. InDay(u) = Vouched(u)
      BY <1>3, <2>1, <2>3, <3>1, BackedMeans
    <3> QED BY <1>2, <1>4, <2>1, <2>3, <3>1, <3>2
  <2> QED BY <2>2, <2>3
<1> QED BY <1>1, <1>7, <1>10, <1>11, <1>12, IdleHolds, HalvesAfter DEF TreeInv

-----------------------------------------------------------------------------
(***************************************************************************)
(* The rebuild of the aggregates.                                          *)
(***************************************************************************)

(* The months and years a rebuild writes, and the root it ends with.       *)
LEMMA RebuiltTyped ==
    ASSUME TreeTyped
    PROVE  LET months == MonthsOf(day)
               years == YearsOf(months)
           IN /\ DOMAIN months = Months /\ \A m \in Months : IsMonth(months[m])
              /\ DOMAIN years = Years /\ \A y \in Years : IsYear(years[y])
<1>1. DOMAIN day = Days /\ \A d \in Days : IsDay(day[d])
  BY DEF TreeTyped
<1>2. DOMAIN MonthsOf(day) = Months /\ \A m \in Months : IsMonth(MonthsOf(day)[m])
  BY <1>1, MonthsOfDays
<1>3. /\ DOMAIN YearsOf(MonthsOf(day)) = Years
      /\ \A y \in Years : IsYear(YearsOf(MonthsOf(day))[y])
  BY <1>2, YearsOfMonths
<1> QED BY <1>2, <1>3

LEMMA RebuildMonthsHolds ==
    ASSUME IInv, RebuildMonths
    PROVE  IInv' /\ CommittedStays
<1> DEFINE months == MonthsOf(day)
<1>0. TreeInv /\ RunInv
  BY Halves
<1>1. /\ run.pc = "rebuild_months"
      /\ month' = Over(NonEmpty(months), month)
      /\ Goes("rebuild_years")
      /\ UNCHANGED <<leaves, latest, history>>
      /\ day' = day /\ year' = year /\ root' = root
      /\ acked' = acked /\ withdrawn' = withdrawn
  BY DEF RebuildMonths, leaves, history
<1>2. /\ DOMAIN months = Months /\ \A m \in Months : IsMonth(months[m])
      /\ DOMAIN day = Days /\ \A d \in Days : IsDay(day[d])
      /\ DOMAIN month = Months /\ \A m \in Months : IsMonth(month[m])
  BY <1>0, RebuiltTyped DEF TreeInv, TreeTyped
<1>3. /\ DOMAIN month' = Months
      /\ \A m \in Months : month'[m] = IF Empty(months[m]) THEN month[m] ELSE months[m]
  BY <1>1, <1>2, NonEmptyIs DEF Over
<1>4. TreeTyped'
  <2>1. \A m \in Months : IsMonth(month'[m])
    BY <1>2, <1>3
  <2> QED BY <1>0, <1>1, <1>3, <2>1 DEF TreeInv, TreeTyped, IsTree
<1>5. ASSUME NEW u \in Units
      PROVE  /\ InDay(u)' = InDay(u) /\ InYear(u)' = InYear(u) /\ Vouched(u)' = Vouched(u)
             /\ InDay(u) # None => InMonth(u)' = InDay(u)
  <2>1. OfMonth(months[MonthFor(u)], u) = InDay(u)
        /\ (InDay(u) # None => ~ Empty(months[MonthFor(u)]))
    BY <1>2, RebuiltHolds DEF InDay
  <2> QED BY <1>1, <1>3, <2>1, Calendar DEF InDay, InMonth, InYear, Vouched
<1>6. ASSUME NEW u \in Units, Confirmed(u) \/ acked[u] # None
      PROVE  Vouched(u)' = Vouched(u) /\ Chain(u)'
  <2>1. Chain(u) /\ Vouched(u) # None
    BY <1>0, <1>6 DEF TreeInv, KeptIsChained, AckedIsVouched, Confirmed
  <2> QED BY <1>5, <2>1 DEF Chain
<1>7. ASSUME NEW u \in Units, Confirmed(u)'
      PROVE  Chain(u)'
  BY <1>1, <1>5, <1>6, <1>7 DEF Confirmed
<1>8. TreeInv' /\ CommittedStays
  BY <1>0, <1>1, <1>4, <1>6, <1>7, TreeStep
<1>9. /\ run'.pc = "rebuild_years" /\ run'.day = run.day /\ run'.batch = run.batch
      /\ run' = [pc |-> run'.pc, day |-> run'.day, batch |-> run'.batch, unit |-> run'.unit]
      /\ RunTyped'
  BY <1>0, <1>1, GoesOn DEF RebuildSteps
<1>10. RunShape' /\ BatchPublished' /\ UnitInHand' /\ YearAgrees'
  BY <1>9 DEF RunShape, BatchPublished, UnitInHand, YearAgrees, At, PruneSteps, RepairSteps
<1>11. RepairShape' /\ RepairPublished'
  BY <1>9 DEF RepairShape, RepairPublished, At, RepairSteps, RepairedDay, RepairedScopes
<1>12. RebuildPublished'
  <2>1. \E d \in Days : ~ Empty(day[d])
    BY <1>0, <1>1 DEF RunInv, RebuildPublished, At, RebuildSteps
  <2> QED BY <1>1, <1>5, <1>9, <2>1 DEF RebuildPublished, At
<1> QED BY <1>8, <1>9, <1>10, <1>11, <1>12, HalvesAfter DEF RunInv

LEMMA RebuildYearsHolds ==
    ASSUME IInv, RebuildYears
    PROVE  IInv' /\ CommittedStays
<1> DEFINE years == YearsOf(MonthsOf(day))
<1>0. TreeInv /\ RunInv
  BY Halves
<1>1. /\ run.pc = "rebuild_years"
      /\ year' = Over(NonEmpty(years), year)
      /\ Goes("rebuild_root")
      /\ UNCHANGED <<leaves, latest, history>>
      /\ day' = day /\ month' = month /\ root' = root
      /\ acked' = acked /\ withdrawn' = withdrawn
  BY DEF RebuildYears, leaves, history
<1>2. /\ DOMAIN years = Years /\ \A y \in Years : IsYear(years[y])
      /\ DOMAIN day = Days /\ \A d \in Days : IsDay(day[d])
      /\ DOMAIN year = Years /\ \A y \in Years : IsYear(year[y])
  BY <1>0, RebuiltTyped DEF TreeInv, TreeTyped
<1>3. /\ DOMAIN year' = Years
      /\ \A y \in Years : year'[y] = IF Empty(years[y]) THEN year[y] ELSE years[y]
  BY <1>1, <1>2, NonEmptyIs DEF Over
<1>4. TreeTyped'
  <2>1. \A y \in Years : IsYear(year'[y])
    BY <1>2, <1>3
  <2> QED BY <1>0, <1>1, <1>3, <2>1 DEF TreeInv, TreeTyped, IsTree
<1>5. ASSUME NEW u \in Units
      PROVE  /\ InDay(u)' = InDay(u) /\ InMonth(u)' = InMonth(u) /\ Vouched(u)' = Vouched(u)
             /\ InDay(u) # None => InYear(u)' = InDay(u)
  <2>1. OfYear(years[YearFor(u)], u) = InDay(u)
        /\ (InDay(u) # None => ~ Empty(years[YearFor(u)]))
    BY <1>2, RebuiltHolds DEF InDay
  <2> QED BY <1>1, <1>3, <2>1, Calendar DEF InDay, InMonth, InYear, Vouched
<1>6. ASSUME NEW u \in Units, Confirmed(u) \/ acked[u] # None
      PROVE  Vouched(u)' = Vouched(u) /\ Chain(u)'
  <2>1. Chain(u) /\ Vouched(u) # None
    BY <1>0, <1>6 DEF TreeInv, KeptIsChained, AckedIsVouched, Confirmed
  <2> QED BY <1>5, <2>1 DEF Chain
<1>7. ASSUME NEW u \in Units, Confirmed(u)'
      PROVE  Chain(u)'
  BY <1>1, <1>5, <1>6, <1>7 DEF Confirmed
<1>8. TreeInv' /\ CommittedStays
  BY <1>0, <1>1, <1>4, <1>6, <1>7, TreeStep
<1>9. /\ run'.pc = "rebuild_root" /\ run'.day = run.day /\ run'.batch = run.batch
      /\ run' = [pc |-> run'.pc, day |-> run'.day, batch |-> run'.batch, unit |-> run'.unit]
      /\ RunTyped'
  BY <1>0, <1>1, GoesOn DEF RebuildSteps
<1>10. RunShape' /\ BatchPublished' /\ UnitInHand' /\ YearAgrees'
  BY <1>9 DEF RunShape, BatchPublished, UnitInHand, YearAgrees, At, PruneSteps, RepairSteps
<1>11. RepairShape' /\ RepairPublished'
  BY <1>9 DEF RepairShape, RepairPublished, At, RepairSteps, RepairedDay, RepairedScopes
<1>12. RebuildPublished'
  <2>1. /\ \E d \in Days : ~ Empty(day[d])
        /\ \A u \in Units : InDay(u) # None => InMonth(u) = InDay(u)
    BY <1>0, <1>1 DEF RunInv, RebuildPublished, At, RebuildSteps
  <2> QED BY <1>1, <1>5, <1>9, <2>1 DEF RebuildPublished, At
<1> QED BY <1>8, <1>9, <1>10, <1>11, <1>12, HalvesAfter DEF RunInv

LEMMA RebuildRootHolds ==
    ASSUME IInv, RebuildRoot
    PROVE  IInv' /\ CommittedStays
<1> DEFINE years == YearsOf(MonthsOf(day))
<1>0. TreeInv /\ RunInv
  BY Halves
<1>1. /\ run.pc = "rebuild_root"
      /\ root' = NonEmpty(years)
      /\ run' = Idle
      /\ UNCHANGED <<leaves, latest, history>>
      /\ day' = day /\ month' = month /\ year' = year
      /\ acked' = acked /\ withdrawn' = withdrawn
  BY DEF RebuildRoot, leaves, history
<1>2. /\ DOMAIN years = Years /\ \A y \in Years : IsYear(years[y])
      /\ DOMAIN day = Days /\ \A d \in Days : IsDay(day[d])
  BY <1>0, RebuiltTyped DEF TreeInv, TreeTyped
<1>3. /\ DOMAIN root' = {y \in Years : ~ Empty(years[y])}
      /\ \A y \in DOMAIN root' : root'[y] = years[y]
  BY <1>1, <1>2, NonEmptyIs
<1>4. /\ \E d \in Days : ~ Empty(day[d])
      /\ \A u \in Units : InDay(u) # None => InMonth(u) = InDay(u) /\ InYear(u) = InDay(u)
  BY <1>0, <1>1 DEF RunInv, RebuildPublished, At, RebuildSteps
<1>5. ~ Empty(root')
  <2> DEFINE months == MonthsOf(day)
  <2>1. PICK d \in Days : ~ Empty(day[d])
    BY <1>4
  <2>2. MonthOf[d] \in Months /\ YearOf[MonthOf[d]] \in Years
    BY CalendarAssumption
  <2>3. /\ DOMAIN months = Months /\ \A m \in Months : IsMonth(months[m])
        /\ d \in DOMAIN months[MonthOf[d]]
    BY <1>2, <2>1, <2>2, MonthsOfDays
  <2>4. MonthOf[d] \in DOMAIN years[YearOf[MonthOf[d]]]
    BY <2>2, <2>3, YearsOfMonths DEF Empty
  <2> QED BY <1>3, <2>2, <2>4 DEF Empty
<1>6. TreeTyped'
  <2>1. DOMAIN root' \subseteq Years /\ \A y \in DOMAIN root' : ~ Empty(root'[y]) /\ IsYear(root'[y])
    BY <1>2, <1>3
  <2> QED BY <1>0, <1>1, <1>5, <2>1 DEF TreeInv, TreeTyped, IsTree
<1>7. ASSUME NEW u \in Units
      PROVE  /\ InDay(u)' = InDay(u) /\ InMonth(u)' = InMonth(u)
             /\ InYear(u)' = InYear(u) /\ Vouched(u)' = InDay(u)
  <2>1. OfRoot(NonEmpty(years), u) = InDay(u)
    BY <1>2, RebuiltHolds DEF InDay
  <2> QED BY <1>1, <2>1 DEF InDay, InMonth, InYear, Vouched
<1>8. ASSUME NEW u \in Units, Confirmed(u) \/ acked[u] # None
      PROVE  Vouched(u)' = Vouched(u) /\ Chain(u)'
  <2>1. Chain(u)
    BY <1>0, <1>8 DEF TreeInv, KeptIsChained
  <2> QED BY <1>7, <2>1 DEF Chain
<1>9. ASSUME NEW u \in Units, Confirmed(u)'
      PROVE  Chain(u)'
  BY <1>4, <1>7, <1>9 DEF Confirmed, Chain
<1>10. TreeInv' /\ CommittedStays
  BY <1>0, <1>1, <1>6, <1>8, <1>9, TreeStep
<1> QED BY <1>1, <1>10, IdleHolds, HalvesAfter

-----------------------------------------------------------------------------
(***************************************************************************)
(* The invariant and the safety properties.                                *)
(***************************************************************************)
LEMMA StutterHolds ==
    ASSUME IInv, UNCHANGED vars
    PROVE  IInv'
<1>0. TreeInv /\ RunInv
  BY Halves
<1>1. /\ conn' = conn /\ scoped' = scoped /\ latest' = latest /\ run' = run
      /\ day' = day /\ month' = month /\ year' = year /\ root' = root
      /\ acked' = acked /\ withdrawn' = withdrawn
  BY DEF vars
<1>2. TreeInv'
  BY <1>0, <1>1, SameTree DEF leaves, aggregates, history
<1>3. RunTyped' /\ RunShape'
  BY <1>0, <1>1 DEF RunInv, RunTyped, RunShape, IsDay, IsTree, At
<1>4. BatchPublished' /\ UnitInHand' /\ YearAgrees'
  BY <1>0, <1>1 DEF RunInv, BatchPublished, UnitInHand, YearAgrees, At, RunYear, RunMonth,
                    InDay, InMonth, InYear, Vouched
<1>5. RepairShape'
  <2>1. Backed' <=> Backed
    BY <1>1, BackedMeans, BackedMeansAfter DEF InDay, Vouched
  <2> QED BY <1>0, <1>1, <2>1 DEF RunInv, RepairShape, At, RunYear, RunMonth
<1>6. RepairPublished' /\ RebuildPublished'
  BY <1>0, <1>1 DEF RunInv, RepairPublished, RebuildPublished, At, RunYear, RunMonth,
                    Chain, InDay, InMonth, InYear, Vouched
<1> QED BY <1>2, <1>3, <1>4, <1>5, <1>6, HalvesAfter DEF RunInv

(* Every step of a run, a repair, a rebuild or a failure keeps the         *)
(* invariant.                                                              *)
LEMMA StepHolds == IInv /\ [Next]_vars => IInv'
<1> SUFFICES ASSUME IInv, [Next]_vars PROVE IInv'
  OBVIOUS
<1>1. CASE UNCHANGED vars
  BY <1>1, StutterHolds
<1>2. CASE Prune
  <2>1. CASE \E d \in Days : StartBatch(d)
    BY <2>1, StartBatchHolds
  <2>2. CASE \E u \in Units, c \in Contents : PublishConnector(u, c)
    BY <2>2, PublishConnectorHolds
  <2>3. CASE PublishScope \/ CandidateFails
    BY <2>3, PublishScopeHolds, CandidateFailsHolds
  <2>4. CASE PublishDay \/ PublishYear \/ PublishRoot \/ PublishLatest
    BY <2>4, PublishDayHolds, PublishYearHolds, PublishRootHolds, PublishLatestHolds
  <2>5. CASE \E listed \in SUBSET Days : PublishMonth(listed)
    BY <2>5, PublishMonthHolds
  <2>6. CASE FinalizationThrows \/ NothingPublished
    BY <2>6, RunEnds
  <2> QED BY <1>2, <2>1, <2>2, <2>3, <2>4, <2>5, <2>6 DEF Prune, Finalize
<1>3. CASE Repair
  <2>1. CASE \E d \in Days : \E contents \in [DOMAIN Baseline(d) -> Contents] :
                StartRepair(d, contents)
    BY <2>1, StartRepairHolds
  <2>2. CASE RepairConnectors \/ RepairDay \/ RepairScopes \/ RepairMonth
    BY <2>2, RepairConnectorsHolds, RepairDayHolds, RepairScopesHolds, RepairMonthHolds
  <2>3. CASE RepairYear \/ RepairRoot \/ RepairLatest
    BY <2>3, RepairYearHolds, RepairRootHolds, RepairLatestHolds
  <2> QED BY <1>3, <2>1, <2>2, <2>3 DEF Repair
<1>4. CASE Rebuild
  BY <1>4, StartRebuildHolds, RebuildMonthsHolds, RebuildYearsHolds, RebuildRootHolds
     DEF Rebuild
<1>5. CASE Abandon
  BY <1>5, RunEnds
<1> QED BY <1>1, <1>2, <1>3, <1>4, <1>5 DEF Next

(* The inductive invariant holds in every state of the history.            *)
THEOREM InvariantHolds == Spec => []IInv
<1>1. Init => IInv
  BY InitHolds
<1>2. IInv /\ [Next]_vars => IInv'
  BY StepHolds
<1> QED BY <1>1, <1>2, PTL DEF Spec

(* Whatever runs, repairs, rebuilds and failures left behind, every object *)
(* is a manifest of its level and the root and the index never vanish.     *)
THEOREM TypesHold == Spec => []TypeOK
<1>1. IInv => TypeOK
  BY DEF IInv
<1> QED BY <1>1, InvariantHolds, PTL

(* A connector-day whose gate was opened on this history stays there: the  *)
(* walk from the root never ends at a missing object, and the content is   *)
(* the one the finalisation vouched for.                                   *)
THEOREM FinalizedStays == Spec => []FinalizedIsKept
<1>1. IInv => FinalizedIsKept
  <2> SUFFICES ASSUME IInv, NEW u \in Units, acked[u] # None
               PROVE  /\ ~ Absent(u)
                      /\ conn[u] = acked[u] /\ Vouched(u) = acked[u]
    BY DEF FinalizedIsKept
  <2>1. conn[u] = acked[u] /\ Vouched(u) = acked[u]
    BY DEF IInv, AckedIsVouched
  <2>2. ~ Absent(u)
    BY <2>1, AbsentIsUnvouched
  <2> QED BY <2>1, <2>2
<1> QED BY <1>1, InvariantHolds, PTL

(* What the index lists of a day that is not under repair, the root        *)
(* vouches for with the same content, and its scope is there: a rebuild    *)
(* cannot drop it and a run that died cannot have indexed too early.       *)
THEOREM IndexIsBacked == Spec => []IndexFollowsRoot
<1>1. IInv => IndexFollowsRoot
  BY DEF IInv, IndexedIsConfirmed, IndexFollowsRoot
<1> QED BY <1>1, InvariantHolds, PTL

(* What a single step may do to the manifest of a connector-day the root   *)
(* vouches for.                                                            *)
LEMMA StepReplaces ==
    ASSUME IInv, [Next]_vars
    PROVE  \A u \in Units : Vouched(u) # None /\ conn'[u] # conn[u] => DayOf[u] \in withdrawn'
<1> SUFFICES ASSUME NEW u \in Units, Vouched(u) # None, conn'[u] # conn[u]
             PROVE  DayOf[u] \in withdrawn'
  OBVIOUS
<1>0. conn \in [Units -> Contents \cup {None}]
  BY DEF IInv, TypeOK
<1>1. CASE Prune
  <2>1. CASE \E x \in Units, c \in Contents : PublishConnector(x, c)
    <3>1. PICK x \in Units, c \in Contents : PublishConnector(x, c)
      BY <2>1
    <3>2. Vouched(x) = None
      BY <3>1, AbsentIsUnvouched DEF PublishConnector, Admissible
    <3> QED BY <1>0, <3>1, <3>2 DEF PublishConnector
  <2>2. CASE (\E d \in Days : StartBatch(d)) \/ PublishScope \/ CandidateFails \/ Finalize
    BY <2>2 DEF StartBatch, PublishScope, CandidateFails, Finalize, PublishDay, PublishYear,
                PublishRoot, PublishLatest, PublishMonth, FinalizationThrows,
                NothingPublished, leaves
  <2> QED BY <1>1, <2>1, <2>2 DEF Prune
<1>2. CASE Repair
  <2>1. CASE \E d \in Days : \E contents \in [DOMAIN Baseline(d) -> Contents] :
                StartRepair(d, contents)
    <3>1. PICK d \in Days : \E contents \in [DOMAIN Baseline(d) -> Contents] :
              StartRepair(d, contents)
      BY <2>1
    <3> QED BY <3>1 DEF StartRepair
  <2>2. CASE RepairConnectors
    <3>1. /\ IsDay(run.batch) /\ run.day \in withdrawn
          /\ \A x \in DOMAIN run.batch : DayOf[x] = run.day
      BY <2>2, RepairKnows DEF RepairConnectors, RepairSteps
    <3>2. u \notin DOMAIN run.batch => conn'[u] = conn[u]
      BY <1>0, <2>2, <3>1, OverUnits DEF RepairConnectors
    <3> QED BY <2>2, <3>1, <3>2 DEF RepairConnectors, history
  <2>3. CASE \/ RepairDay \/ RepairScopes \/ RepairMonth
             \/ RepairYear \/ RepairRoot \/ RepairLatest
    BY <2>3 DEF RepairDay, RepairScopes, RepairMonth, RepairYear, RepairRoot,
                RepairLatest, leaves
  <2> QED BY <1>2, <2>1, <2>2, <2>3 DEF Repair
<1>3. CASE Rebuild \/ Abandon
  BY <1>3 DEF Rebuild, StartRebuild, RebuildMonths, RebuildYears, RebuildRoot, Abandon, leaves
<1>4. CASE UNCHANGED vars
  BY <1>4 DEF vars
<1> QED BY <1>1, <1>2, <1>3, <1>4 DEF Next

(* Prune Daily never overwrites the manifest of a connector-day the root   *)
(* vouches for: only a repair of its day does.                             *)
THEOREM CommittedIsKept == Spec => CommittedNeverReplaced
<1>1. IInv /\ [Next]_vars =>
        [\A u \in Units :
            Vouched(u) # None /\ conn'[u] # conn[u] => DayOf[u] \in withdrawn']_vars
  BY StepReplaces
<1> QED BY <1>1, InvariantHolds, PTL DEF Spec, CommittedNeverReplaced

-----------------------------------------------------------------------------
(***************************************************************************)
(* The tree implements HistoryArchive.                                     *)
(***************************************************************************)
LEMMA ArchiveIs ==
    ASSUME TreeTyped
    PROVE  Archive \in [Units -> Contents \cup {None}]
<1> SUFFICES ASSUME NEW u \in Units, OfDay(day[DayOf[u]], u) = Vouched(u)
             PROVE  Vouched(u) \in Contents \cup {None}
  BY DEF Archive
<1>1. IsDay(day[DayOf[u]])
  BY Calendar DEF TreeTyped
<1> QED BY <1>1, DayHolds

LEMMA ArchiveIsAfter ==
    ASSUME TreeTyped'
    PROVE  Archive' \in [Units -> Contents \cup {None}]
<1> SUFFICES ASSUME NEW u \in Units, OfDay(day'[DayOf[u]], u) = Vouched(u)'
             PROVE  Vouched(u)' \in Contents \cup {None}
  BY DEF Archive
<1>1. IsDay(day'[DayOf[u]])
  BY Calendar DEF TreeTyped
<1> QED BY <1>1, DayHolds

(* The archived connector-days of a day that is not under repair.          *)
LEMMA ArchivedIsConfirmed ==
    ASSUME NEW u \in Units, DayOf[u] \notin withdrawn
    PROVE  Archive[u] # None <=> Confirmed(u)
BY DEF Archive, Confirmed, InDay

(* The initial tree is an archive.                                         *)
LEMMA ArchiveInit == Init => Promise!Init
<1> SUFFICES ASSUME Init PROVE Promise!Init
  OBVIOUS
<1>1. TreeTyped
  BY TypeInit, TypeParts
<1>2. withdrawn = {}
  BY DEF Init
<1> QED BY <1>1, <1>2, ArchiveIs DEF Promise!Init

(* A step that keeps what is committed may commit more.                    *)
LEMMA KeptIsCommit ==
    ASSUME IInv, IInv', CommittedStays
    PROVE  Promise!Commit
<1>1. Archive' \in [Units -> Contents \cup {None}]
  BY ArchiveIsAfter, TypeParts DEF IInv, TypeOK, TreeTyped
<1>2. ASSUME NEW u \in Units, Archive[u] # None, DayOf[u] \notin withdrawn
      PROVE  Archive'[u] = Archive[u]
  <2>1. Confirmed(u) /\ Archive[u] = Vouched(u)
    BY <1>2, ArchivedIsConfirmed DEF Archive
  <2>2. Vouched(u)' = Vouched(u) /\ InDay(u)' = Vouched(u)
    BY <2>1 DEF CommittedStays
  <2> QED BY <2>1, <2>2 DEF Archive, InDay
<1> QED BY <1>1, <1>2 DEF Promise!Commit, CommittedStays

(* A step that leaves the aggregates and the repairs alone is a stutter.   *)
LEMMA SameArchive ==
    ASSUME aggregates' = aggregates
    PROVE  Archive' = Archive
BY DEF aggregates, Archive, Vouched

(* Every step is a step of the archive or a stutter.                       *)
LEMMA ArchiveStep ==
    ASSUME IInv, [Next]_vars
    PROVE  Promise!Next \/ UNCHANGED <<Archive, withdrawn>>
<1>0. IInv'
  BY StepHolds
<1>1. CASE UNCHANGED vars
  BY <1>1, SameArchive DEF vars, aggregates
<1>2. CASE Prune
  <2>1. CASE PublishDay \/ PublishYear \/ PublishRoot
    <3>1. CommittedStays
      BY <2>1, PublishDayHolds, PublishYearHolds, PublishRootHolds
    <3> QED BY <1>0, <3>1, KeptIsCommit DEF Promise!Next
  <2>2. CASE \E listed \in SUBSET Days : PublishMonth(listed)
    <3>1. CommittedStays
      BY <2>2, PublishMonthHolds
    <3> QED BY <1>0, <3>1, KeptIsCommit DEF Promise!Next
  <2>3. CASE \/ \E d \in Days : StartBatch(d)
             \/ \E u \in Units, c \in Contents : PublishConnector(u, c)
             \/ PublishScope \/ CandidateFails \/ PublishLatest
             \/ FinalizationThrows \/ NothingPublished
    <3>1. aggregates' = aggregates /\ withdrawn' = withdrawn
      BY <2>3 DEF StartBatch, PublishConnector, PublishScope, CandidateFails, PublishLatest,
                  FinalizationThrows, NothingPublished, history
    <3> QED BY <3>1, SameArchive
  <2> QED BY <1>2, <2>1, <2>2, <2>3 DEF Prune, Finalize
<1>3. CASE Repair
  <2>1. CASE \E d \in Days : \E contents \in [DOMAIN Baseline(d) -> Contents] :
                StartRepair(d, contents)
    <3>1. PICK d \in Days : \E contents \in [DOMAIN Baseline(d) -> Contents] :
              StartRepair(d, contents)
      BY <2>1
    <3>2. Archive' = [u \in Units |-> IF DayOf[u] = d THEN None ELSE Archive[u]]
      <4>1. /\ day' = [day EXCEPT ![d] = Nothing] /\ root' = root /\ DOMAIN day = Days
        BY <3>1 DEF StartRepair, IInv, TypeOK
      <4>2. ASSUME NEW u \in Units
            PROVE  Archive'[u] = IF DayOf[u] = d THEN None ELSE Archive[u]
        <5>1. Vouched(u)' = Vouched(u) /\ DayOf[u] \in Days
          BY <4>1, Calendar DEF Vouched
        <5>2. OfDay(Nothing, u) = None
          BY NothingIsDay DEF OfDay
        <5> QED BY <4>1, <5>1, <5>2 DEF Archive
      <4> QED BY <4>2 DEF Archive
    <3>3. Promise!Withdraw(d)
      BY <3>1, <3>2 DEF StartRepair, Promise!Withdraw
    <3> QED BY <3>3 DEF Promise!Next
  <2>2. CASE RepairLatest
    <3>1. aggregates' = aggregates /\ withdrawn' = withdrawn \ {run.day}
      BY <2>2 DEF RepairLatest
    <3>2. run.day \in Days
      BY <2>2, RepairKnows DEF RepairLatest, RepairSteps
    <3>3. Promise!Restore(run.day)
      BY <3>1, SameArchive DEF Promise!Restore
    <3> QED BY <3>2, <3>3 DEF Promise!Next
  <2>3. CASE RepairDay \/ RepairMonth \/ RepairYear \/ RepairRoot
    <3>1. CommittedStays
      BY <2>3, RepairDayHolds, RepairMonthHolds, RepairYearHolds, RepairRootHolds
    <3> QED BY <1>0, <3>1, KeptIsCommit DEF Promise!Next
  <2>4. CASE RepairConnectors \/ RepairScopes
    <3>1. aggregates' = aggregates /\ withdrawn' = withdrawn
      BY <2>4 DEF RepairConnectors, RepairScopes, history
    <3> QED BY <3>1, SameArchive
  <2> QED BY <1>3, <2>1, <2>2, <2>3, <2>4 DEF Repair
<1>4. CASE Rebuild
  <2>1. CASE RebuildMonths \/ RebuildYears \/ RebuildRoot
    <3>1. CommittedStays
      BY <2>1, RebuildMonthsHolds, RebuildYearsHolds, RebuildRootHolds
    <3> QED BY <1>0, <3>1, KeptIsCommit DEF Promise!Next
  <2>2. CASE StartRebuild
    <3>1. aggregates' = aggregates /\ withdrawn' = withdrawn
      BY <2>2 DEF StartRebuild, history
    <3> QED BY <3>1, SameArchive
  <2> QED BY <1>4, <2>1, <2>2 DEF Rebuild
<1>5. CASE Abandon
  BY <1>5, SameArchive DEF Abandon, history
<1> QED BY <1>1, <1>2, <1>3, <1>4, <1>5 DEF Next

(* What was once committed stays, through interrupted runs, repairs of     *)
(* other days and rebuilds of the aggregates: Prune Daily may treat the    *)
(* tree as the archive it deletes against.                                 *)
THEOREM ArchiveKeepsItsPromise == Spec => ImplementsArchive
<1>1. Init => Promise!Init
  BY ArchiveInit
<1>2. IInv /\ [Next]_vars => [Promise!Next]_<<Archive, withdrawn>>
  BY ArchiveStep
<1> QED
  BY <1>1, <1>2, InvariantHolds, PTL DEF Spec, ImplementsArchive, Promise!Spec
=============================================================================
