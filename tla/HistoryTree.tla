---------------------------- MODULE HistoryTree ----------------------------
(***************************************************************************)
(* The observation history in R2: the manifests of connector-days, days,   *)
(* months, years and the root, each pinning its children by hash, and the  *)
(* index_v3 latest object that pins the scoped index of connector-days.    *)
(*                                                                         *)
(* Prune Daily publishes a batch of connector-days of one UTC day from the *)
(* bottom up, one PUT after another, and may die between two of them.  The *)
(* History integrity repair replaces a whole day, and an operator's tool   *)
(* rebuilds the aggregates.  The global operation lock keeps them apart.   *)
(*                                                                         *)
(* A hash is modelled by what it hashes: a day is the function from its    *)
(* connectors to their contents, a month the function from its days to     *)
(* days, and so on.  An aggregate without children does not exist.         *)
(***************************************************************************)
EXTENDS Integers

CONSTANTS
    Units,                  \* connector-days
    Days, DayOf,            \* UTC days
    Months, MonthOf,        \* months
    Years, YearOf,          \* years
    Contents, None,         \* what a connector's manifest describes
    Committed,              \* the history before the first modelled run
    MaxRuns, MaxRepairs, MaxRebuilds, MaxFaults     \* bounds of the model

ASSUME CalendarAssumption ==
    /\ DayOf \in [Units -> Days]
    /\ MonthOf \in [Days -> Months]
    /\ YearOf \in [Months -> Years]
ASSUME ContentsAssumption == None \notin Contents
ASSUME CommittedAssumption ==
    /\ DOMAIN Committed \in (SUBSET Units) \ {{}}
    /\ \A u \in DOMAIN Committed : Committed[u] \in Contents

VARIABLES
    conn,           \* connector manifest of each connector-day
    scoped,         \* its scoped index_v3 manifest
    day, month, year, root,     \* the other manifests
    latest,         \* the index_v3 latest object
    run,            \* the process that holds the global lock
    acked,          \* history: content a finished finalisation vouched for
    withdrawn,      \* history: days a repair took down and did not restore
    used            \* counters of the model's bounds

leaves == <<conn, scoped>>
aggregates == <<day, month, year, root>>
history == <<acked, withdrawn>>
vars == <<conn, scoped, day, month, year, root, latest, run, acked, withdrawn, used>>

-----------------------------------------------------------------------------
(***************************************************************************)
(* The tree.                                                               *)
(***************************************************************************)
(* A map with the entries of f, and those of g beside them.                *)
Over(f, g) ==
    [x \in DOMAIN f \cup DOMAIN g |-> IF x \in DOMAIN f THEN f[x] ELSE g[x]]

Only(x, c) == [y \in {x} |-> c]
Nothing == [u \in {} |-> None]
Empty(f) == DOMAIN f = {}

MonthFor(u) == MonthOf[DayOf[u]]
YearFor(u) == YearOf[MonthFor(u)]

(* What a manifest of each level holds for a connector-day, in the day     *)
(* below it, the month below it, and so on.                                *)
OfDay(f, u) == IF u \in DOMAIN f THEN f[u] ELSE None
OfMonth(f, u) == IF DayOf[u] \in DOMAIN f THEN OfDay(f[DayOf[u]], u) ELSE None
OfYear(f, u) == IF MonthFor(u) \in DOMAIN f THEN OfMonth(f[MonthFor(u)], u) ELSE None
OfRoot(f, u) == IF YearFor(u) \in DOMAIN f THEN OfYear(f[YearFor(u)], u) ELSE None

(* What the root vouches for, whatever became of the objects below it.     *)
Vouched(u) == OfRoot(root, u)
Catalogue == [u \in {x \in Units : Vouched(x) # None} |-> Vouched(u)]

(* Group children under their parents: units into days, days into months.  *)
Grouped(f, Parents, ParentOf) ==
    [p \in Parents |-> [x \in {c \in DOMAIN f : ParentOf[c] = p} |-> f[x]]]

NonEmpty(f) == [x \in {y \in DOMAIN f : ~ Empty(f[y])} |-> f[x]]

MonthsOf(days) == Grouped(NonEmpty(days), Months, MonthOf)
YearsOf(months) == Grouped(NonEmpty(months), Years, YearOf)

(* A reference to an object, and the object that is there now.             *)
Reference(parent, x, object) ==
    IF x \notin DOMAIN parent THEN "absent"
    ELSE IF parent[x] = object THEN "held" ELSE "torn"

(* The references a walk from the root to a connector-day follows.         *)
Path(u) ==
    LET y == YearFor(u)  m == MonthFor(u)  d == DayOf[u]
    IN <<Reference(root, y, year[y]), Reference(year[y], m, month[m]),
         Reference(month[m], d, day[d]), Reference(day[d], u, conn[u])>>

(* Mutated form: a level whose pinned identity disagrees reads as absent.  *)
AbsentIgnoringPins(u) == \E n \in 1..4 : Path(u)[n] # "held"

(* inspectPruneFrozenConnectorSnapshot follows every reference and checks  *)
(* what it pins: nothing was published if the first one that does not hold *)
(* is not there at all.                                                    *)
Absent(u) ==
    \E n \in 1..4 : Path(u)[n] = "absent" /\ \A k \in 1..(n - 1) : Path(u)[k] = "held"

(* Prune's committed_history_guard: only a connector-day that neither the  *)
(* tree nor the index knows is published.                                  *)
Admissible(u) == Absent(u) /\ u \notin DOMAIN latest

-----------------------------------------------------------------------------
Idle == [pc |-> "idle", day |-> None, batch |-> Nothing, unit |-> None]

Init ==
    LET days == Grouped(Committed, Days, DayOf)
        months == MonthsOf(days)
        years == YearsOf(months)
    IN /\ conn = [u \in Units |-> OfDay(Committed, u)]
       /\ scoped = conn
       /\ day = days
       /\ month = months
       /\ year = years
       /\ root = NonEmpty(years)
       /\ latest = Committed
       /\ run = Idle
       /\ acked = conn
       /\ withdrawn = {}
       /\ used = [runs |-> 0, repairs |-> 0, rebuilds |-> 0, faults |-> 0]

Uses(counter, bound) ==
    /\ used[counter] < bound
    /\ used' = [used EXCEPT ![counter] = @ + 1]

Goes(pc) == run' = [run EXCEPT !.pc = pc]

-----------------------------------------------------------------------------
(***************************************************************************)
(* Prune Daily publishes a batch and finalises it.                         *)
(***************************************************************************)
StartBatch(d) ==
    /\ run.pc = "idle"
    /\ Uses("runs", MaxRuns)
    /\ run' = [Idle EXCEPT !.pc = "publish", !.day = d]
    /\ UNCHANGED <<leaves, aggregates, latest, history>>

(* The guard, then the pollutant and connector manifests: a complete       *)
(* snapshot that does not look at what is there.                           *)
PublishConnector(u, c) ==
    /\ run.pc = "publish" /\ DayOf[u] = run.day
    /\ u \notin DOMAIN run.batch
    /\ Admissible(u)
    /\ conn' = [conn EXCEPT ![u] = c]
    /\ run' = [run EXCEPT !.pc = "scope", !.unit = u]
    /\ UNCHANGED <<scoped, aggregates, latest, history, used>>

(* The scoped index; only now the connector-day joins the batch.           *)
PublishScope ==
    LET u == run.unit
    IN /\ run.pc = "scope"
       /\ scoped' = [scoped EXCEPT ![u] = conn[u]]
       /\ run' = [run EXCEPT !.pc = "publish", !.unit = None,
                             !.batch = Over(Only(u, conn[u]), @)]
       /\ UNCHANGED <<conn, aggregates, latest, history, used>>

(* A candidate fails between the two: it is marked failed, its objects     *)
(* stay, and the run goes on with the next.                                *)
CandidateFails ==
    /\ run.pc = "scope"
    /\ Uses("faults", MaxFaults)
    /\ run' = [run EXCEPT !.pc = "publish", !.unit = None]
    /\ UNCHANGED <<leaves, aggregates, latest, history>>

(* Connectors the live day manifest lists and this run did not publish.    *)
Peers == DOMAIN day[run.day] \ DOMAIN run.batch

PeersAgree == \A u \in Peers : conn[u] = day[run.day][u]

(* Mutated form: the day manifest holds this run's connectors alone.       *)
PublishDayAlone ==
    /\ run.pc = "publish" /\ ~ Empty(run.batch)
    /\ day' = [day EXCEPT ![run.day] = run.batch]
    /\ Goes("month")
    /\ UNCHANGED <<leaves, month, year, root, latest, history, used>>

(* The day manifest keeps its unchanged connectors, after checking them,   *)
(* and takes this run's.                                                   *)
PublishDay ==
    /\ run.pc = "publish" /\ ~ Empty(run.batch)
    /\ PeersAgree
    /\ day' = [day EXCEPT ![run.day] = Over(run.batch, @)]
    /\ Goes("month")
    /\ UNCHANGED <<leaves, month, year, root, latest, history, used>>

HasPrefix(d) == ~ Empty(day[d]) \/ \E u \in Units : DayOf[u] = d /\ conn[u] # None

(* The day manifests a month must have, and those a LIST finds beside them.*)
Required(m) == DOMAIN month[m] \cup {run.day}
Listable(m) == {d \in Days : MonthOf[d] = m /\ HasPrefix(d)}

RequiredPresent(m) == \A d \in Required(m) : ~ Empty(day[d])

(* Mutated form: the children of a month are the days a LIST returns.      *)
PublishListedMonth(listed) ==
    LET m == MonthOf[run.day]
        days == {d \in listed \cup {run.day} : ~ Empty(day[d])}
    IN /\ run.pc = "month"
       /\ listed \subseteq Listable(m)
       /\ month' = [month EXCEPT ![m] = [d \in days |-> day[d]]]
       /\ Goes("year")
       /\ UNCHANGED <<leaves, day, year, root, latest, history, used>>

PublishMonth(listed) ==
    LET m == MonthOf[run.day]
        days == {d \in Required(m) \cup listed : ~ Empty(day[d])}
    IN /\ run.pc = "month"
       /\ listed \subseteq Listable(m)
       /\ RequiredPresent(m)
       /\ month' = [month EXCEPT ![m] = [d \in days |-> day[d]]]
       /\ Goes("year")
       /\ UNCHANGED <<leaves, day, year, root, latest, history, used>>

RunMonth == MonthOf[run.day]
RunYear == YearOf[RunMonth]

(* The other months of the year must be as the year pins them.             *)
SiblingMonthsAgree ==
    \A m \in DOMAIN year[RunYear] \ {RunMonth} : month[m] = year[RunYear][m]

PublishYear ==
    /\ run.pc = "year"
    /\ SiblingMonthsAgree
    /\ year' = [year EXCEPT ![RunYear] = Over(Only(RunMonth, month[RunMonth]), @)]
    /\ Goes("root")
    /\ UNCHANGED <<leaves, day, month, root, latest, history, used>>

SiblingYearsAgree == \A y \in DOMAIN root \ {RunYear} : year[y] = root[y]

(* Mutated form: the root is left to a later finalisation.                 *)
PublishRootLater ==
    /\ run.pc = "root"
    /\ Goes("latest")
    /\ UNCHANGED <<leaves, aggregates, latest, history, used>>

PublishRoot ==
    /\ run.pc = "root"
    /\ SiblingYearsAgree
    /\ root' = Over(Only(RunYear, year[RunYear]), root)
    /\ Goes("latest")
    /\ UNCHANGED <<leaves, day, month, year, latest, history, used>>

(* Every scope latest pins must still be there; one that is not is taken   *)
(* as it is now if the connector manifest accounts for it.                 *)
Stale == {u \in DOMAIN latest \ DOMAIN run.batch : scoped[u] # latest[u]}

Recoverable == \A u \in Stale : scoped[u] # None /\ scoped[u] = conn[u]

PublishLatest ==
    /\ run.pc = "latest"
    /\ Recoverable
    /\ latest' = Over(run.batch, Over([u \in Stale |-> scoped[u]], latest))
    /\ acked' = Over(run.batch, acked)
    /\ run' = Idle
    /\ UNCHANGED <<leaves, aggregates, withdrawn, used>>

(* A check of the finalisation throws; the batch is marked failed and the  *)
(* run ends.                                                               *)
FinalizationThrows ==
    /\ \/ run.pc = "publish" /\ ~ Empty(run.batch) /\ ~ PeersAgree
       \/ run.pc = "month" /\ ~ RequiredPresent(RunMonth)
       \/ run.pc = "year" /\ ~ SiblingMonthsAgree
       \/ run.pc = "root" /\ ~ SiblingYearsAgree
       \/ run.pc = "latest" /\ ~ Recoverable
    /\ run' = Idle
    /\ UNCHANGED <<leaves, aggregates, latest, history, used>>

(* Nothing was admitted.                                                   *)
NothingPublished ==
    /\ run.pc = "publish" /\ Empty(run.batch)
    /\ run' = Idle
    /\ UNCHANGED <<leaves, aggregates, latest, history, used>>

(* The process dies, its budget ends or R2 refuses a call; the lock is     *)
(* released and the objects stay as they are.                              *)
Abandon ==
    /\ run.pc # "idle"
    /\ Uses("faults", MaxFaults)
    /\ run' = Idle
    /\ UNCHANGED <<leaves, aggregates, latest, history>>

-----------------------------------------------------------------------------
(***************************************************************************)
(* The History integrity repair of a day: a proposal frozen from a backup  *)
(* whose root is the live root, applied without reading R2 again.          *)
(***************************************************************************)
Baseline(d) == [u \in {x \in DOMAIN Catalogue : DayOf[x] = d} |-> Catalogue[u]]

(* The backup takes a day only as the root pins it, and until a repair     *)
(* deletes the day, publications only add connector-days to it.            *)
Backed ==
    \A u \in DOMAIN Catalogue : DayOf[u] \notin withdrawn =>
        OfDay(day[DayOf[u]], u) = Vouched(u)

StartRepair(d, contents) ==
    /\ run.pc = "idle"
    /\ Uses("repairs", MaxRepairs)
    /\ Backed
    /\ DOMAIN contents = DOMAIN Baseline(d) /\ ~ Empty(contents)
    /\ conn' = [u \in Units |-> IF DayOf[u] = d THEN None ELSE conn[u]]
    /\ day' = [day EXCEPT ![d] = Nothing]
    /\ acked' = [u \in Units |-> IF DayOf[u] = d THEN None ELSE acked[u]]
    /\ withdrawn' = withdrawn \cup {d}
    /\ run' = [Idle EXCEPT !.pc = "repair_connectors", !.day = d, !.batch = contents]
    /\ UNCHANGED <<scoped, month, year, root, latest>>

RepairConnectors ==
    /\ run.pc = "repair_connectors"
    /\ conn' = Over(run.batch, conn)
    /\ Goes("repair_day")
    /\ UNCHANGED <<scoped, aggregates, latest, history, used>>

RepairDay ==
    /\ run.pc = "repair_day"
    /\ day' = [day EXCEPT ![run.day] = run.batch]
    /\ Goes("repair_scopes")
    /\ UNCHANGED <<leaves, month, year, root, latest, history, used>>

(* What the repaired tree will vouch for.                                  *)
Target == Over(run.batch, Catalogue)

(* The planner keeps the index of other days if latest accounts for them,  *)
(* and rebuilds all of it otherwise.                                       *)
IndexAccounts ==
    \A u \in Units : DayOf[u] # run.day => OfDay(latest, u) = Vouched(u)

RepairScopes ==
    /\ run.pc = "repair_scopes"
    /\ scoped' = Over(IF IndexAccounts THEN run.batch ELSE Target, scoped)
    /\ Goes("repair_month")
    /\ UNCHANGED <<conn, aggregates, latest, history, used>>

RepairMonth ==
    /\ run.pc = "repair_month"
    /\ month' = [month EXCEPT ![RunMonth] =
                    [root[RunYear][RunMonth] EXCEPT ![run.day] = run.batch]]
    /\ Goes("repair_year")
    /\ UNCHANGED <<leaves, day, year, root, latest, history, used>>

RepairYear ==
    /\ run.pc = "repair_year"
    /\ year' = [year EXCEPT ![RunYear] =
                    [root[RunYear] EXCEPT ![RunMonth] = month[RunMonth]]]
    /\ Goes("repair_root")
    /\ UNCHANGED <<leaves, day, month, root, latest, history, used>>

RepairRoot ==
    /\ run.pc = "repair_root"
    /\ root' = [root EXCEPT ![RunYear] = year[RunYear]]
    /\ Goes("repair_latest")
    /\ UNCHANGED <<leaves, day, month, year, latest, history, used>>

RepairLatest ==
    /\ run.pc = "repair_latest"
    /\ latest' = Target
    /\ acked' = Over(run.batch, acked)
    /\ withdrawn' = withdrawn \ {run.day}
    /\ run' = Idle
    /\ UNCHANGED <<leaves, aggregates, used>>

-----------------------------------------------------------------------------
(***************************************************************************)
(* The operator's tool rebuilds months, years and the root from every day  *)
(* prefix it lists; one without a manifest stops it.                       *)
(***************************************************************************)
StartRebuild ==
    /\ run.pc = "idle"
    /\ Uses("rebuilds", MaxRebuilds)
    /\ \A d \in Days : HasPrefix(d) => ~ Empty(day[d])
    /\ \E d \in Days : ~ Empty(day[d])
    /\ Goes("rebuild_months")
    /\ UNCHANGED <<leaves, aggregates, latest, history>>

(* A month that lost its last day is left where it is.                     *)
RebuildMonths ==
    /\ run.pc = "rebuild_months"
    /\ month' = Over(NonEmpty(MonthsOf(day)), month)
    /\ Goes("rebuild_years")
    /\ UNCHANGED <<leaves, day, year, root, latest, history, used>>

RebuildYears ==
    /\ run.pc = "rebuild_years"
    /\ year' = Over(NonEmpty(YearsOf(MonthsOf(day))), year)
    /\ Goes("rebuild_root")
    /\ UNCHANGED <<leaves, day, month, root, latest, history, used>>

RebuildRoot ==
    /\ run.pc = "rebuild_root"
    /\ root' = NonEmpty(YearsOf(MonthsOf(day)))
    /\ run' = Idle
    /\ UNCHANGED <<leaves, day, month, year, latest, history, used>>

-----------------------------------------------------------------------------
Finalize ==
    \/ PublishDay \/ PublishYear \/ PublishRoot \/ PublishLatest
    \/ \E listed \in SUBSET Days : PublishMonth(listed)
    \/ FinalizationThrows \/ NothingPublished

Prune ==
    \/ \E d \in Days : StartBatch(d)
    \/ \E u \in Units, c \in Contents : PublishConnector(u, c)
    \/ PublishScope \/ CandidateFails \/ Finalize

Repair ==
    \/ \E d \in Days : \E contents \in [DOMAIN Baseline(d) -> Contents] :
        StartRepair(d, contents)
    \/ RepairConnectors \/ RepairDay \/ RepairScopes \/ RepairMonth
    \/ RepairYear \/ RepairRoot \/ RepairLatest

Rebuild == StartRebuild \/ RebuildMonths \/ RebuildYears \/ RebuildRoot

Next == Prune \/ Repair \/ Rebuild \/ Abandon

Spec == Init /\ [][Next]_vars

-----------------------------------------------------------------------------
(***************************************************************************)
(* Properties.                                                             *)
(***************************************************************************)
IsTree(f, S, IsChild(_)) == DOMAIN f \in SUBSET S /\ \A x \in DOMAIN f : IsChild(f[x])
IsDay(f) == IsTree(f, Units, LAMBDA c : c \in Contents)
IsMonth(f) == IsTree(f, Days, LAMBDA d : ~ Empty(d) /\ IsDay(d))
IsYear(f) == IsTree(f, Months, LAMBDA m : ~ Empty(m) /\ IsMonth(m))

PruneSteps == {"publish", "scope", "month", "year", "root", "latest"}
RepairSteps == {"repair_connectors", "repair_day", "repair_scopes",
                "repair_month", "repair_year", "repair_root", "repair_latest"}
RebuildSteps == {"rebuild_months", "rebuild_years", "rebuild_root"}

(* Every object is a manifest of its level, the root and latest never      *)
(* vanish, and a batch holds connector-days of its own day.                *)
TypeOK ==
    /\ conn \in [Units -> Contents \cup {None}]
    /\ scoped \in [Units -> Contents \cup {None}]
    /\ DOMAIN day = Days /\ \A d \in Days : IsDay(day[d])
    /\ DOMAIN month = Months /\ \A m \in Months : IsMonth(month[m])
    /\ DOMAIN year = Years /\ \A y \in Years : IsYear(year[y])
    /\ ~ Empty(root) /\ IsTree(root, Years, LAMBDA y : ~ Empty(y) /\ IsYear(y))
    /\ ~ Empty(latest) /\ IsDay(latest)
    /\ run.pc \in {"idle"} \cup PruneSteps \cup RepairSteps \cup RebuildSteps
    /\ IsDay(run.batch) /\ \A u \in DOMAIN run.batch : DayOf[u] = run.day
    /\ acked \in [Units -> Contents \cup {None}]
    /\ withdrawn \in SUBSET Days

(* A connector-day whose gate was opened on this history is still there:   *)
(* whoever walks down to it finds the content that was vouched for, or a   *)
(* pinned hash that disagrees, never nothing and never another content.    *)
FinalizedIsKept ==
    \A u \in Units : acked[u] # None =>
        /\ ~ Absent(u)
        /\ conn[u] = acked[u]
        /\ Vouched(u) = acked[u]

(* Outside a repair the index never runs ahead of the tree: what latest    *)
(* lists the root vouches for, with the same content.                      *)
IndexFollowsRoot ==
    \A u \in DOMAIN latest : DayOf[u] \notin withdrawn =>
        latest[u] = Vouched(u) /\ scoped[u] = latest[u]

(* Prune Daily never overwrites the manifest of a connector-day the root   *)
(* vouches for, not even where an interrupted run left the tree torn.      *)
CommittedNeverReplaced ==
    [][\A u \in Units :
        Vouched(u) # None /\ conn'[u] # conn[u] => DayOf[u] \in withdrawn']_vars

(* The history a reader who checks the pins can take for committed: what   *)
(* the root vouches for, as the manifest of the day has it.                *)
Archive ==
    [u \in Units |-> IF OfDay(day[DayOf[u]], u) = Vouched(u) THEN Vouched(u) ELSE None]

(* The tree implements the archive Prune Daily takes it for: what was once *)
(* committed stays, through interrupted runs, repairs of other days and    *)
(* rebuilds of the aggregates.                                             *)
Promise == INSTANCE HistoryArchive WITH archive <- Archive

ImplementsArchive == Promise!Spec
=============================================================================
