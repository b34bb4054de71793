------------------------ MODULE DropboxBackupProofs ------------------------
(***************************************************************************)
(* The safety of the backup, for any calendar, history of versions,        *)
(* settings, interruptions and failures.                                   *)
(***************************************************************************)
EXTENDS DropboxBackupInv, WellFoundedInduction, NaturalsInduction, TLAPS

-----------------------------------------------------------------------------
(* Constants.                                                              *)
LEMMA Calendar ==
    /\ Days \subseteq Nat /\ Months \subseteq Nat /\ Years \subseteq Nat
    /\ \A d \in Days : MonthOf[d] \in Months
    /\ \A m \in Months : YearOf[m] \in Years
BY CalendarAssumption DEF Months, Years

LEMMA Numbers ==
    /\ MaxVersion \in Nat
    /\ Versions = 1..MaxVersion /\ Absent = 0
    /\ Versions \subseteq 0..MaxVersion
    /\ \A v \in Versions : ParquetOf[v] \in Nat \ {0}
    /\ \A v, w \in Versions : v <= w => ParquetOf[v] <= ParquetOf[w]
    /\ Files \subseteq Nat
BY SettingsAssumption, ParquetAssumption DEF Versions, Absent, Files

(* Least gives the least number of a non-empty set.                        *)
LEMMA LeastIn ==
    ASSUME NEW S \in SUBSET Nat, S # {}
    PROVE  Least(S) \in S
<1> DEFINE R == OpToRel(<, Nat)
<1>1. IsWellFoundedOn(R, Nat)
      BY NatLessThanWellFounded
<1>2. PICK x \in S : \A y \in S : ~ (<<y, x>> \in R)
      <2> HIDE DEF R
      <2> QED BY <1>1, WFMin
<1>3. \A y \in S : x <= y
      <2> SUFFICES ASSUME NEW y \in S PROVE x <= y
          OBVIOUS
      <2>1. x \in Nat /\ y \in Nat
            OBVIOUS
      <2>2. ~ (y < x)
            BY <1>2, <2>1 DEF OpToRel
      <2> HIDE DEF R
      <2> QED BY <2>1, <2>2
<1> HIDE DEF R
<1> QED BY <1>3 DEF Least

-----------------------------------------------------------------------------
(* Hashes are the lists they stand for.                                    *)
LEMMA ListedIs ==
    ASSUME NEW f \in Trees, NEW S \in SUBSET Days
    PROVE  /\ Listed(f, S) \in Lists
           /\ Listed(f, S) # NoHash
           /\ DOMAIN Listed(f, S) = {d \in S : f[d] # Absent}
           /\ \A d \in S : f[d] # Absent => Listed(f, S)[d] = f[d]
<1> DEFINE D == {e \in S : f[e] # Absent}
<1>1. D \in SUBSET Days
      OBVIOUS
<1>2. \A d \in D : f[d] \in Versions
      BY Numbers DEF Trees, Versions, Absent
<1>3. Listed(f, S) = [d \in D |-> f[d]]
      BY DEF Listed
<1>4. [d \in D |-> f[d]] \in [D -> Versions]
      <2> HIDE DEF D
      <2> QED BY <1>2
<1>5. Listed(f, S) \in Lists
      <2> HIDE DEF D
      <2> QED BY <1>1, <1>3, <1>4 DEF Lists
<1>6. [D -> Versions] \subseteq [D -> 0..MaxVersion]
      <2> HIDE DEF D
      <2> QED BY Numbers
<1>7. Listed(f, S) # NoHash
      <2> HIDE DEF D
      <2> QED BY <1>1, <1>3, <1>4, <1>6, NoHashAssumption
<1> QED BY <1>3, <1>5, <1>7

LEMMA SameLists ==
    ASSUME NEW f \in Trees, NEW g \in Trees, NEW S \in SUBSET Days,
           Listed(f, S) = Listed(g, S), NEW d \in S
    PROVE  f[d] = g[d]
<1>1. CASE f[d] = Absent
      <2>1. d \notin DOMAIN Listed(f, S)
            BY <1>1, ListedIs
      <2>2. d \notin DOMAIN Listed(g, S)
            BY <2>1
      <2>3. g[d] = Absent
            BY <2>2, ListedIs
      <2> QED BY <1>1, <2>3
<1>2. CASE f[d] # Absent
      <2>1. d \in DOMAIN Listed(f, S) /\ Listed(f, S)[d] = f[d]
            BY <1>2, ListedIs
      <2>2. d \in DOMAIN Listed(g, S) /\ Listed(g, S)[d] = f[d]
            BY <2>1
      <2>3. DOMAIN Listed(g, S) = {e \in S : g[e] # Absent}
            BY ListedIs
      <2>4. g[d] # Absent
            BY <2>2, <2>3
      <2> QED BY <2>2, <2>4, ListedIs
<1> QED BY <1>1, <1>2

LEMMA EqualLists ==
    ASSUME NEW f \in Trees, NEW g \in Trees, NEW S \in SUBSET Days,
           \A d \in S : f[d] = g[d]
    PROVE  Listed(f, S) = Listed(g, S)
<1>1. {d \in S : f[d] # Absent} = {d \in S : g[d] # Absent}
      OBVIOUS
<1> QED BY <1>1 DEF Listed

LEMMA MonthHashIs ==
    ASSUME NEW f \in Trees, NEW m \in Months
    PROVE  /\ MonthHash(f, m) \in Lists /\ MonthHash(f, m) # NoHash
           /\ DOMAIN MonthHash(f, m) = {d \in DaysOf(m) : f[d] # Absent}
           /\ \A d \in DaysOf(m) : f[d] # Absent => MonthHash(f, m)[d] = f[d]
<1>1. DaysOf(m) \in SUBSET Days
      BY DEF DaysOf
<1> QED BY <1>1, ListedIs DEF MonthHash

LEMMA YearHashIs ==
    ASSUME NEW f \in Trees, NEW y \in Years
    PROVE  /\ YearHash(f, y) \in Lists /\ YearHash(f, y) # NoHash
           /\ DOMAIN YearHash(f, y) =
                {d \in Days : YearOf[MonthOf[d]] = y /\ f[d] # Absent}
           /\ \A d \in Days : YearOf[MonthOf[d]] = y /\ f[d] # Absent
                => YearHash(f, y)[d] = f[d]
<1> DEFINE S == {d \in Days : YearOf[MonthOf[d]] = y}
<1>1. S \in SUBSET Days /\ YearHash(f, y) = Listed(f, S)
      BY DEF YearHash
<1>2. {d \in S : f[d] # Absent} =
        {d \in Days : YearOf[MonthOf[d]] = y /\ f[d] # Absent}
      OBVIOUS
<1>3. \A d \in Days : YearOf[MonthOf[d]] = y => d \in S
      OBVIOUS
<1> HIDE DEF S
<1>4. /\ Listed(f, S) \in Lists /\ Listed(f, S) # NoHash
      /\ DOMAIN Listed(f, S) = {d \in S : f[d] # Absent}
      /\ \A d \in S : f[d] # Absent => Listed(f, S)[d] = f[d]
      BY <1>1, ListedIs
<1>5. DOMAIN YearHash(f, y) =
        {d \in Days : YearOf[MonthOf[d]] = y /\ f[d] # Absent}
      BY <1>1, <1>2, <1>4
<1>6. \A d \in Days : YearOf[MonthOf[d]] = y /\ f[d] # Absent
        => YearHash(f, y)[d] = f[d]
      BY <1>1, <1>3, <1>4
<1> QED BY <1>1, <1>4, <1>5, <1>6

(* A year's hash fixes those of its months.                                *)
LEMMA MonthsOfYear ==
    ASSUME NEW f \in Trees, NEW g \in Trees, NEW y \in Years,
           YearHash(f, y) = YearHash(g, y),
           NEW m \in Months, YearOf[m] = y
    PROVE  /\ MonthHash(f, m) = MonthHash(g, m)
           /\ m \in MonthsIn(f) => m \in MonthsIn(g)
<1> DEFINE S == {d \in Days : YearOf[MonthOf[d]] = y}
<1>1. S \in SUBSET Days /\ Listed(f, S) = Listed(g, S)
      BY DEF YearHash
<1>2. DaysOf(m) \subseteq S /\ DaysOf(m) \in SUBSET Days
      BY DEF DaysOf
<1>3. \A d \in DaysOf(m) : f[d] = g[d]
      <2> HIDE DEF S
      <2> QED BY <1>1, <1>2, SameLists
<1>4. MonthHash(f, m) = MonthHash(g, m)
      BY <1>2, <1>3, EqualLists DEF MonthHash
<1>5. m \in MonthsIn(f) => m \in MonthsIn(g)
      BY <1>3 DEF MonthsIn, DaysOf
<1> QED BY <1>4, <1>5

-----------------------------------------------------------------------------
(* What a step may do to R2 and to the tree on Dropbox without undoing a   *)
(* record.                                                                 *)
Worlds == [live : Trees, newest : Trees, reverted : SUBSET Days,
           copy : [Days -> [manifest : 0..MaxVersion, parquet : Files]],
           tops : [months : [Months -> Hashes], years : [Years -> Hashes],
                   root : RootHashes, latest : RootHashes]]

MonthKept(w, x) ==
    \A m \in Months, h \in Lists :
        /\ \A d \in DOMAIN h : h[d] <= w.newest[d]
        /\ x.reverted \intersect DaysOf(m) = {}
        /\ h = MonthHash(x.live, m)
        => \/ h = MonthHash(w.live, m) /\ x.tops.months[m] = w.tops.months[m]
           \/ x.tops.months[m] = h

YearKept(w, x) ==
    \A y \in Years, h \in Lists :
        /\ \A d \in DOMAIN h : h[d] <= w.newest[d]
        /\ x.reverted = {}
        /\ h = YearHash(x.live, y)
        => \/ h = YearHash(w.live, y) /\ x.tops.years[y] = w.tops.years[y]
           \/ x.tops.years[y] = h

RootKept(w, x) ==
    \A f \in Trees :
        /\ \A d \in Days : f[d] <= w.newest[d]
        /\ x.reverted = {}
        /\ f = x.live
        => \/ f = w.live /\ x.tops.root = w.tops.root
           \/ x.tops.root = f

Keeps(w, x) ==
    /\ \A d \in Days : w.newest[d] <= x.newest[d]
    /\ w.reverted \subseteq x.reverted
    /\ \A d \in Days \ x.reverted :
          /\ w.copy[d].manifest <= x.copy[d].manifest
          /\ w.copy[d].parquet <= x.copy[d].parquet
    /\ MonthKept(w, x) /\ YearKept(w, x) /\ RootKept(w, x)

LEMMA CopyNumbers ==
    ASSUME NEW w \in Worlds
    PROVE  \A d \in Days : /\ w.copy[d].manifest \in Nat
                           /\ w.copy[d].parquet \in Nat
                           /\ w.copy[d].manifest <= w.copy[d].manifest
                           /\ w.copy[d].parquet <= w.copy[d].parquet
<1> SUFFICES ASSUME NEW d \in Days
             PROVE  w.copy[d].manifest \in Nat /\ w.copy[d].parquet \in Nat
    OBVIOUS
<1>1. w.copy[d] \in [manifest : 0..MaxVersion, parquet : Files]
      BY DEF Worlds
<1>2. 0..MaxVersion \subseteq Nat /\ Files \subseteq Nat
      BY Numbers
<1>3. w.copy[d].manifest \in 0..MaxVersion /\ w.copy[d].parquet \in Files
      BY <1>1
<1> QED BY <1>2, <1>3

LEMMA NewestNumbers ==
    ASSUME NEW w \in Worlds
    PROVE  \A d \in Days : w.newest[d] \in Nat /\ w.newest[d] <= w.newest[d]
<1>1. \A d \in Days : w.newest[d] \in Nat
      BY Numbers DEF Worlds, Trees
<1> QED BY <1>1

LEMMA RecordedKept ==
    ASSUME NEW w \in Worlds, NEW x \in Worlds, Keeps(w, x),
           NEW S \in SUBSET Days, NEW f, \A d \in S : f[d] \in 0..MaxVersion,
           Recorded(w, f, S)
    PROVE  Recorded(x, f, S)
<1> SUFFICES ASSUME NEW d \in S, f[d] # Absent
             PROVE  /\ f[d] <= x.newest[d]
                    /\ d \notin x.reverted =>
                          /\ f[d] <= x.copy[d].manifest
                          /\ ParquetOf[f[d]] <= x.copy[d].parquet
    BY DEF Recorded
<1>1. /\ f[d] <= w.newest[d]
      /\ d \notin w.reverted => /\ f[d] <= w.copy[d].manifest
                                /\ ParquetOf[f[d]] <= w.copy[d].parquet
      BY DEF Recorded
<1>2. /\ w.newest[d] <= x.newest[d]
      /\ d \notin x.reverted => /\ d \notin w.reverted
                                /\ w.copy[d].manifest <= x.copy[d].manifest
                                /\ w.copy[d].parquet <= x.copy[d].parquet
      BY DEF Keeps
<1>3. f[d] \in Versions /\ f[d] \in Nat /\ ParquetOf[f[d]] \in Nat
      BY Numbers DEF Versions, Absent
<1>4. /\ w.newest[d] \in Nat /\ x.newest[d] \in Nat
      /\ w.copy[d].manifest \in Nat /\ x.copy[d].manifest \in Nat
      /\ w.copy[d].parquet \in Nat /\ x.copy[d].parquet \in Nat
      BY CopyNumbers, NewestNumbers
<1>5. f[d] <= x.newest[d]
      BY <1>1, <1>2, <1>3, <1>4
<1>6. ASSUME d \notin x.reverted
      PROVE  f[d] <= x.copy[d].manifest /\ ParquetOf[f[d]] <= x.copy[d].parquet
      BY <1>1, <1>2, <1>3, <1>4, <1>6
<1> QED BY <1>5, <1>6

LEMMA ListRange ==
    ASSUME NEW h \in Lists
    PROVE  /\ DOMAIN h \in SUBSET Days
           /\ \A d \in DOMAIN h : h[d] \in Versions
           /\ \A d \in DOMAIN h : h[d] \in 0..MaxVersion /\ h[d] # Absent
<1>1. PICK S \in SUBSET Days : h \in [S -> Versions]
      BY DEF Lists
<1> QED BY <1>1, Numbers DEF Versions, Absent

LEMMA MonthClosedKept ==
    ASSUME NEW w \in Worlds, NEW x \in Worlds, Keeps(w, x),
           NEW m \in Months, NEW h \in Hashes, MonthClosed(w, h, m)
    PROVE  MonthClosed(x, h, m)
<1> SUFFICES ASSUME h # NoHash
             PROVE  /\ Recorded(x, h, DOMAIN h)
                    /\ (/\ x.reverted \intersect DaysOf(m) = {}
                        /\ h = MonthHash(x.live, m))
                          => x.tops.months[m] = h
    BY DEF MonthClosed
<1>1. h \in Lists
      BY DEF Hashes
<1>2. Recorded(w, h, DOMAIN h)
      BY DEF MonthClosed
<1>3. Recorded(x, h, DOMAIN h)
      BY <1>1, <1>2, ListRange, RecordedKept
<1>4. \A d \in DOMAIN h : h[d] <= w.newest[d]
      BY <1>1, <1>2, ListRange DEF Recorded
<1>5. ASSUME x.reverted \intersect DaysOf(m) = {}, h = MonthHash(x.live, m)
      PROVE  x.tops.months[m] = h
      <2>1. \/ h = MonthHash(w.live, m) /\ x.tops.months[m] = w.tops.months[m]
            \/ x.tops.months[m] = h
            BY <1>1, <1>4, <1>5 DEF Keeps, MonthKept
      <2>2. w.reverted \intersect DaysOf(m) = {}
            BY <1>5 DEF Keeps
      <2> QED BY <2>1, <2>2 DEF MonthClosed
<1> QED BY <1>3, <1>5

LEMMA MonthSoundKept ==
    ASSUME NEW w \in Worlds, NEW x \in Worlds, Keeps(w, x),
           NEW m \in Months, NEW ms \in MonthStates, MonthSound(w, ms, m)
    PROVE  MonthSound(x, ms, m)
<1>1. ms.days \in Trees /\ ms.hash \in Hashes
      BY DEF MonthStates
<1>2. Recorded(x, ms.days, Days)
      <2>1. \A d \in Days : ms.days[d] \in 0..MaxVersion
            BY <1>1 DEF Trees
      <2> QED BY <2>1, RecordedKept DEF MonthSound
<1>3. MonthClosed(x, ms.hash, m)
      BY <1>1, MonthClosedKept DEF MonthSound
<1> QED BY <1>2, <1>3 DEF MonthSound

LEMMA YearClosedKept ==
    ASSUME NEW w \in Worlds, NEW x \in Worlds, Keeps(w, x),
           NEW s \in RootStates, NEW y \in Years, YearClosed(w, s, y)
    PROVE  YearClosed(x, s, y)
<1> SUFFICES ASSUME s.years[y] # NoHash
             PROVE  /\ \A d \in DOMAIN s.years[y] : s.years[y][d] <= x.newest[d]
                    /\ (x.reverted = {} /\ s.years[y] = YearHash(x.live, y))
                          => x.tops.years[y] = s.years[y]
                    /\ \A f \in Trees : s.years[y] = YearHash(f, y) =>
                          \A m \in MonthsIn(f) : YearOf[m] = y =>
                              s.months[m].hash = MonthHash(f, m)
    BY DEF YearClosed
<1> DEFINE h == s.years[y]
<1>1. h \in Lists
      BY DEF RootStates, Hashes
<1>2. /\ \A d \in DOMAIN h : h[d] <= w.newest[d]
      /\ (w.reverted = {} /\ h = YearHash(w.live, y)) => w.tops.years[y] = h
      /\ \A f \in Trees : h = YearHash(f, y) =>
            \A m \in MonthsIn(f) : YearOf[m] = y =>
                s.months[m].hash = MonthHash(f, m)
      BY DEF YearClosed
<1> HIDE DEF h
<1>3. \A d \in DOMAIN h : h[d] <= x.newest[d]
      <2> SUFFICES ASSUME NEW d \in DOMAIN h PROVE h[d] <= x.newest[d]
          OBVIOUS
      <2>1. d \in Days /\ h[d] \in Nat
            BY <1>1, ListRange
      <2>2. w.newest[d] \in Nat /\ x.newest[d] \in Nat
            BY <2>1, Numbers DEF Worlds, Trees
      <2>3. h[d] <= w.newest[d] /\ w.newest[d] <= x.newest[d]
            BY <1>2, <2>1 DEF Keeps
      <2> QED BY <2>1, <2>2, <2>3
<1>4. (x.reverted = {} /\ h = YearHash(x.live, y)) => x.tops.years[y] = h
      <2> SUFFICES ASSUME x.reverted = {}, h = YearHash(x.live, y)
                   PROVE  x.tops.years[y] = h
          OBVIOUS
      <2>1. \/ h = YearHash(w.live, y) /\ x.tops.years[y] = w.tops.years[y]
            \/ x.tops.years[y] = h
            BY <1>1, <1>2 DEF Keeps, YearKept
      <2>2. w.reverted = {}
            BY DEF Keeps
      <2> QED BY <1>2, <2>1, <2>2
<1> QED BY <1>2, <1>3, <1>4 DEF h

LEMMA RootClosedKept ==
    ASSUME NEW w \in Worlds, NEW x \in Worlds, Keeps(w, x),
           NEW s \in RootStates, RootClosed(w, s)
    PROVE  RootClosed(x, s)
<1> SUFFICES ASSUME s.root # NoHash
             PROVE  /\ \A d \in Days : s.root[d] <= x.newest[d]
                    /\ (x.reverted = {} /\ s.root = x.live)
                          => x.tops.root = s.root
    BY DEF RootClosed
<1>1. s.root \in Trees
      BY DEF RootStates, RootHashes
<1>2. /\ \A d \in Days : s.root[d] <= w.newest[d]
      /\ (w.reverted = {} /\ s.root = w.live) => w.tops.root = s.root
      BY DEF RootClosed
<1>3. ASSUME NEW d \in Days
      PROVE  s.root[d] <= x.newest[d]
      <2>1. s.root[d] \in Nat /\ w.newest[d] \in Nat /\ x.newest[d] \in Nat
            BY <1>1, Numbers DEF Worlds, Trees
      <2>2. s.root[d] <= w.newest[d] /\ w.newest[d] <= x.newest[d]
            BY <1>2 DEF Keeps
      <2> QED BY <2>1, <2>2
<1>4. ASSUME x.reverted = {}, s.root = x.live
      PROVE  x.tops.root = s.root
      <2>1. \/ s.root = w.live /\ x.tops.root = w.tops.root
            \/ x.tops.root = s.root
            BY <1>1, <1>2, <1>4 DEF Keeps, RootKept
      <2>2. w.reverted = {}
            BY <1>4 DEF Keeps
      <2> QED BY <1>2, <2>1, <2>2
<1> QED BY <1>3, <1>4

LEMMA RootSoundKept ==
    ASSUME NEW w \in Worlds, NEW x \in Worlds, Keeps(w, x),
           NEW s \in RootStates, RootSound(w, s)
    PROVE  RootSound(x, s)
<1>1. \A m \in Months : MonthClosed(x, s.months[m].hash, m)
      <2> SUFFICES ASSUME NEW m \in Months
                   PROVE  MonthClosed(x, s.months[m].hash, m)
          OBVIOUS
      <2>1. s.months[m].hash \in Hashes
            BY DEF RootStates
      <2> QED BY <2>1, MonthClosedKept DEF RootSound
<1>2. \A y \in Years : YearClosed(x, s, y)
      BY YearClosedKept DEF RootSound
<1>3. RootClosed(x, s)
      BY RootClosedKept DEF RootSound
<1> QED BY <1>1, <1>2, <1>3 DEF RootSound

-----------------------------------------------------------------------------
(* The views before and after a step.                                      *)
LEMMA ViewTyped == TypeOK => View \in Worlds
BY DEF TypeOK, View, Worlds

LEMMA ViewTypedNext == TypeOK' => View' \in Worlds
BY DEF TypeOK, View, Worlds

(* A step that changes only copies keeps every record if none goes back.   *)
LEMMA CopyKeeps ==
    ASSUME NEW w \in Worlds, NEW x \in Worlds,
           x.live = w.live, x.newest = w.newest, x.reverted = w.reverted,
           x.tops = w.tops,
           \A d \in Days \ w.reverted :
              /\ w.copy[d].manifest <= x.copy[d].manifest
              /\ w.copy[d].parquet <= x.copy[d].parquet
    PROVE  Keeps(w, x)
<1>1. \A d \in Days : w.newest[d] <= x.newest[d]
      BY NewestNumbers
<1>2. MonthKept(w, x) /\ YearKept(w, x) /\ RootKept(w, x)
      BY DEF MonthKept, YearKept, RootKept
<1> QED BY <1>1, <1>2 DEF Keeps

(* A step that changes only the manifests above the days keeps every       *)
(* record if it writes what R2 has.                                        *)
LEMMA TopsKeeps ==
    ASSUME NEW w \in Worlds, NEW x \in Worlds,
           x.live = w.live, x.newest = w.newest, x.reverted = w.reverted,
           x.copy = w.copy,
           \A m \in Months : x.tops.months[m] = w.tops.months[m]
                             \/ x.tops.months[m] = MonthHash(w.live, m),
           \A y \in Years : x.tops.years[y] = w.tops.years[y]
                            \/ x.tops.years[y] = YearHash(w.live, y),
           x.tops.root = w.tops.root \/ x.tops.root = w.live
    PROVE  Keeps(w, x)
<1>1. \A d \in Days : w.newest[d] <= x.newest[d]
      BY NewestNumbers
<1>2. \A d \in Days : /\ w.copy[d].manifest <= x.copy[d].manifest
                      /\ w.copy[d].parquet <= x.copy[d].parquet
      BY CopyNumbers
<1>3. MonthKept(w, x)
      BY DEF MonthKept
<1>4. YearKept(w, x)
      BY DEF YearKept
<1>5. RootKept(w, x)
      BY DEF RootKept
<1> QED BY <1>1, <1>2, <1>3, <1>4, <1>5 DEF Keeps

LEMMA NothingKeeps ==
    ASSUME NEW w \in Worlds
    PROVE  Keeps(w, w)
BY TopsKeeps

(* Records that are not touched stay sound.                                *)
LEMMA StoredKept ==
    ASSUME TypeOK, TypeOK', Stored, Keeps(View, View'), UNCHANGED <<shard, ckpt>>
    PROVE  Stored'
<1>1. View \in Worlds /\ View' \in Worlds
      BY ViewTyped, ViewTypedNext
<1>2. ASSUME NEW m \in Months, shard[m] # NoState
      PROVE  MonthSound(View', shard[m], m)
      <2>1. shard[m] \in MonthStates
            BY <1>2 DEF TypeOK
      <2>2. MonthSound(View, shard[m], m)
            BY <1>2 DEF Stored
      <2> QED BY <1>1, <2>1, <2>2, MonthSoundKept
<1>3. ASSUME ckpt # NoState
      PROVE  RootSound(View', ckpt)
      <2>1. ckpt \in RootStates
            BY <1>3 DEF TypeOK
      <2>2. RootSound(View, ckpt)
            BY <1>3 DEF Stored
      <2> QED BY <1>1, <2>1, <2>2, RootSoundKept
<1> QED BY <1>2, <1>3 DEF Stored

LEMMA StateKept ==
    ASSUME TypeOK, TypeOK', InMemory, Keeps(View, View')
    PROVE  RootSound(View', run.state)
<1>1. View \in Worlds /\ View' \in Worlds
      BY ViewTyped, ViewTypedNext
<1>2. run.state \in RootStates
      BY DEF TypeOK, RunStates
<1>3. RootSound(View, run.state)
      BY DEF InMemory
<1> QED BY <1>1, <1>2, <1>3, RootSoundKept

LEMMA PriorKept ==
    ASSUME TypeOK, TypeOK', InMemory, Keeps(View, View')
    PROVE  Recorded(View', run.prior, Days)
<1>1. View \in Worlds /\ View' \in Worlds
      BY ViewTyped, ViewTypedNext
<1>2. \A d \in Days : run.prior[d] \in 0..MaxVersion
      BY DEF TypeOK, RunStates, Trees
<1>3. Recorded(View, run.prior, Days)
      BY DEF InMemory
<1> QED BY <1>1, <1>2, <1>3, RecordedKept

LEMMA MonthInMemoryKept ==
    ASSUME TypeOK, TypeOK', InMemory, Keeps(View, View'),
           run.pc \in {"copy", "flush", "flushEnd"}
    PROVE  run.month \in Months /\ MonthSound(View', run.ms, run.month)
<1>1. View \in Worlds /\ View' \in Worlds
      BY ViewTyped, ViewTypedNext
<1>2. run.ms \in MonthStates
      BY DEF TypeOK, RunStates
<1>3. run.month \in Months /\ MonthSound(View, run.ms, run.month)
      BY DEF InMemory
<1> QED BY <1>1, <1>2, <1>3, MonthSoundKept

-----------------------------------------------------------------------------
(* The empty states, and what tree functions range over.                   *)
LEMMA EmptyTyped ==
    /\ [d \in Days |-> Absent] \in Trees
    /\ EmptyMonth \in MonthStates
    /\ EmptyRoot \in RootStates
    /\ Idle \in RunStates
<1>1. [d \in Days |-> Absent] \in Trees
      BY Numbers DEF Trees
<1>2. EmptyMonth \in MonthStates
      BY <1>1 DEF EmptyMonth, MonthStates, Hashes
<1>3. EmptyRoot \in RootStates
      BY DEF EmptyRoot, RootStates, Hashes, RootHashes
<1>4. Idle \in RunStates
      BY <1>1, <1>2, <1>3 DEF Idle, RunStates, Steps
<1> QED BY <1>1, <1>2, <1>3, <1>4

LEMMA EmptySound ==
    ASSUME NEW w
    PROVE  /\ Recorded(w, [d \in Days |-> Absent], Days)
           /\ \A m \in Months : MonthSound(w, EmptyMonth, m)
           /\ RootSound(w, EmptyRoot)
<1>1. Recorded(w, [d \in Days |-> Absent], Days)
      BY DEF Recorded
<1>2. \A m \in Months : MonthSound(w, EmptyMonth, m)
      BY <1>1 DEF MonthSound, MonthClosed, EmptyMonth
<1>3. RootSound(w, EmptyRoot)
      BY DEF RootSound, MonthClosed, YearClosed, RootClosed, EmptyRoot
<1> QED BY <1>1, <1>2, <1>3

LEMMA TreeMonths ==
    ASSUME NEW f \in Trees
    PROVE  MonthsIn(f) \subseteq Months /\ YearsIn(f) \subseteq Years
BY Calendar DEF MonthsIn, YearsIn, Months, Years

LEMMA IdleInMemory ==
    ASSUME NEW w, NEW r, r = Idle
    PROVE  /\ RootSound(w, r.state) /\ Recorded(w, r.prior, Days)
           /\ r.pc = "idle"
BY EmptySound DEF Idle

(* Everything but a run's own files stays, and the run ends or dies.       *)
LEMMA RunOver ==
    ASSUME IInv, TypeOK', run' = Idle, View' = View, UNCHANGED <<shard, ckpt>>
    PROVE  IInv'
<1>1. Resting'
      <2>1. run'.pc = "idle"
            BY DEF Idle
      <2>2. live' = live /\ newest' = newest /\ reverted' = reverted
            BY DEF View
      <2> QED BY <2>1, <2>2 DEF IInv, Resting, At
<1>2. NotAhead'
      BY DEF IInv, NotAhead, View
<1>3. Stored'
      BY DEF IInv, Stored
<1>4. InMemory'
      BY IdleInMemory DEF InMemory
<1> QED BY <1>1, <1>2, <1>3, <1>4 DEF IInv

-----------------------------------------------------------------------------
(* Init and the writers of R2.                                             *)
LEMMA InitSound == Init => IInv
<1> SUFFICES ASSUME Init PROVE IInv
    OBVIOUS
<1>1. live \in Trees
      <2>1. {Absent, 1} \subseteq 0..MaxVersion
            BY SettingsAssumption DEF Absent
      <2> QED BY <2>1 DEF Init, Trees
<1>2. TypeOK
      <2>1. run \in RunStates /\ ckpt \in RootStates \union {NoState}
            BY EmptyTyped DEF Init
      <2>2. copy \in [Days -> [manifest : 0..MaxVersion, parquet : Files]]
            BY Numbers DEF Init, Files
      <2>3. tops \in [months : [Months -> Hashes], years : [Years -> Hashes],
                      root : RootHashes, latest : RootHashes]
            BY DEF Init, Hashes, RootHashes
      <2> QED BY <1>1, <2>1, <2>2, <2>3 DEF Init, TypeOK, Hashes, RootHashes
<1>3. Resting
      <2>1. \A d \in Days : live[d] \in Nat
            BY <1>1, Numbers DEF Trees
      <2> QED BY <2>1 DEF Init, Resting, At, Idle
<1>4. NotAhead
      <2>1. \A d \in Days : live[d] \in Nat
            BY <1>1, Numbers DEF Trees
      <2> QED BY <2>1, Numbers DEF Init, NotAhead
<1>5. Stored
      BY DEF Init, Stored
<1>6. InMemory
      BY IdleInMemory DEF Init, InMemory
<1> QED BY <1>2, <1>3, <1>4, <1>5, <1>6 DEF IInv

LEMMA WriteSound ==
    ASSUME IInv, NEW d \in Days, Write(d)
    PROVE  IInv'
<1> DEFINE v == newest[d] + 1
<1>1. /\ live' = [live EXCEPT ![d] = v] /\ newest' = [newest EXCEPT ![d] = v]
      /\ v \in Versions /\ UNCHANGED <<reverted, inv, dropbox, run, faults>>
      /\ At("idle") /\ writes' = writes + 1
      BY DEF Write, Publish, IInv, TypeOK, Trees
<1>2. /\ live \in Trees /\ newest \in Trees
      /\ \A e \in Days : live[e] \in Nat /\ newest[e] \in Nat
      BY Numbers DEF IInv, TypeOK, Trees
<1>3. v \in 0..MaxVersion /\ v \in Nat /\ newest[d] < v /\ live[d] < v
      <2>1. live[d] <= newest[d]
            BY DEF IInv, Resting
      <2> QED BY <1>1, <1>2, <2>1, Numbers
<1> HIDE DEF v
<1>4. TypeOK'
      <2>1. live' \in Trees /\ newest' \in Trees
            BY <1>1, <1>2, <1>3 DEF Trees
      <2>2. writes' \in Nat
            BY <1>1 DEF IInv, TypeOK
      <2> QED BY <1>1, <2>1, <2>2 DEF IInv, TypeOK, inv, dropbox
<1>5. \A e \in Days : /\ live'[e] = IF e = d THEN v ELSE live[e]
                      /\ newest'[e] = IF e = d THEN v ELSE newest[e]
      BY <1>1, <1>2 DEF Trees
<1>6. /\ View \in Worlds /\ View' \in Worlds
      /\ View'.live = live' /\ View'.newest = newest' /\ View'.reverted = reverted
      /\ View'.copy = copy /\ View'.tops = tops
      /\ View.live = live /\ View.newest = newest /\ View.reverted = reverted
      /\ View.copy = copy /\ View.tops = tops
      BY <1>1, <1>4, ViewTyped, ViewTypedNext DEF View, IInv, dropbox
<1>7. Keeps(View, View')
      <2>1. \A e \in Days : View.newest[e] <= View'.newest[e]
            BY <1>2, <1>3, <1>5, <1>6
      <2>2. \A e \in Days : /\ copy[e].manifest <= copy[e].manifest
                            /\ copy[e].parquet <= copy[e].parquet
            BY <1>6, NothingKeeps, CopyNumbers DEF IInv
      <2>3. MonthKept(View, View')
            <3> SUFFICES ASSUME NEW m \in Months, NEW h \in Lists,
                                \A e \in DOMAIN h : h[e] <= newest[e],
                                h = MonthHash(live', m)
                         PROVE  h = MonthHash(live, m)
                BY <1>6 DEF MonthKept
            <3>1. d \notin DaysOf(m)
                  <4> SUFFICES ASSUME d \in DaysOf(m) PROVE FALSE
                      OBVIOUS
                  <4>1. live'[d] = v /\ v # Absent
                        BY <1>1, <1>5, Numbers DEF Versions, Absent
                  <4>2. d \in DOMAIN h /\ h[d] = v
                        BY <4>1, <1>4, MonthHashIs DEF TypeOK
                  <4> QED BY <4>2, <1>2, <1>3
            <3>2. \A e \in DaysOf(m) : live'[e] = live[e]
                  BY <3>1, <1>5 DEF DaysOf
            <3>3. DaysOf(m) \in SUBSET Days
                  BY DEF DaysOf
            <3> QED BY <3>2, <3>3, <1>2, <1>4, EqualLists DEF MonthHash, TypeOK
      <2>4. YearKept(View, View')
            <3> SUFFICES ASSUME NEW y \in Years, NEW h \in Lists,
                                \A e \in DOMAIN h : h[e] <= newest[e],
                                h = YearHash(live', y)
                         PROVE  h = YearHash(live, y)
                BY <1>6 DEF YearKept
            <3> DEFINE S == {e \in Days : YearOf[MonthOf[e]] = y}
            <3>1. d \notin S
                  <4> SUFFICES ASSUME YearOf[MonthOf[d]] = y PROVE FALSE
                      OBVIOUS
                  <4>1. live'[d] = v /\ v # Absent
                        BY <1>1, <1>5, Numbers DEF Versions, Absent
                  <4>2. d \in DOMAIN h /\ h[d] = v
                        BY <4>1, <1>4, YearHashIs DEF TypeOK
                  <4> QED BY <4>2, <1>2, <1>3
            <3>2. \A e \in S : live'[e] = live[e]
                  BY <3>1, <1>5
            <3>3. S \in SUBSET Days
                  OBVIOUS
            <3>4. YearHash(live', y) = Listed(live', S)
                  BY DEF YearHash
            <3>5. YearHash(live, y) = Listed(live, S)
                  BY DEF YearHash
            <3> HIDE DEF S
            <3> QED BY <3>2, <3>3, <3>4, <3>5, <1>2, <1>4, EqualLists DEF TypeOK
      <2>5. RootKept(View, View')
            <3> SUFFICES ASSUME NEW f \in Trees, \A e \in Days : f[e] <= newest[e],
                                f = live'
                         PROVE  FALSE
                BY <1>6 DEF RootKept
            <3> QED BY <1>2, <1>3, <1>5
      <2> QED BY <1>6, <2>1, <2>2, <2>3, <2>4, <2>5 DEF Keeps
<1>8. Resting'
      <2>1. run'.pc = "idle"
            BY <1>1 DEF At
      <2>2. ASSUME NEW e \in Days
            PROVE  live'[e] <= newest'[e] /\ (e \notin reverted' => live'[e] = newest'[e])
            BY <1>1, <1>2, <1>3, <1>5 DEF IInv, Resting
      <2> QED BY <2>1, <2>2 DEF Resting, At
<1>9. NotAhead'
      <2> SUFFICES ASSUME NEW e \in Days \ reverted
                   PROVE  /\ copy[e].manifest <= live'[e]
                          /\ copy[e].parquet # 0 =>
                                /\ live'[e] # Absent
                                /\ copy[e].parquet <= ParquetOf[live'[e]]
          BY <1>1 DEF NotAhead, dropbox
      <2>1. /\ copy[e].manifest <= live[e]
            /\ copy[e].parquet # 0 =>
                  live[e] # Absent /\ copy[e].parquet <= ParquetOf[live[e]]
            BY DEF IInv, NotAhead
      <2>2. CASE e # d
            BY <2>1, <2>2, <1>5
      <2>3. CASE e = d
            <3>1. copy[e].manifest \in Nat /\ copy[e].parquet \in Nat
                  BY <1>6, CopyNumbers
            <3>2. copy[e].manifest <= v /\ v # Absent
                  BY <1>1, <1>2, <1>3, <2>1, <2>3, <3>1, Numbers DEF Versions, Absent
            <3>3. ASSUME copy[e].parquet # 0
                  PROVE  copy[e].parquet <= ParquetOf[v]
                  <4>1. live[e] \in Versions /\ live[e] <= v
                        BY <1>2, <1>3, <2>1, <2>3, <3>3 DEF IInv, TypeOK, Trees,
                           Versions, Absent
                  <4>2. /\ ParquetOf[live[e]] <= ParquetOf[v]
                        /\ ParquetOf[live[e]] \in Nat /\ ParquetOf[v] \in Nat
                        BY <1>1, <4>1, Numbers
                  <4> QED BY <2>1, <3>1, <3>3, <4>2
            <3> QED BY <1>5, <2>3, <3>2, <3>3
      <2> QED BY <2>2, <2>3
<1>10. Stored'
      BY <1>1, <1>4, <1>7, StoredKept DEF IInv, dropbox
<1>11. InMemory'
      BY <1>1, <1>4, <1>7, StateKept, PriorKept DEF IInv, InMemory, At
<1> QED BY <1>4, <1>8, <1>9, <1>10, <1>11 DEF IInv

LEMMA RevertSound ==
    ASSUME IInv, NEW d \in Days, Revert(d)
    PROVE  IInv'
<1>1. PICK v \in Versions : v < live[d] /\ Publish(d, v)
      BY DEF Revert
<1>2. /\ live' = [live EXCEPT ![d] = v] /\ newest' = newest
      /\ reverted' = reverted \union {d}
      /\ UNCHANGED <<inv, dropbox, run, faults>>
      /\ At("idle") /\ writes' = writes + 1
      BY <1>1 DEF Revert, Publish
<1>3. /\ live \in Trees /\ newest \in Trees
      /\ \A e \in Days : live[e] \in Nat /\ newest[e] \in Nat
      BY Numbers DEF IInv, TypeOK, Trees
<1>4. TypeOK'
      <2>1. live' \in Trees
            BY <1>2, <1>3, Numbers DEF Trees
      <2>2. writes' \in Nat /\ reverted' \subseteq Days
            BY <1>2 DEF IInv, TypeOK
      <2> QED BY <1>2, <2>1, <2>2 DEF IInv, TypeOK, inv, dropbox
<1>5. \A e \in Days : live'[e] = IF e = d THEN v ELSE live[e]
      BY <1>2, <1>3 DEF Trees
<1>6. /\ View \in Worlds /\ View' \in Worlds
      /\ View'.live = live' /\ View'.newest = newest
      /\ View'.reverted = reverted \union {d}
      /\ View'.copy = copy /\ View'.tops = tops
      /\ View.live = live /\ View.newest = newest /\ View.reverted = reverted
      /\ View.copy = copy /\ View.tops = tops
      BY <1>2, <1>4, ViewTyped, ViewTypedNext DEF View, IInv, dropbox
<1>7. Keeps(View, View')
      <2>1. \A e \in Days : newest[e] <= newest[e]
            BY <1>6, NewestNumbers
      <2>2. \A e \in Days : /\ copy[e].manifest <= copy[e].manifest
                            /\ copy[e].parquet <= copy[e].parquet
            BY <1>6, CopyNumbers
      <2>3. MonthKept(View, View')
            <3> SUFFICES ASSUME NEW m \in Months, d \notin DaysOf(m)
                         PROVE  MonthHash(live', m) = MonthHash(live, m)
                BY <1>6 DEF MonthKept
            <3>1. \A e \in DaysOf(m) : live'[e] = live[e]
                  BY <1>5 DEF DaysOf
            <3>2. DaysOf(m) \in SUBSET Days
                  BY DEF DaysOf
            <3> QED BY <3>1, <3>2, <1>3, <1>4, EqualLists DEF MonthHash, TypeOK
      <2>4. YearKept(View, View')
            BY <1>6 DEF YearKept
      <2>5. RootKept(View, View')
            BY <1>6 DEF RootKept
      <2> QED BY <1>6, <2>1, <2>2, <2>3, <2>4, <2>5 DEF Keeps
<1>8. Resting'
      <2>1. run'.pc = "idle"
            BY <1>2 DEF At
      <2>2. ASSUME NEW e \in Days
            PROVE  live'[e] <= newest'[e] /\ (e \notin reverted' => live'[e] = newest'[e])
            <3>1. live[e] <= newest[e] /\ (e \notin reverted => live[e] = newest[e])
                  BY DEF IInv, Resting
            <3>2. v \in Nat
                  BY Numbers
            <3> QED BY <1>1, <1>2, <1>3, <1>5, <3>1, <3>2
      <2> QED BY <2>1, <2>2 DEF Resting, At
<1>9. NotAhead'
      BY <1>2, <1>5 DEF IInv, NotAhead, dropbox
<1>10. Stored'
      BY <1>2, <1>4, <1>7, StoredKept DEF IInv, dropbox
<1>11. InMemory'
      BY <1>2, <1>4, <1>7, StateKept, PriorKept DEF IInv, InMemory, At
<1> QED BY <1>4, <1>8, <1>9, <1>10, <1>11 DEF IInv

-----------------------------------------------------------------------------
(* The steps that move only the run and the inventory.                     *)
LEMMA RunOnly ==
    ASSUME IInv, TypeOK', View' = View, UNCHANGED <<shard, ckpt>>,
           ~At("idle")' /\ ~At("inventory")' => invRoot' = live',
           InMemory'
    PROVE  IInv'
<1>1. Resting'
      <2>1. live' = live /\ newest' = newest /\ reverted' = reverted
            BY DEF View
      <2> QED BY <2>1 DEF IInv, Resting
<1>2. NotAhead'
      BY DEF IInv, NotAhead, View
<1>3. Stored'
      BY DEF IInv, Stored
<1> QED BY <1>1, <1>2, <1>3 DEF IInv

LEMMA StartRunSound ==
    ASSUME IInv, NEW mode \in Modes, StartRun(mode)
    PROVE  IInv'
<1>1. /\ UNCHANGED <<r2, inv, dropbox, faults>>
      /\ run' = [Idle EXCEPT !.pc = "inventory", !.reuse = mode.reuse,
                             !.limit = mode.limit]
      BY DEF StartRun
<1>2. View' = View /\ UNCHANGED <<shard, ckpt>>
      BY <1>1 DEF View, r2, dropbox
<1>3. run' \in RunStates
      <2>1. mode.reuse \in BOOLEAN /\ mode.limit \in Nat
            BY SettingsAssumption
      <2> QED BY <1>1, <2>1, EmptyTyped DEF RunStates, Steps
<1>4. TypeOK'
      BY <1>1, <1>3 DEF IInv, TypeOK, r2, inv, dropbox
<1>5. /\ run'.pc = "inventory" /\ run'.state = Idle.state /\ run'.prior = Idle.prior
      BY <1>1 DEF Idle
<1>6. InMemory'
      BY <1>5, IdleInMemory DEF InMemory
<1> QED BY <1>2, <1>4, <1>5, <1>6, RunOnly DEF At

LEMMA PutInventoryShardSound ==
    ASSUME IInv, PutInventoryShard
    PROVE  IInv'
<1> DEFINE m == Least(ChangedMonths)
<1>1. /\ At("inventory") /\ ChangedMonths # {}
      /\ UNCHANGED <<r2, invRoot, dropbox, faults>>
      /\ invShard' = [invShard EXCEPT ![m] = MonthHash(live, m)]
      /\ run' = [run EXCEPT !.month = m]
      BY DEF PutInventoryShard
<1>2. View' = View /\ UNCHANGED <<shard, ckpt>>
      BY <1>1 DEF View, r2, dropbox
<1>3. m \in Months
      <2>1. ChangedMonths \subseteq Months
            BY TreeMonths DEF ChangedMonths, IInv, TypeOK
      <2>2. ChangedMonths \in SUBSET Nat
            BY <2>1, Calendar
      <2> QED BY <1>1, <2>1, <2>2, LeastIn
<1> HIDE DEF m
<1>4. TypeOK'
      <2>1. run' \in RunStates
            BY <1>1, <1>3, Calendar DEF IInv, TypeOK, RunStates
      <2>2. MonthHash(live, m) \in Hashes
            BY <1>3, MonthHashIs DEF Hashes, IInv, TypeOK
      <2>3. invShard' \in [Months -> Hashes]
            BY <1>1, <2>2 DEF IInv, TypeOK
      <2> QED BY <1>1, <2>1, <2>3 DEF IInv, TypeOK, r2, dropbox
<1>5. run'.pc = "inventory" /\ run'.state = run.state /\ run'.prior = run.prior
      BY <1>1 DEF At, IInv, TypeOK, RunStates
<1>6. InMemory'
      BY <1>2, <1>5 DEF IInv, InMemory
<1> QED BY <1>2, <1>4, <1>5, <1>6, RunOnly DEF At

LEMMA PutInventoryRootSound ==
    ASSUME IInv, PutInventoryRoot
    PROVE  IInv'
<1>1. /\ invRoot' = live /\ UNCHANGED <<r2, invShard, dropbox, faults>>
      /\ run' = [run EXCEPT !.pc = "years", !.month = 0,
                     !.state = IF ckpt = NoState THEN EmptyRoot ELSE ckpt,
                     !.dirty = (ckpt = NoState)]
      BY DEF PutInventoryRoot
<1>2. View' = View /\ UNCHANGED <<shard, ckpt>> /\ live' = live
      BY <1>1 DEF View, r2, dropbox
<1>3. run'.state \in RootStates /\ RootSound(View, run'.state)
      <2>1. CASE ckpt = NoState
            BY <1>1, <2>1, EmptyTyped, EmptySound DEF IInv, TypeOK, RunStates
      <2>2. CASE ckpt # NoState
            BY <1>1, <2>2 DEF IInv, TypeOK, RunStates, Stored
      <2> QED BY <2>1, <2>2
<1>4. TypeOK'
      <2>1. (IF ckpt = NoState THEN EmptyRoot ELSE ckpt) \in RootStates
            BY EmptyTyped DEF IInv, TypeOK
      <2>2. run' \in RunStates
            BY <1>1, <2>1 DEF IInv, TypeOK, RunStates, Steps
      <2> QED BY <1>1, <2>2 DEF IInv, TypeOK, RootHashes, r2, dropbox
<1>5. run'.pc = "years" /\ run'.prior = run.prior
      BY <1>1 DEF IInv, TypeOK, RunStates
<1>6. InMemory'
      BY <1>2, <1>3, <1>5 DEF IInv, InMemory
<1> QED BY <1>1, <1>2, <1>4, <1>6, RunOnly

LEMMA NextYearSound ==
    ASSUME IInv, NextYear
    PROVE  IInv'
<1>1. /\ At("years") /\ UNCHANGED <<r2, inv, dropbox, faults>>
      /\ run' = IF PendingYears = {} THEN [run EXCEPT !.pc = "domains"]
                ELSE [run EXCEPT !.pc = "months", !.year = Least(PendingYears)]
      BY DEF NextYear
<1>2. View' = View /\ UNCHANGED <<shard, ckpt, invRoot, live>>
      BY <1>1 DEF View, r2, inv, dropbox
<1>3. invRoot = live /\ live \in Trees
      BY <1>1 DEF IInv, Resting, At, TypeOK
<1>4. PendingYears # {} => Least(PendingYears) \in Years
      <2>1. PendingYears \subseteq Years
            BY <1>3, TreeMonths DEF PendingYears
      <2>2. PendingYears \in SUBSET Nat
            BY <2>1, Calendar
      <2> QED BY <2>1, <2>2, LeastIn
<1>5. run' \in RunStates
      BY <1>1, <1>4, Calendar DEF IInv, TypeOK, RunStates, Steps
<1>6. TypeOK'
      BY <1>1, <1>5 DEF IInv, TypeOK, r2, inv, dropbox
<1>7. /\ run'.state = run.state /\ run'.prior = run.prior
      /\ \/ run'.pc = "domains"
         \/ run'.pc = "months" /\ run'.year \in Years
      BY <1>1, <1>4 DEF IInv, TypeOK, RunStates
<1>8. InMemory'
      BY <1>2, <1>7 DEF IInv, InMemory
<1> QED BY <1>2, <1>3, <1>6, <1>8, RunOnly

LEMMA InspectMonthSound ==
    ASSUME IInv, InspectMonth
    PROVE  IInv'
<1> DEFINE m == Least(PendingMonths)
           ms == IF shard[m] = NoState THEN EmptyMonth ELSE shard[m]
           prior == IF Authenticated(m) THEN shard[m].days ELSE EmptyMonth.days
<1>1. /\ At("months") /\ PendingMonths # {} /\ UNCHANGED <<r2, inv, dropbox, faults>>
      /\ run' = IF invShard[m] # MonthHash(invRoot, m) THEN Idle
                ELSE [run EXCEPT !.pc = "copy", !.month = m, !.units = 0,
                                 !.ms = ms, !.monthDirty = (shard[m] = NoState),
                                 !.prior = prior]
      BY DEF InspectMonth
<1>2. View' = View /\ UNCHANGED <<shard, ckpt, invRoot, live>>
      BY <1>1 DEF View, r2, inv, dropbox
<1>3. invRoot = live /\ live \in Trees
      BY <1>1 DEF IInv, Resting, At, TypeOK
<1>4. m \in Months /\ m \in Nat
      <2>1. PendingMonths \subseteq Months
            BY <1>3, TreeMonths DEF PendingMonths
      <2>2. PendingMonths \in SUBSET Nat
            BY <2>1, Calendar
      <2> QED BY <1>1, <2>1, <2>2, LeastIn
<1> HIDE DEF m
<1>5. ms \in MonthStates /\ MonthSound(View, ms, m)
      <2>1. CASE shard[m] = NoState
            BY <1>4, <2>1, EmptyTyped, EmptySound
      <2>2. CASE shard[m] # NoState
            BY <1>4, <2>2 DEF IInv, TypeOK, Stored
      <2> QED BY <2>1, <2>2
<1>6. prior \in Trees /\ Recorded(View, prior, Days)
      <2>1. CASE Authenticated(m)
            <3>1. shard[m] \in MonthStates /\ MonthSound(View, shard[m], m)
                  BY <1>4, <2>1 DEF IInv, TypeOK, Stored, Authenticated
            <3> QED BY <2>1, <3>1 DEF MonthSound, MonthStates
      <2>2. CASE ~Authenticated(m)
            <3>1. EmptyMonth.days = [d \in Days |-> Absent]
                  BY DEF EmptyMonth
            <3> QED BY <2>2, <3>1, EmptyTyped, EmptySound
      <2> QED BY <2>1, <2>2
<1> HIDE DEF ms, prior
<1>7. CASE run' = Idle
      <2>1. TypeOK'
            BY <1>1, <1>7, EmptyTyped DEF IInv, TypeOK, r2, inv, dropbox
      <2> QED BY <1>2, <1>7, <2>1, RunOver
<1>8. CASE run' = [run EXCEPT !.pc = "copy", !.month = m, !.units = 0,
                              !.ms = ms, !.monthDirty = (shard[m] = NoState),
                              !.prior = prior]
      <2>1. run' \in RunStates
            BY <1>4, <1>5, <1>6, <1>8 DEF IInv, TypeOK, RunStates, Steps
      <2>2. TypeOK'
            BY <1>1, <2>1 DEF IInv, TypeOK, r2, inv, dropbox
      <2>3. /\ run'.pc = "copy" /\ run'.month = m /\ run'.ms = ms
            /\ run'.prior = prior /\ run'.state = run.state /\ run'.year = run.year
            BY <1>8 DEF IInv, TypeOK, RunStates
      <2>4. run.year \in Years
            BY <1>1 DEF IInv, InMemory, At
      <2>5. InMemory'
            BY <1>2, <1>4, <1>5, <1>6, <2>3, <2>4 DEF IInv, InMemory
      <2> QED BY <1>2, <1>3, <2>2, <2>5, RunOnly
<1> QED BY <1>1, <1>7, <1>8

LEMMA EndMonthsSound ==
    ASSUME IInv, EndMonths
    PROVE  IInv'
<1>1. /\ At("months") /\ UNCHANGED <<r2, inv, dropbox, faults>>
      /\ run' = [run EXCEPT !.pc = "yearEnd"]
      BY DEF EndMonths
<1>2. View' = View /\ UNCHANGED <<shard, ckpt, invRoot, live>>
      BY <1>1 DEF View, r2, inv, dropbox
<1>3. invRoot = live
      BY <1>1 DEF IInv, Resting, At
<1>4. run' \in RunStates
      BY <1>1 DEF IInv, TypeOK, RunStates, Steps
<1>5. TypeOK'
      BY <1>1, <1>4 DEF IInv, TypeOK, r2, inv, dropbox
<1>6. /\ run'.pc = "yearEnd" /\ run'.prior = run.prior
      /\ run'.state = run.state /\ run'.year = run.year
      BY <1>1 DEF IInv, TypeOK, RunStates
<1>7. run.year \in Years
      BY <1>1 DEF IInv, InMemory, At
<1>8. InMemory'
      BY <1>2, <1>6, <1>7 DEF IInv, InMemory
<1> QED BY <1>2, <1>3, <1>5, <1>8, RunOnly

-----------------------------------------------------------------------------
(* Copying a day: no copy goes back.                                       *)
LEMMA CopiedForward ==
    ASSUME IInv, At("copy"), NEW d \in Candidates,
           NEW c \in [manifest : {copy[d].manifest, live[d]},
                      parquet : {copy[d].parquet, Copied(d).parquet}]
    PROVE  /\ d \in Days /\ live[d] \in Versions
           /\ c \in [manifest : 0..MaxVersion, parquet : Files]
           /\ d \notin reverted =>
                 /\ copy[d].manifest <= c.manifest /\ c.manifest <= live[d]
                 /\ copy[d].parquet <= c.parquet
                 /\ c.parquet <= ParquetOf[live[d]]
<1>1. /\ invRoot = live /\ live \in Trees
      /\ run.month \in Months
      BY DEF IInv, Resting, At, InMemory, TypeOK
<1>2. d \in Days /\ live[d] # Absent
      BY <1>1 DEF Candidates, DaysOf
<1>3. live[d] \in Versions /\ live[d] \in 0..MaxVersion /\ live[d] \in Nat
      BY <1>1, <1>2, Numbers DEF Trees, Versions, Absent
<1>4. /\ copy[d].manifest \in 0..MaxVersion /\ copy[d].parquet \in Files
      /\ copy[d].manifest \in Nat /\ copy[d].parquet \in Nat
      BY <1>2, Numbers, ViewTyped, CopyNumbers DEF IInv, TypeOK, View
<1>5. ParquetOf[live[d]] \in Nat \ {0} /\ ParquetOf[live[d]] \in Files
      BY <1>3, Numbers DEF Files
<1>6. Copied(d).parquet \in {copy[d].parquet, ParquetOf[live[d]]}
      BY DEF Copied
<1>7. /\ c.manifest \in {copy[d].manifest, live[d]}
      /\ c.parquet \in {copy[d].parquet, ParquetOf[live[d]]}
      BY <1>6
<1>8. c \in [manifest : 0..MaxVersion, parquet : Files]
      BY <1>3, <1>4, <1>5, <1>7
<1>9. ASSUME d \notin reverted
      PROVE  /\ copy[d].manifest <= live[d]
             /\ copy[d].parquet <= ParquetOf[live[d]]
      <2>1. /\ copy[d].manifest <= live[d]
            /\ copy[d].parquet # 0 => copy[d].parquet <= ParquetOf[live[d]]
            BY <1>2, <1>9 DEF IInv, NotAhead
      <2> QED BY <1>4, <1>5, <2>1
<1> QED BY <1>2, <1>3, <1>4, <1>5, <1>7, <1>8, <1>9

(* The day's copy put in its place, whole or broken off.                   *)
LEMMA DayCopied ==
    ASSUME IInv, TypeOK', At("copy"), NEW d \in Candidates,
           NEW c \in [manifest : {copy[d].manifest, live[d]},
                      parquet : {copy[d].parquet, Copied(d).parquet}],
           copy' = [copy EXCEPT ![d] = c],
           UNCHANGED <<r2, inv, tops, shard, ckpt>>
    PROVE  /\ Keeps(View, View') /\ Resting' /\ NotAhead' /\ Stored'
           /\ RootSound(View', run.state) /\ Recorded(View', run.prior, Days)
           /\ run.month \in Months /\ MonthSound(View', run.ms, run.month)
<1>1. /\ d \in Days /\ live[d] \in Versions
      /\ d \notin reverted =>
            /\ copy[d].manifest <= c.manifest /\ c.manifest <= live[d]
            /\ copy[d].parquet <= c.parquet /\ c.parquet <= ParquetOf[live[d]]
      BY CopiedForward
<1>2. \A e \in Days : copy'[e] = IF e = d THEN c ELSE copy[e]
      BY <1>1 DEF IInv, TypeOK
<1>3. /\ View \in Worlds /\ View' \in Worlds
      /\ View'.live = live /\ View'.newest = newest /\ View'.reverted = reverted
      /\ View'.copy = copy' /\ View'.tops = tops
      /\ View.live = live /\ View.newest = newest /\ View.reverted = reverted
      /\ View.copy = copy /\ View.tops = tops
      BY ViewTyped, ViewTypedNext DEF View, IInv, r2
<1>4. Keeps(View, View')
      <2>1. ASSUME NEW e \in Days \ reverted
            PROVE  /\ copy[e].manifest <= copy'[e].manifest
                   /\ copy[e].parquet <= copy'[e].parquet
            <3>1. CASE e = d
                  BY <1>1, <1>2, <3>1
            <3>2. CASE e # d
                  BY <1>2, <1>3, <3>2, CopyNumbers
            <3> QED BY <3>1, <3>2
      <2>2. \A e \in Days \ View.reverted :
               /\ View.copy[e].manifest <= View'.copy[e].manifest
               /\ View.copy[e].parquet <= View'.copy[e].parquet
            BY <1>3, <2>1
      <2>3. /\ View'.live = View.live /\ View'.newest = View.newest
            /\ View'.reverted = View.reverted /\ View'.tops = View.tops
            BY <1>3
      <2>4. View \in Worlds /\ View' \in Worlds
            BY <1>3
      <2> QED BY <2>2, <2>3, <2>4, CopyKeeps
<1>5. Resting'
      BY DEF IInv, Resting, At, r2, inv
<1>6. NotAhead'
      <2> SUFFICES ASSUME NEW e \in Days \ reverted
                   PROVE  /\ copy'[e].manifest <= live[e]
                          /\ copy'[e].parquet # 0 =>
                                /\ live[e] # Absent
                                /\ copy'[e].parquet <= ParquetOf[live[e]]
          BY DEF NotAhead, r2
      <2>1. CASE e = d
            BY <1>1, <1>2, <2>1, Numbers DEF Versions, Absent
      <2>2. CASE e # d
            BY <1>2, <2>2 DEF IInv, NotAhead
      <2> QED BY <2>1, <2>2
<1>7. Stored'
      BY <1>4, StoredKept DEF IInv
<1> QED BY <1>4, <1>5, <1>6, <1>7, StateKept, PriorKept, MonthInMemoryKept
        DEF IInv, At

LEMMA CopyFailsSound ==
    ASSUME IInv, CopyFails
    PROVE  IInv'
<1> DEFINE d == Least(Candidates)
<1>1. /\ At("copy") /\ Candidates # {} /\ faults' = faults + 1
      /\ UNCHANGED <<r2, inv, tops, shard, ckpt>>
      /\ \/ run' = [run EXCEPT !.pc = IF run.monthDirty THEN "flush" ELSE "save",
                               !.stopping = TRUE]
         \/ run' = Idle
      BY DEF CopyFails
<1>2. PICK c \in [manifest : {copy[d].manifest, live[d]},
                  parquet : {copy[d].parquet, Copied(d).parquet}] :
            copy' = [copy EXCEPT ![d] = c]
      BY DEF CopyFails
<1>3. d \in Candidates
      <2>1. Candidates \in SUBSET Nat
            BY Calendar DEF Candidates, DaysOf
      <2> QED BY <1>1, <2>1, LeastIn
<1> HIDE DEF d
<1>4. TypeOK'
      <2>1. run' \in RunStates
            <3>1. Idle \in RunStates
                  BY EmptyTyped
            <3>2. run \in RunStates /\ "flush" \in Steps /\ "save" \in Steps
                  BY DEF IInv, TypeOK, Steps
            <3>3. \A pc \in Steps :
                      [run EXCEPT !.pc = pc, !.stopping = TRUE] \in RunStates
                  BY <3>2 DEF RunStates
            <3> QED BY <1>1, <3>1, <3>2, <3>3
      <2>2. copy' \in [Days -> [manifest : 0..MaxVersion, parquet : Files]]
            BY <1>1, <1>2, <1>3, CopiedForward DEF IInv, TypeOK
      <2>3. faults' \in Nat
            BY <1>1 DEF IInv, TypeOK
      <2> QED BY <1>1, <2>1, <2>2, <2>3 DEF IInv, TypeOK, r2, inv
<1>5. /\ Resting' \/ run' = Idle
      /\ NotAhead' /\ Stored'
      /\ RootSound(View', run.state) /\ Recorded(View', run.prior, Days)
      /\ run.month \in Months /\ MonthSound(View', run.ms, run.month)
      BY <1>1, <1>2, <1>3, <1>4, DayCopied
<1>6. Resting'
      <2>1. invRoot' = live'
            BY <1>1 DEF IInv, Resting, At, r2, inv
      <2> QED BY <1>1, <2>1 DEF IInv, Resting, r2
<1>7. InMemory'
      <2>1. CASE run' = Idle
            BY <2>1, IdleInMemory DEF InMemory
      <2>2. CASE run' = [run EXCEPT !.pc = IF run.monthDirty THEN "flush" ELSE "save",
                                    !.stopping = TRUE]
            <3>1. /\ run'.pc \in {"flush", "save"} /\ run'.month = run.month
                  /\ run'.ms = run.ms /\ run'.prior = run.prior
                  /\ run'.state = run.state /\ run'.year = run.year
                  BY <2>2 DEF IInv, TypeOK, RunStates
            <3>2. run.year \in Years
                  BY <1>1 DEF IInv, InMemory, At
            <3> QED BY <1>5, <3>1, <3>2 DEF InMemory
      <2> QED BY <1>1, <2>1, <2>2
<1> QED BY <1>4, <1>5, <1>6, <1>7 DEF IInv

(* Files found on Dropbox stand in for the current ones only where the     *)
(* record they were found by says as much.                                 *)
LEMMA CopiedWhole ==
    ASSUME IInv, At("copy"), NEW d \in Candidates, d \notin reverted
    PROVE  ParquetOf[live[d]] <= Copied(d).parquet
<1>1. d \in Days /\ live[d] \in Versions
      <2>1. Copied(d).parquet \in {copy[d].parquet, Copied(d).parquet}
            OBVIOUS
      <2>2. [manifest |-> live[d], parquet |-> Copied(d).parquet] \in
                [manifest : {copy[d].manifest, live[d]},
                 parquet : {copy[d].parquet, Copied(d).parquet}]
            OBVIOUS
      <2> QED BY <2>2, CopiedForward
<1>2. ParquetOf[live[d]] \in Nat
      BY <1>1, Numbers
<1>3. CASE Reusable(d)
      <2>1. Recorded(View, run.prior, Days) /\ run.prior[d] # Absent
            BY <1>3 DEF IInv, InMemory, Reusable
      <2>2. ParquetOf[run.prior[d]] <= View.copy[d].parquet
            BY <1>1, <2>1 DEF Recorded, View
      <2>3. ParquetOf[live[d]] <= copy[d].parquet
            BY <1>3, <2>2 DEF Reusable, View
      <2> QED BY <1>3, <2>3 DEF Copied
<1>4. CASE ~Reusable(d)
      BY <1>2, <1>4 DEF Copied
<1> QED BY <1>3, <1>4

LEMMA CopyDaySound ==
    ASSUME IInv, CopyDay
    PROVE  IInv'
<1> DEFINE d == Least(Candidates)
           ms == [hash |-> NoHash,
                  days |-> [run.ms.days EXCEPT ![d] = invRoot[d]]]
<1>1. /\ At("copy") /\ Candidates # {}
      /\ UNCHANGED <<r2, inv, tops, shard, ckpt, faults>>
      /\ copy' = [copy EXCEPT ![d] = Copied(d)]
      BY DEF CopyDay
<1>2. PICK flush \in {TRUE, run.units + 1 >= BatchUnits} :
            run' = [run EXCEPT !.pc = IF flush THEN "flush" ELSE "copy",
                        !.ms = [hash |-> NoHash,
                                days |-> [@.days EXCEPT ![d] = invRoot[d]]],
                        !.monthDirty = TRUE, !.units = @ + 1,
                        !.copied = IF run.limit > 0 THEN @ + 1 ELSE @]
      BY DEF CopyDay
<1>3. d \in Candidates
      <2>1. Candidates \in SUBSET Nat
            BY Calendar DEF Candidates, DaysOf
      <2> QED BY <1>1, <2>1, LeastIn
<1> HIDE DEF d
<1>4. Copied(d) \in [manifest : {copy[d].manifest, live[d]},
                     parquet : {copy[d].parquet, Copied(d).parquet}]
      BY DEF Copied
<1>5. /\ d \in Days /\ live[d] \in Versions
      /\ Copied(d) \in [manifest : 0..MaxVersion, parquet : Files]
      BY <1>1, <1>3, <1>4, CopiedForward
<1>6. invRoot = live /\ live \in Trees
      BY <1>1 DEF IInv, Resting, At, TypeOK
<1>7. ms \in MonthStates
      BY <1>5, <1>6 DEF IInv, TypeOK, RunStates, MonthStates, Hashes, Trees
<1>8. /\ run'.pc \in {"flush", "copy"} /\ run'.ms = ms
      /\ run'.month = run.month /\ run'.prior = run.prior
      /\ run'.state = run.state /\ run'.year = run.year
      BY <1>2 DEF IInv, TypeOK, RunStates
<1> HIDE DEF ms
<1>9. TypeOK'
      <2>1. /\ run.units + 1 \in Nat
            /\ (IF run.limit > 0 THEN run.copied + 1 ELSE run.copied) \in Nat
            BY DEF IInv, TypeOK, RunStates
      <2>2. run' \in RunStates
            BY <1>2, <1>7, <2>1 DEF IInv, TypeOK, RunStates, Steps, ms
      <2>3. copy' \in [Days -> [manifest : 0..MaxVersion, parquet : Files]]
            BY <1>1, <1>5 DEF IInv, TypeOK
      <2> QED BY <1>1, <2>2, <2>3 DEF IInv, TypeOK, r2, inv
<1>10. /\ Resting' /\ NotAhead' /\ Stored'
       /\ RootSound(View', run.state) /\ Recorded(View', run.prior, Days)
       /\ run.month \in Months /\ MonthSound(View', run.ms, run.month)
       BY <1>1, <1>3, <1>4, <1>9, DayCopied
<1>11. Recorded(View', ms.days, Days)
       <2> SUFFICES ASSUME NEW e \in Days, ms.days[e] # Absent
                    PROVE  /\ ms.days[e] <= newest'[e]
                           /\ e \notin reverted' =>
                                 /\ ms.days[e] <= copy'[e].manifest
                                 /\ ParquetOf[ms.days[e]] <= copy'[e].parquet
           BY DEF Recorded, View
       <2>1. Recorded(View', run.ms.days, Days)
             BY <1>10 DEF MonthSound
       <2>2. ms.days[e] = IF e = d THEN live[d] ELSE run.ms.days[e]
             BY <1>6 DEF ms, IInv, TypeOK, RunStates, MonthStates, Trees
       <2>3. CASE e # d
             BY <2>1, <2>2, <2>3 DEF Recorded, View
       <2>4. CASE e = d
             <3>1. live[d] <= newest[d] /\ newest' = newest /\ reverted' = reverted
                   BY <1>1, <1>5 DEF IInv, Resting, r2
             <3>2. copy'[d] = Copied(d) /\ Copied(d).manifest = live[d]
                   BY <1>1, <1>5 DEF IInv, TypeOK, Copied
             <3>3. live[d] <= live[d]
                   BY <1>5, Numbers
             <3>4. d \notin reverted => ParquetOf[live[d]] <= Copied(d).parquet
                   BY <1>1, <1>3, CopiedWhole
             <3> QED BY <2>2, <2>4, <3>1, <3>2, <3>3, <3>4
       <2> QED BY <2>3, <2>4
<1>12. MonthSound(View', ms, run.month)
       BY <1>11 DEF MonthSound, MonthClosed, ms
<1>13. InMemory'
       <2>1. run.year \in Years
             BY <1>1 DEF IInv, InMemory, At
       <2> QED BY <1>8, <1>10, <1>12, <2>1 DEF InMemory
<1> QED BY <1>9, <1>10, <1>13 DEF IInv

-----------------------------------------------------------------------------
(* Writing out a month: its year and the root are open again.              *)
LEMMA SummarizedSound ==
    ASSUME NEW w, NEW s \in RootStates, NEW m \in Months, NEW ms \in MonthStates,
           RootSound(w, s), MonthSound(w, ms, m)
    PROVE  /\ Summarized(s, m, ms) \in RootStates
           /\ RootSound(w, Summarized(s, m, ms))
<1> DEFINE z == Summarized(s, m, ms)
<1>1. z \in RootStates
      <2>1. YearOf[m] \in Years
            BY Calendar
      <2> QED BY <2>1 DEF Summarized, RootStates, MonthStates, Hashes, RootHashes
<1>2. /\ z.root = NoHash
      /\ \A n \in Months : n # m => z.months[n] = s.months[n]
      /\ z.months[m].hash = ms.hash
      /\ \A y \in Years : z.years[y] = IF y = YearOf[m] THEN NoHash ELSE s.years[y]
      BY DEF Summarized, RootStates
<1> HIDE DEF z
<1>3. \A n \in Months : MonthClosed(w, z.months[n].hash, n)
      BY <1>2 DEF RootSound, MonthSound
<1>4. ASSUME NEW y \in Years
      PROVE  YearClosed(w, z, y)
      <2>1. CASE y = YearOf[m]
            BY <1>2, <2>1 DEF YearClosed
      <2>2. CASE y # YearOf[m]
            <3>1. z.years[y] = s.years[y] /\ YearClosed(w, s, y)
                  BY <1>2, <2>2 DEF RootSound
            <3>2. ASSUME NEW f \in Trees, NEW n \in MonthsIn(f), YearOf[n] = y
                  PROVE  z.months[n] = s.months[n]
                  BY <1>2, <2>2, <3>2, TreeMonths
            <3> QED BY <3>1, <3>2 DEF YearClosed
      <2> QED BY <2>1, <2>2
<1>5. RootClosed(w, z)
      BY <1>2 DEF RootClosed
<1> QED BY <1>1, <1>3, <1>4, <1>5 DEF RootSound, z

LEMMA WriteMonthSound ==
    ASSUME IInv, NEW next \in {"copy", "save", "months"}, WriteMonth(next),
           run.pc \in {"flush", "flushEnd"}
    PROVE  IInv'
<1>1. /\ shard' = [shard EXCEPT ![run.month] = run.ms]
      /\ run' = [run EXCEPT !.pc = next, !.monthDirty = FALSE, !.units = 0,
                            !.state = Summarized(run.state, run.month, run.ms),
                            !.dirty = TRUE]
      /\ UNCHANGED <<r2, inv, copy, tops, ckpt, faults>>
      BY DEF WriteMonth
<1>2. View' = View
      BY <1>1 DEF View, r2
<1>3. /\ run.month \in Months /\ run.ms \in MonthStates
      /\ MonthSound(View, run.ms, run.month) /\ run.year \in Years
      BY DEF IInv, InMemory, TypeOK, RunStates
<1>4. /\ Summarized(run.state, run.month, run.ms) \in RootStates
      /\ RootSound(View, Summarized(run.state, run.month, run.ms))
      <2>1. run.state \in RootStates /\ RootSound(View, run.state)
            BY DEF IInv, InMemory, TypeOK, RunStates
      <2> QED BY <1>3, <2>1, SummarizedSound
<1>5. TypeOK'
      <2>1. run' \in RunStates
            BY <1>1, <1>4 DEF IInv, TypeOK, RunStates, Steps
      <2>2. shard' \in [Months -> MonthStates \union {NoState}]
            BY <1>1, <1>3 DEF IInv, TypeOK
      <2> QED BY <1>1, <2>1, <2>2 DEF IInv, TypeOK, r2, inv
<1>6. /\ run'.pc = next /\ run'.month = run.month /\ run'.ms = run.ms
      /\ run'.prior = run.prior /\ run'.year = run.year
      /\ run'.state = Summarized(run.state, run.month, run.ms)
      BY <1>1 DEF IInv, TypeOK, RunStates
<1>7. Resting' /\ NotAhead'
      <2>1. invRoot = live
            BY DEF IInv, Resting, At
      <2> QED BY <1>1, <2>1 DEF IInv, Resting, NotAhead, r2, inv
<1>8. Stored'
      <2>1. ASSUME NEW m \in Months, shard'[m] # NoState
            PROVE  MonthSound(View, shard'[m], m)
            <3>1. shard'[m] = IF m = run.month THEN run.ms ELSE shard[m]
                  BY <1>1 DEF IInv, TypeOK
            <3> QED BY <1>3, <2>1, <3>1 DEF IInv, Stored
      <2>2. ckpt' # NoState => RootSound(View, ckpt')
            BY <1>1 DEF IInv, Stored
      <2> QED BY <1>2, <2>1, <2>2 DEF Stored
<1>9. InMemory'
      BY <1>2, <1>3, <1>4, <1>6 DEF IInv, InMemory
<1> QED BY <1>5, <1>7, <1>8, <1>9 DEF IInv

LEMMA FlushSound ==
    ASSUME IInv, FlushMonth \/ FlushAtEnd
    PROVE  IInv'
<1>1. CASE FlushMonth
      <2>1. (IF run.stopping THEN "save" ELSE "copy") \in {"copy", "save", "months"}
            OBVIOUS
      <2>2. run.pc \in {"flush", "flushEnd"}
            /\ WriteMonth(IF run.stopping THEN "save" ELSE "copy")
            BY <1>1 DEF FlushMonth, At
      <2> QED BY <2>1, <2>2, WriteMonthSound
<1>2. CASE FlushAtEnd
      BY <1>2, WriteMonthSound DEF FlushAtEnd, At
<1> QED BY <1>1, <1>2

-----------------------------------------------------------------------------
(* The manifests above the days are copied from R2 as it is.               *)
LEMMA TopsWritten ==
    ASSUME IInv, TypeOK', ~At("idle"), ~At("inventory"),
           UNCHANGED <<r2, inv, copy, shard, ckpt>>,
           \A m \in Months : tops'.months[m] \in {tops.months[m], MonthHash(live, m)},
           \A y \in Years : tops'.years[y] \in {tops.years[y], YearHash(live, y)},
           tops'.root \in {tops.root, live}
    PROVE  /\ Keeps(View, View') /\ Resting' /\ NotAhead' /\ Stored'
           /\ RootSound(View', run.state) /\ Recorded(View', run.prior, Days)
           /\ invRoot = live /\ live \in Trees
<1>1. /\ View \in Worlds /\ View' \in Worlds
      /\ View'.live = View.live /\ View'.newest = View.newest
      /\ View'.reverted = View.reverted /\ View'.copy = View.copy
      BY ViewTyped, ViewTypedNext DEF View, IInv, r2
<1>2. /\ \A m \in Months : View'.tops.months[m] = View.tops.months[m]
                            \/ View'.tops.months[m] = MonthHash(View.live, m)
      /\ \A y \in Years : View'.tops.years[y] = View.tops.years[y]
                           \/ View'.tops.years[y] = YearHash(View.live, y)
      /\ View'.tops.root = View.tops.root \/ View'.tops.root = View.live
      BY DEF View
<1>3. Keeps(View, View')
      BY <1>1, <1>2, TopsKeeps
<1>4. invRoot = live /\ live \in Trees
      BY DEF IInv, Resting, TypeOK
<1>5. Resting' /\ NotAhead'
      BY <1>4 DEF IInv, Resting, NotAhead, r2, inv
<1> QED BY <1>3, <1>4, <1>5, StoredKept, StateKept, PriorKept DEF IInv

LEMMA EndDaysSound ==
    ASSUME IInv, EndDays
    PROVE  IInv'
<1> DEFINE m == run.month
           h == MonthHash(live, m)
<1>1. At("copy") /\ UNCHANGED <<r2, inv, copy, shard, ckpt, faults>>
      BY DEF EndDays
<1>2. /\ m \in Months /\ MonthSound(View, run.ms, m) /\ run.year \in Years
      /\ run.ms \in MonthStates /\ invRoot = live /\ live \in Trees
      BY <1>1 DEF IInv, InMemory, At, Resting, TypeOK, RunStates
<1>3. /\ h \in Lists /\ h # NoHash
      /\ DOMAIN h = {d \in DaysOf(m) : live[d] # Absent}
      /\ \A d \in DaysOf(m) : live[d] # Absent => h[d] = live[d]
      BY <1>2, MonthHashIs
<1>4. CASE MonthComplete
      <2> DEFINE ms == [run.ms EXCEPT !.hash = MonthHash(invRoot, m)]
      <2>1. /\ tops' = [tops EXCEPT !.months[m] = h]
            /\ run' = [run EXCEPT !.pc = "flushEnd",
                              !.ms.hash = MonthHash(invRoot, m),
                              !.monthDirty = TRUE]
            BY <1>4 DEF EndDays
      <2>2. /\ ms \in MonthStates /\ ms.hash = h /\ ms.days = run.ms.days
            BY <1>2, <1>3 DEF MonthStates, Hashes
      <2>3. /\ run'.pc = "flushEnd" /\ run'.ms = ms /\ run'.month = m
            /\ run'.prior = run.prior /\ run'.state = run.state
            /\ run'.year = run.year
            BY <2>1 DEF IInv, TypeOK, RunStates
      <2> HIDE DEF ms, h, m
      <2>4. TypeOK'
            <3>1. run' \in RunStates
                  BY <2>1, <2>2 DEF IInv, TypeOK, RunStates, Steps, ms
            <3>2. tops' \in [months : [Months -> Hashes], years : [Years -> Hashes],
                             root : RootHashes, latest : RootHashes]
                  BY <1>2, <1>3, <2>1 DEF IInv, TypeOK, Hashes
            <3> QED BY <1>1, <3>1, <3>2 DEF IInv, TypeOK, r2, inv
      <2>5. /\ tops'.months[m] = h /\ tops'.years = tops.years /\ tops'.root = tops.root
            /\ \A n \in Months : n # m => tops'.months[n] = tops.months[n]
            BY <1>2, <2>1 DEF IInv, TypeOK
      <2>6. \A n \in Months : tops'.months[n] \in {tops.months[n], MonthHash(live, n)}
            BY <2>5 DEF h
      <2>7. /\ Keeps(View, View') /\ Resting' /\ NotAhead' /\ Stored'
            /\ RootSound(View', run.state) /\ Recorded(View', run.prior, Days)
            BY <1>1, <2>4, <2>5, <2>6, TopsWritten DEF At
      <2>8. MonthSound(View', run.ms, m)
            BY <1>1, <2>4, <2>7, MonthInMemoryKept DEF IInv, At, m
      <2>9. MonthClosed(View', h, m)
            <3>1. \A d \in DOMAIN h : d \in Days /\ h[d] = run.ms.days[d]
                  BY <1>2, <1>3, <1>4 DEF MonthComplete, DaysOf, m
            <3>2. Recorded(View', h, DOMAIN h)
                  BY <2>8, <3>1 DEF MonthSound, Recorded
            <3>3. View'.tops.months[m] = h
                  BY <2>5 DEF View
            <3> QED BY <3>2, <3>3 DEF MonthClosed
      <2>10. MonthSound(View', ms, m)
            BY <2>2, <2>8, <2>9 DEF MonthSound
      <2>11. InMemory'
            BY <1>2, <2>3, <2>7, <2>10 DEF InMemory
      <2> QED BY <2>4, <2>7, <2>11 DEF IInv
<1>5. CASE ~MonthComplete
      <2>1. /\ run' = [run EXCEPT !.pc = IF run.monthDirty THEN "flushEnd"
                                         ELSE "months"]
            /\ UNCHANGED tops
            BY <1>5 DEF EndDays
      <2>2. View' = View /\ live' = live /\ invRoot' = invRoot
            BY <1>1, <2>1 DEF View, r2, inv
      <2>3. /\ run'.pc \in {"flushEnd", "months"} /\ run'.ms = run.ms
            /\ run'.month = m /\ run'.prior = run.prior
            /\ run'.state = run.state /\ run'.year = run.year
            BY <2>1 DEF IInv, TypeOK, RunStates
      <2>4. TypeOK'
            <3>1. run' \in RunStates
                  BY <2>1 DEF IInv, TypeOK, RunStates, Steps
            <3> QED BY <1>1, <2>1, <3>1 DEF IInv, TypeOK, r2, inv
      <2>5. InMemory'
            BY <1>2, <2>2, <2>3 DEF IInv, InMemory
      <2> QED BY <1>1, <1>2, <2>2, <2>4, <2>5, RunOnly
<1> QED BY <1>4, <1>5

(* A year is closed when its months are.                                   *)
LEMMA YearClosedBy ==
    ASSUME NEW w \in Worlds, NEW s \in RootStates, NEW y \in Years,
           \A d \in Days : w.live[d] <= w.newest[d],
           RootSound(w, s), w.tops.years[y] = YearHash(w.live, y),
           \A m \in MonthsIn(w.live) : YearOf[m] = y =>
               s.months[m].hash = MonthHash(w.live, m),
           NEW z \in RootStates,
           z = [s EXCEPT !.years[y] = YearHash(w.live, y), !.root = NoHash]
    PROVE  RootSound(w, z)
<1>1. /\ w.live \in Trees /\ z.months = s.months /\ z.root = NoHash
      /\ \A u \in Years : z.years[u] = IF u = y THEN YearHash(w.live, y)
                                       ELSE s.years[u]
      BY DEF Worlds, RootStates
<1>2. \A m \in Months : MonthClosed(w, z.months[m].hash, m)
      BY <1>1 DEF RootSound
<1>3. ASSUME NEW u \in Years, u # y
      PROVE  YearClosed(w, z, u)
      <2>1. YearClosed(w, s, u)
            BY DEF RootSound
      <2> QED BY <1>1, <1>3, <2>1 DEF YearClosed
<1>4. YearClosed(w, z, y)
      <2> DEFINE h == YearHash(w.live, y)
      <2>1. z.years[y] = h
            BY <1>1
      <2>2. \A d \in DOMAIN h : h[d] <= w.newest[d]
            <3>1. /\ DOMAIN h = {d \in Days : YearOf[MonthOf[d]] = y
                                            /\ w.live[d] # Absent}
                  /\ \A d \in Days : YearOf[MonthOf[d]] = y /\ w.live[d] # Absent
                        => h[d] = w.live[d]
                  BY <1>1, YearHashIs
            <3> HIDE DEF h
            <3>2. \A d \in DOMAIN h : d \in Days /\ h[d] = w.live[d]
                  BY <3>1
            <3> QED BY <3>2
      <2>3. ASSUME NEW f \in Trees, h = YearHash(f, y),
                   NEW m \in MonthsIn(f), YearOf[m] = y
            PROVE  z.months[m].hash = MonthHash(f, m)
            <3>1. m \in Months
                  BY TreeMonths
            <3>2. MonthHash(f, m) = MonthHash(w.live, m) /\ m \in MonthsIn(w.live)
                  BY <1>1, <2>3, <3>1, MonthsOfYear
            <3> QED BY <1>1, <2>3, <3>2
      <2> HIDE DEF h
      <2> QED BY <2>1, <2>2, <2>3 DEF YearClosed, h
<1>5. RootClosed(w, z)
      BY <1>1 DEF RootClosed
<1> QED BY <1>2, <1>3, <1>4, <1>5 DEF RootSound

LEMMA EndYearSound ==
    ASSUME IInv, EndYear
    PROVE  IInv'
<1> DEFINE y == run.year
           h == YearHash(live, y)
           z == [run.state EXCEPT !.years[y] = h, !.root = NoHash]
<1>1. At("yearEnd") /\ UNCHANGED <<r2, inv, copy, shard, ckpt, faults>>
      BY DEF EndYear
<1>2. /\ y \in Years /\ invRoot = live /\ live \in Trees
      /\ run.state \in RootStates
      BY <1>1 DEF IInv, InMemory, At, Resting, TypeOK, RunStates
<1>3. h \in Hashes /\ h # NoHash
      BY <1>2, YearHashIs DEF Hashes
<1>4. CASE YearComplete(y)
      <2>1. /\ tops' = [tops EXCEPT !.years[y] = h]
            /\ run' = [run EXCEPT !.pc = "years", !.month = 0, !.dirty = TRUE,
                              !.state.years[y] = YearHash(invRoot, y),
                              !.state.root = NoHash]
            BY <1>4 DEF EndYear
      <2>2. z \in RootStates
            BY <1>2, <1>3 DEF RootStates, RootHashes
      <2>3. /\ run'.pc = "years" /\ run'.state = z /\ run'.prior = run.prior
            BY <1>2, <2>1 DEF IInv, TypeOK, RunStates
      <2>4. run' \in RunStates
            BY <1>2, <2>1, <2>2 DEF IInv, TypeOK, RunStates, Steps
      <2> HIDE DEF h, y
      <2>5. TypeOK'
            <3>1. tops' \in [months : [Months -> Hashes], years : [Years -> Hashes],
                             root : RootHashes, latest : RootHashes]
                  BY <1>2, <1>3, <2>1 DEF IInv, TypeOK
            <3> QED BY <1>1, <2>4, <3>1 DEF IInv, TypeOK, r2, inv
      <2>6. /\ tops'.years[y] = h /\ tops'.months = tops.months /\ tops'.root = tops.root
            /\ \A u \in Years : u # y => tops'.years[u] = tops.years[u]
            BY <1>2, <2>1 DEF IInv, TypeOK
      <2>7. \A u \in Years : tops'.years[u] \in {tops.years[u], YearHash(live, u)}
            BY <2>6 DEF h
      <2>8. /\ Keeps(View, View') /\ Resting' /\ NotAhead' /\ Stored'
            /\ RootSound(View', run.state) /\ Recorded(View', run.prior, Days)
            BY <1>1, <2>5, <2>6, <2>7, TopsWritten DEF At
      <2>9. RootSound(View', z)
            <3>1. View' \in Worlds
                  BY <2>5, ViewTypedNext
            <3>2. /\ View'.live = live /\ View'.newest = newest
                  /\ View'.tops.years[y] = h
                  BY <1>1, <2>6 DEF View, r2
            <3>3. \A d \in Days : View'.live[d] <= View'.newest[d]
                  BY <3>2 DEF IInv, Resting
            <3>4. \A m \in MonthsIn(View'.live) : YearOf[m] = y =>
                     run.state.months[m].hash = MonthHash(View'.live, m)
                  BY <1>2, <1>4, <3>2 DEF YearComplete
            <3>5. z = [run.state EXCEPT !.years[y] = YearHash(View'.live, y),
                                        !.root = NoHash]
                  BY <3>2 DEF h
            <3>6. View'.tops.years[y] = YearHash(View'.live, y)
                  BY <3>2 DEF h
            <3> HIDE DEF z
            <3> QED BY <1>2, <2>2, <2>8, <3>1, <3>3, <3>4, <3>5, <3>6, YearClosedBy
      <2>10. InMemory'
            BY <2>3, <2>8, <2>9 DEF InMemory
      <2> QED BY <2>5, <2>8, <2>10 DEF IInv
<1>5. CASE ~YearComplete(y)
      <2>1. run' = [run EXCEPT !.pc = "years", !.month = 0] /\ UNCHANGED tops
            BY <1>5 DEF EndYear
      <2>2. View' = View /\ live' = live /\ invRoot' = invRoot
            BY <1>1, <2>1 DEF View, r2, inv
      <2>3. /\ run'.pc = "years" /\ run'.prior = run.prior /\ run'.state = run.state
            BY <2>1 DEF IInv, TypeOK, RunStates
      <2>4. TypeOK'
            <3>1. run' \in RunStates
                  BY <2>1 DEF IInv, TypeOK, RunStates, Steps
            <3> QED BY <1>1, <2>1, <3>1 DEF IInv, TypeOK, r2, inv
      <2>5. InMemory'
            BY <2>2, <2>3 DEF IInv, InMemory
      <2> QED BY <1>1, <1>2, <2>2, <2>4, <2>5, RunOnly
<1> QED BY <1>4, <1>5

-----------------------------------------------------------------------------
(* The other domains, latest and the root.                                 *)
LEMMA OtherDomainsSound ==
    ASSUME IInv, OtherDomains \/ OtherDomainsFail
    PROVE  IInv'
<1>1. /\ At("domains") /\ UNCHANGED <<r2, inv, dropbox>>
      /\ faults' \in {faults, faults + 1}
      /\ \/ run' = [run EXCEPT !.pc = "latest", !.dirty = TRUE]
         \/ run' = [run EXCEPT !.pc = "save", !.dirty = TRUE, !.stopping = TRUE]
      BY DEF OtherDomains, OtherDomainsFail
<1>2. View' = View /\ UNCHANGED <<shard, ckpt, invRoot, live>>
      BY <1>1 DEF View, r2, inv, dropbox
<1>3. invRoot = live
      BY <1>1 DEF IInv, Resting, At
<1>4. run' \in RunStates /\ faults' \in Nat
      <2>1. /\ [run EXCEPT !.pc = "latest", !.dirty = TRUE] \in RunStates
            /\ [run EXCEPT !.pc = "save", !.dirty = TRUE, !.stopping = TRUE]
                  \in RunStates
            BY DEF IInv, TypeOK, RunStates, Steps
      <2>2. faults' \in Nat
            BY <1>1 DEF IInv, TypeOK
      <2> QED BY <1>1, <2>1, <2>2
<1>5. TypeOK'
      BY <1>1, <1>4 DEF IInv, TypeOK, r2, inv, dropbox
<1>6. /\ run'.pc \in {"latest", "save"}
      /\ run'.prior = run.prior /\ run'.state = run.state
      BY <1>1 DEF IInv, TypeOK, RunStates
<1>7. InMemory'
      BY <1>2, <1>6 DEF IInv, InMemory
<1> QED BY <1>2, <1>3, <1>5, <1>7, RunOnly

LEMMA CopyLatestSound ==
    ASSUME IInv, CopyLatest
    PROVE  IInv'
<1>1. /\ At("latest") /\ UNCHANGED <<r2, inv, copy, shard, ckpt>>
      /\ faults' \in {faults, faults + 1}
      /\ tops' = tops \/ tops' = [tops EXCEPT !.latest = live]
      /\ \/ run' = [run EXCEPT !.pc = "root"]
         \/ run' = [run EXCEPT !.pc = "root", !.state.latest = invRoot]
      BY DEF CopyLatest
<1>2. invRoot = live /\ live \in Trees /\ run.state \in RootStates
      BY <1>1 DEF IInv, Resting, At, TypeOK, RunStates
<1>3. [run.state EXCEPT !.latest = invRoot] \in RootStates
      BY <1>2 DEF RootStates, RootHashes
<1>4. run' \in RunStates
      <2>1. run \in RunStates /\ "root" \in Steps
            BY DEF IInv, TypeOK, Steps
      <2>2. /\ [run EXCEPT !.pc = "root"] \in RunStates
            /\ \A s \in RootStates : [run EXCEPT !.pc = "root", !.state = s] \in RunStates
            BY <2>1 DEF RunStates
      <2>3. [run EXCEPT !.pc = "root", !.state.latest = invRoot]
              = [run EXCEPT !.pc = "root", !.state = [run.state EXCEPT !.latest = invRoot]]
            BY <2>1 DEF RunStates
      <2> QED BY <1>1, <1>3, <2>2, <2>3
<1>5. /\ run'.pc = "root" /\ run'.prior = run.prior
      /\ run'.state \in {run.state, [run.state EXCEPT !.latest = invRoot]}
      BY <1>1 DEF IInv, TypeOK, RunStates
<1>6. TypeOK'
      <2>1. tops' \in [months : [Months -> Hashes], years : [Years -> Hashes],
                       root : RootHashes, latest : RootHashes]
            BY <1>1, <1>2 DEF IInv, TypeOK, RootHashes
      <2>2. faults' \in Nat
            BY <1>1 DEF IInv, TypeOK
      <2> QED BY <1>1, <1>4, <2>1, <2>2 DEF IInv, TypeOK, r2, inv
<1>7. /\ tops'.months = tops.months /\ tops'.years = tops.years
      /\ tops'.root = tops.root
      BY <1>1 DEF IInv, TypeOK
<1>8. /\ Keeps(View, View') /\ Resting' /\ NotAhead' /\ Stored'
      /\ RootSound(View', run.state) /\ Recorded(View', run.prior, Days)
      BY <1>1, <1>6, <1>7, TopsWritten DEF At
<1>9. RootSound(View', run'.state)
      <2>1. CASE run'.state = run.state
            BY <1>8, <2>1
      <2>2. CASE run'.state = [run.state EXCEPT !.latest = invRoot]
            <3>1. /\ run'.state.months = run.state.months
                  /\ run'.state.years = run.state.years
                  /\ run'.state.root = run.state.root
                  BY <1>2, <2>2 DEF RootStates
            <3> QED BY <1>8, <3>1 DEF RootSound, YearClosed, RootClosed
      <2> QED BY <1>5, <2>1, <2>2
<1>10. InMemory'
      BY <1>5, <1>8, <1>9 DEF InMemory
<1> QED BY <1>6, <1>8, <1>10 DEF IInv

LEMMA CopyRootSound ==
    ASSUME IInv, CopyRoot
    PROVE  IInv'
<1>1. At("root") /\ UNCHANGED <<r2, inv, copy, shard, ckpt, faults>>
      BY DEF CopyRoot
<1>2. invRoot = live /\ live \in Trees /\ run.state \in RootStates
      BY <1>1 DEF IInv, Resting, At, TypeOK, RunStates
<1>3. CASE AllYearsComplete
      <2> DEFINE z == [run.state EXCEPT !.root = live]
      <2>1. /\ tops' = [tops EXCEPT !.root = live]
            /\ run' = [run EXCEPT !.pc = "save", !.state.root = live]
            BY <1>2, <1>3 DEF CopyRoot
      <2>2. /\ z \in RootStates /\ z.root = live
            /\ z.months = run.state.months /\ z.years = run.state.years
            BY <1>2 DEF RootStates, RootHashes
      <2>3. run'.pc = "save" /\ run'.state = z /\ run'.prior = run.prior
            BY <2>1 DEF IInv, TypeOK, RunStates
      <2>4. run' \in RunStates
            BY <2>1, <2>2 DEF IInv, TypeOK, RunStates, Steps
      <2> HIDE DEF z
      <2>5. TypeOK'
            <3>1. tops' \in [months : [Months -> Hashes], years : [Years -> Hashes],
                             root : RootHashes, latest : RootHashes]
                  BY <1>2, <2>1 DEF IInv, TypeOK, RootHashes
            <3> QED BY <1>1, <2>4, <3>1 DEF IInv, TypeOK, r2, inv
      <2>6. /\ tops'.root = live /\ tops'.months = tops.months
            /\ tops'.years = tops.years
            BY <2>1 DEF IInv, TypeOK
      <2>7. /\ Keeps(View, View') /\ Resting' /\ NotAhead' /\ Stored'
            /\ RootSound(View', run.state) /\ Recorded(View', run.prior, Days)
            BY <1>1, <2>5, <2>6, TopsWritten DEF At
      <2>8. \A y \in YearsIn(live) : run.state.years[y] = YearHash(live, y)
            BY <1>2, <1>3 DEF AllYearsComplete
      <2>9. ASSUME NEW m \in MonthsIn(live)
            PROVE  run.state.months[m].hash = MonthHash(live, m)
            <3>1. YearOf[m] \in YearsIn(live) /\ YearOf[m] \in Years
                  BY <1>2, TreeMonths DEF YearsIn
            <3>2. /\ run.state.years[YearOf[m]] = YearHash(live, YearOf[m])
                  /\ run.state.years[YearOf[m]] # NoHash
                  <4>1. YearHash(live, YearOf[m]) # NoHash
                        BY <1>2, <3>1, YearHashIs
                  <4> QED BY <2>8, <3>1, <4>1
            <3>3. YearClosed(View', run.state, YearOf[m])
                  BY <2>7, <3>1 DEF RootSound
            <3> QED BY <1>2, <3>2, <3>3 DEF YearClosed
      <2>10. RootClosed(View', z)
            <3>1. /\ View'.live = live /\ View'.newest = newest
                  /\ View'.tops.root = live
                  BY <1>1, <2>6 DEF View, r2
            <3>2. \A d \in Days : live[d] <= newest[d]
                  BY DEF IInv, Resting
            <3> QED BY <2>2, <2>8, <2>9, <3>1, <3>2 DEF RootClosed
      <2>11. RootSound(View', z)
            BY <2>2, <2>7, <2>10 DEF RootSound, YearClosed
      <2>12. InMemory'
            BY <2>3, <2>7, <2>11 DEF InMemory
      <2> QED BY <2>5, <2>7, <2>12 DEF IInv
<1>4. CASE ~AllYearsComplete
      <2>1. run' = [run EXCEPT !.pc = "save"] /\ UNCHANGED tops
            BY <1>4 DEF CopyRoot
      <2>2. View' = View /\ live' = live /\ invRoot' = invRoot
            BY <1>1, <2>1 DEF View, r2, inv
      <2>3. /\ run'.pc = "save" /\ run'.prior = run.prior /\ run'.state = run.state
            BY <2>1 DEF IInv, TypeOK, RunStates
      <2>4. TypeOK'
            <3>1. run' \in RunStates
                  BY <2>1 DEF IInv, TypeOK, RunStates, Steps
            <3> QED BY <1>1, <2>1, <3>1 DEF IInv, TypeOK, r2, inv
      <2>5. InMemory'
            BY <2>2, <2>3 DEF IInv, InMemory
      <2> QED BY <1>1, <1>2, <2>2, <2>4, <2>5, RunOnly
<1> QED BY <1>3, <1>4

LEMMA SaveRootSound ==
    ASSUME IInv, SaveRoot
    PROVE  IInv'
<1>1. /\ run' = Idle /\ UNCHANGED <<r2, inv, copy, tops, shard, faults>>
      /\ ckpt' \in {ckpt, run.state}
      BY DEF SaveRoot
<1>2. View' = View
      BY <1>1 DEF View, r2
<1>3. ckpt' = ckpt \/ (ckpt' \in RootStates /\ RootSound(View, ckpt'))
      BY <1>1 DEF IInv, TypeOK, RunStates, InMemory
<1>4. TypeOK'
      BY <1>1, <1>3, EmptyTyped DEF IInv, TypeOK, r2, inv
<1>5. Resting' /\ NotAhead'
      <2>1. run'.pc = "idle"
            BY <1>1 DEF Idle
      <2> QED BY <1>1, <2>1 DEF IInv, Resting, NotAhead, At, r2
<1>6. Stored'
      BY <1>1, <1>2, <1>3 DEF IInv, Stored
<1>7. InMemory'
      BY <1>1, IdleInMemory DEF InMemory
<1> QED BY <1>4, <1>5, <1>6, <1>7 DEF IInv

LEMMA DiesSound ==
    ASSUME IInv, Dies
    PROVE  IInv'
<1>1. /\ run' = Idle /\ UNCHANGED <<r2, inv, dropbox>> /\ faults' = faults + 1
      BY DEF Dies
<1>2. View' = View /\ UNCHANGED <<shard, ckpt>>
      BY <1>1 DEF View, r2, dropbox
<1>3. TypeOK'
      BY <1>1, EmptyTyped DEF IInv, TypeOK, r2, inv, dropbox
<1> QED BY <1>1, <1>2, <1>3, RunOver

-----------------------------------------------------------------------------
(* The invariant.                                                          *)
LEMMA NextSound ==
    ASSUME IInv, [Next]_vars
    PROVE  IInv'
<1>1. ASSUME UNCHANGED vars
      PROVE  IInv'
      <2>1. /\ UNCHANGED <<live, newest, reverted, writes, invRoot, invShard,
                           copy, tops, shard, ckpt, run, faults>>
            BY <1>1 DEF vars, r2, inv, dropbox
      <2>2. View' = View
            BY <2>1 DEF View
      <2>3. TypeOK'
            BY <2>1 DEF IInv, TypeOK
      <2>4. InMemory'
            BY <2>1, <2>2 DEF IInv, InMemory
      <2> QED BY <2>1, <2>2, <2>3, <2>4, RunOnly DEF IInv, Resting, At
<1>2. ASSUME NEW d \in Days, Write(d) \/ Revert(d)
      PROVE  IInv'
      BY <1>2, WriteSound, RevertSound
<1>3. ASSUME Start
      PROVE  IInv'
      BY <1>3, StartRunSound DEF Start
<1>4. ASSUME RunStep
      PROVE  IInv'
      BY <1>4, PutInventoryShardSound, PutInventoryRootSound, NextYearSound,
         InspectMonthSound, EndMonthsSound, CopyDaySound, FlushSound, EndDaysSound,
         EndYearSound, OtherDomainsSound, CopyLatestSound, CopyRootSound,
         SaveRootSound DEF RunStep
<1>5. ASSUME CopyFails \/ OtherDomainsFail \/ Dies
      PROVE  IInv'
      BY <1>5, CopyFailsSound, OtherDomainsSound, DiesSound
<1> QED BY <1>1, <1>2, <1>3, <1>4, <1>5 DEF Next

(* Through interruptions anywhere, what a checkpoint records stays true of *)
(* the copy (sync_history_to_dropbox.mjs:1513-1838).                       *)
THEOREM BackupInvariant == Spec => []IInv
<1>1. Init => IInv
      BY InitSound
<1>2. IInv /\ [Next]_vars => IInv'
      BY NextSound
<1> QED BY <1>1, <1>2, PTL DEF Spec

THEOREM BackupTypeCorrect == Spec => []TypeOK
<1>1. IInv => TypeOK
      BY DEF IInv
<1> QED BY <1>1, BackupInvariant, PTL

(* The root a checkpoint names is the one its years and months add up to.  *)
THEOREM CheckpointsAgree == Spec => []CheckpointAgrees
<1>1. IInv => CheckpointAgrees
      BY DEF IInv, Stored, RootSound, RootClosed, CheckpointAgrees
<1> QED BY <1>1, BackupInvariant, PTL

LEMMA AllowedIsCopied ==
    ASSUME IInv, Allowed
    PROVE  /\ \A d \in Days \ reverted : live[d] # Absent => CopyIsLive(d)
           /\ \A m \in MonthsIn(live) :
                 reverted \intersect DaysOf(m) = {}
                     => tops.months[m] = MonthHash(live, m)
           /\ reverted = {} =>
                 /\ tops.root = live
                 /\ \A y \in YearsIn(live) : tops.years[y] = YearHash(live, y)
<1>1. /\ ckpt # NoState /\ ckpt.root = live /\ ckpt.root # NoHash
      /\ live \in Trees
      BY DEF Allowed, CheckpointComplete, IInv, TypeOK
<1>2. RootSound(View, ckpt)
      BY <1>1 DEF IInv, Stored
<1>3. /\ \A y \in YearsIn(live) : ckpt.years[y] = YearHash(live, y)
      /\ \A m \in MonthsIn(live) : ckpt.months[m].hash = MonthHash(live, m)
      /\ reverted = {} => tops.root = live
      BY <1>1, <1>2 DEF RootSound, RootClosed, View
<1>4. ASSUME NEW m \in MonthsIn(live)
      PROVE  /\ m \in Months /\ MonthClosed(View, MonthHash(live, m), m)
             /\ MonthHash(live, m) # NoHash
      <2>1. m \in Months
            BY <1>1, TreeMonths
      <2> QED BY <1>1, <1>2, <1>3, <2>1, MonthHashIs DEF RootSound
<1>5. ASSUME NEW m \in MonthsIn(live), reverted \intersect DaysOf(m) = {}
      PROVE  tops.months[m] = MonthHash(live, m)
      BY <1>4, <1>5 DEF MonthClosed, View
<1>6. ASSUME reverted = {}, NEW y \in YearsIn(live)
      PROVE  tops.years[y] = YearHash(live, y)
      <2>1. y \in Years
            BY <1>1, TreeMonths
      <2>2. YearClosed(View, ckpt, y) /\ YearHash(live, y) # NoHash
            BY <1>1, <1>2, <2>1, YearHashIs DEF RootSound
      <2> QED BY <1>3, <1>6, <2>2 DEF YearClosed, View
<1>7. ASSUME NEW d \in Days \ reverted, live[d] # Absent
      PROVE  CopyIsLive(d)
      <2> DEFINE h == MonthHash(live, MonthOf[d])
      <2>1. MonthOf[d] \in MonthsIn(live) /\ d \in DaysOf(MonthOf[d])
            BY <1>7 DEF MonthsIn, DaysOf
      <2>2. d \in DOMAIN h /\ h[d] = live[d]
            BY <1>1, <1>4, <1>7, <2>1, MonthHashIs
      <2>3. Recorded(View, h, DOMAIN h)
            BY <1>4, <2>1 DEF MonthClosed
      <2> HIDE DEF h
      <2>4. /\ live[d] <= copy[d].manifest
            /\ ParquetOf[live[d]] <= copy[d].parquet
            BY <1>7, <2>2, <2>3 DEF Recorded, View
      <2>5. /\ copy[d] \in [manifest : 0..MaxVersion, parquet : Files]
            /\ copy[d].manifest \in Nat /\ copy[d].parquet \in Nat
            BY ViewTyped, CopyNumbers DEF IInv, TypeOK, View
      <2>6. /\ live[d] \in Versions /\ live[d] \in Nat
            /\ ParquetOf[live[d]] \in Nat \ {0}
            BY <1>1, <1>7, Numbers DEF Trees, Versions, Absent
      <2>7. copy[d].parquet # 0
            BY <2>4, <2>5, <2>6
      <2>8. /\ copy[d].manifest <= live[d]
            /\ copy[d].parquet <= ParquetOf[live[d]]
            BY <2>7 DEF IInv, NotAhead
      <2>9. /\ copy[d].manifest = live[d]
            /\ copy[d].parquet = ParquetOf[live[d]]
            BY <2>4, <2>5, <2>6, <2>8
      <2> QED BY <2>5, <2>9 DEF CopyIsLive
<1> QED BY <1>3, <1>5, <1>6, <1>7

(* When the check lets the integrity tools rely on Dropbox, every live day *)
(* is there whole and as it is now (dropbox_currentness.mjs).              *)
THEOREM CurrentCopies == Spec => []CurrentMeansCopied
<1>1. IInv => CurrentMeansCopied
      BY AllowedIsCopied DEF CurrentMeansCopied
<1> QED BY <1>1, BackupInvariant, PTL
=============================================================================
