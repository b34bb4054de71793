-------------------------- MODULE DropboxBackupInv --------------------------
(***************************************************************************)
(* The inductive invariant of DropboxBackup: what every record of a copied *)
(* day, wherever a crash may have left it, still says of the copy.         *)
(***************************************************************************)
EXTENDS DropboxBackup

(* A hash is told from the functions hashes stand for.                     *)
ASSUME NoHashAssumption ==
    \A S \in SUBSET Days : NoHash \notin [S -> 0..MaxVersion]

Trees == [Days -> 0..MaxVersion]
Lists == UNION {[S -> Versions] : S \in SUBSET Days}

Hashes     == Lists \union {NoHash}
RootHashes == Trees \union {NoHash}

MonthStates == [hash : Hashes, days : Trees]

RootStates == [root : RootHashes, latest : RootHashes,
               years : [Years -> Hashes],
               months : [Months -> [hash : Hashes,
                                    shard : MonthStates \union {NoState}]]]

Steps == {"idle", "inventory", "years", "months", "copy", "flush", "flushEnd",
          "yearEnd", "domains", "latest", "root", "save"}

RunStates == [pc : Steps, reuse : BOOLEAN, limit : Nat, copied : Nat,
              state : RootStates, dirty : BOOLEAN, year : Nat, month : Nat,
              ms : MonthStates, prior : Trees, monthDirty : BOOLEAN,
              units : Nat, stopping : BOOLEAN]

Files == {0} \union {ParquetOf[v] : v \in Versions}

(* Every object and the run's memory hold what the code can put there.     *)
TypeOK ==
    /\ live \in Trees /\ newest \in Trees /\ reverted \subseteq Days
    /\ invRoot \in RootHashes /\ invShard \in [Months -> Hashes]
    /\ copy \in [Days -> [manifest : 0..MaxVersion, parquet : Files]]
    /\ tops \in [months : [Months -> Hashes], years : [Years -> Hashes],
                 root : RootHashes, latest : RootHashes]
    /\ shard \in [Months -> MonthStates \union {NoState}]
    /\ ckpt \in RootStates \union {NoState}
    /\ run \in RunStates
    /\ writes \in Nat /\ faults \in Nat

(* R2 rests while a run is under way, and but for days that came back a    *)
(* day is at its newest version.                                           *)
Resting ==
    /\ ~At("idle") /\ ~At("inventory") => invRoot = live
    /\ \A d \in Days : /\ live[d] <= newest[d]
                       /\ d \notin reverted => live[d] = newest[d]

(* The copy is never ahead of R2.                                          *)
NotAhead ==
    \A d \in Days \ reverted :
        /\ copy[d].manifest <= live[d]
        /\ copy[d].parquet # 0 =>
              live[d] # Absent /\ copy[d].parquet <= ParquetOf[live[d]]

(* What the records are about: R2 and its history, and Dropbox's tree.     *)
View == [live |-> live, newest |-> newest, reverted |-> reverted,
         copy |-> copy, tops |-> tops]

(* In the view w, the versions in f are no newer than R2's, and the copies *)
(* they record have not gone back since.                                   *)
Recorded(w, f, S) ==
    \A d \in S : f[d] # Absent =>
        /\ f[d] <= w.newest[d]
        /\ d \notin w.reverted => /\ f[d] <= w.copy[d].manifest
                                  /\ ParquetOf[f[d]] <= w.copy[d].parquet

(* A closed month.                                                         *)
MonthClosed(w, h, m) ==
    h # NoHash =>
        /\ Recorded(w, h, DOMAIN h)
        /\ (w.reverted \intersect DaysOf(m) = {} /\ h = MonthHash(w.live, m))
              => w.tops.months[m] = h

MonthSound(w, ms, m) ==
    /\ Recorded(w, ms.days, Days)
    /\ MonthClosed(w, ms.hash, m)

(* A closed year: the months under it are closed, as it lists them.        *)
YearClosed(w, s, y) ==
    s.years[y] # NoHash =>
        /\ \A d \in DOMAIN s.years[y] : s.years[y][d] <= w.newest[d]
        /\ (w.reverted = {} /\ s.years[y] = YearHash(w.live, y))
              => w.tops.years[y] = s.years[y]
        /\ \A f \in Trees : s.years[y] = YearHash(f, y) =>
              \A m \in MonthsIn(f) : YearOf[m] = y =>
                  s.months[m].hash = MonthHash(f, m)

RootClosed(w, s) ==
    s.root # NoHash =>
        /\ \A d \in Days : s.root[d] <= w.newest[d]
        /\ (w.reverted = {} /\ s.root = w.live) => w.tops.root = s.root
        /\ \A y \in YearsIn(s.root) : s.years[y] = YearHash(s.root, y)
        /\ \A m \in MonthsIn(s.root) : s.months[m].hash = MonthHash(s.root, m)

RootSound(w, s) ==
    /\ \A m \in Months : MonthClosed(w, s.months[m].hash, m)
    /\ \A y \in Years : YearClosed(w, s, y)
    /\ RootClosed(w, s)

(* What is on Dropbox and in the run's memory is sound.                    *)
Stored ==
    /\ \A m \in Months : shard[m] # NoState => MonthSound(View, shard[m], m)
    /\ ckpt # NoState => RootSound(View, ckpt)

InMemory ==
    /\ RootSound(View, run.state)
    /\ Recorded(View, run.prior, Days)
    /\ run.pc \in {"copy", "flush", "flushEnd"} =>
          run.month \in Months /\ MonthSound(View, run.ms, run.month)
    /\ run.pc \in {"months", "copy", "flush", "flushEnd", "yearEnd"} =>
          run.year \in Years

IInv ==
    /\ TypeOK
    /\ Resting
    /\ NotAhead
    /\ Stored
    /\ InMemory
=============================================================================
