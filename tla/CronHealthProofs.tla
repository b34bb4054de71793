-------------------------- MODULE CronHealthProofs --------------------------
(***************************************************************************)
(* The watchdog reports every outage once, whatever the order its answers  *)
(* come in: proofs of the invariants of CronHealth, from CronHealthInv.    *)
(***************************************************************************)
EXTENDS CronHealthInv, SequenceTheorems, FiniteSetTheorems,
        WellFoundedInduction, NaturalsInduction, TLAPS

-----------------------------------------------------------------------------
(***************************************************************************)
(* Numbers.                                                                *)
(***************************************************************************)
LEMMA Numbers ==
    /\ Threshold \in Nat /\ Threshold >= 1
    /\ Retention \in Nat /\ Timeout \in Nat /\ Timeout + Threshold < Retention
    /\ MaxInFlight \in Nat /\ MaxInFlight >= 1
    /\ ReportRetries \in Nat /\ MaxMinute \in Nat
    /\ \A m \in Minutes : m \in Nat /\ m >= 1 /\ m <= MaxMinute
    /\ None = 0 /\ None \notin Minutes
BY SettingsAssumption DEF Minutes, None

(* Min gives the least number of a non-empty set.                          *)
LEMMA MinIn ==
    ASSUME NEW S \in SUBSET Nat, S # {}
    PROVE  Min(S) \in S /\ \A y \in S : Min(S) <= y
<1> DEFINE R == OpToRel(<, Nat)
<1>1. IsWellFoundedOn(R, Nat)
  BY NatLessThanWellFounded
<1>2. PICK x \in S : \A y \in S : ~ (<<y, x>> \in R)
  <2> HIDE DEF R
  <2> QED BY <1>1, WFMin
<1>3. \A y \in S : x <= y
  <2> SUFFICES ASSUME NEW y \in S PROVE x <= y
    OBVIOUS
  <2>1. x \in Nat /\ y \in Nat
    OBVIOUS
  <2>2. ~ (y < x)
    BY <1>2, <2>1 DEF OpToRel
  <2> HIDE DEF R
  <2> QED BY <2>1, <2>2
<1> HIDE DEF R
<1> QED BY <1>3 DEF Min

(* Max gives the greatest of a bounded one.                                *)
LEMMA MaxIn ==
    ASSUME NEW N \in Nat, NEW S \in SUBSET (0..N), S # {}
    PROVE  Max(S) \in S /\ \A y \in S : y <= Max(S)
<1> DEFINE T == {N - y : y \in S}
<1>1. T \in SUBSET Nat /\ T # {}
  <2>1. \A y \in S : N - y \in Nat
    OBVIOUS
  <2> QED BY <2>1
<1>2. Min(T) \in T /\ \A y \in T : Min(T) <= y
  <2> HIDE DEF T
  <2> QED BY <1>1, MinIn
<1>3. PICK x \in S : Min(T) = N - x
  BY <1>2
<1>4. \A y \in S : x >= y
  <2> SUFFICES ASSUME NEW y \in S PROVE x >= y
    OBVIOUS
  <2>1. N - x <= N - y
    BY <1>2, <1>3
  <2> HIDE DEF T
  <2> QED BY <2>1
<1>5. \E z \in S : \A y \in S : z >= y
  BY <1>4
<1>6. Max(S) \in S /\ \A y \in S : Max(S) >= y
  BY <1>5 DEF Max
<1> QED BY <1>6

-----------------------------------------------------------------------------
(***************************************************************************)
(* Runs of minutes the watchdog claimed.                                   *)
(***************************************************************************)
Readable(obs) ==
    DOMAIN obs \subseteq Minutes /\ \A m \in DOMAIN obs : obs[m] \in Sources

LEMMA RunIs ==
    ASSUME NEW obs, Readable(obs), NEW run \in TakeoverRuns(obs)
    PROVE  /\ run \in Interval /\ run.first <= run.last
           /\ run.first \in Minutes /\ run.last \in Minutes
           /\ run.first..run.last \subseteq MinutesOf(obs, "watchdog")
           /\ run.first - 1 \notin MinutesOf(obs, "watchdog")
           /\ run.last + 1 \notin MinutesOf(obs, "watchdog")
BY DEF Readable, TakeoverRuns, MinutesOf, Interval

(* Consecutive minutes of the watchdog lie in one run.                     *)
LEMMA RunHolds ==
    ASSUME NEW obs, Readable(obs), NEW a \in Minutes, NEW b \in Minutes, a <= b,
           a..b \subseteq MinutesOf(obs, "watchdog")
    PROVE  \E run \in TakeoverRuns(obs) : run.first <= a /\ b <= run.last
<1> DEFINE taken == MinutesOf(obs, "watchdog")
           F == {x \in taken : x <= a /\ x..a \subseteq taken}
           L == {y \in taken : y >= b /\ b..y \subseteq taken}
<1>0. /\ taken \subseteq Minutes /\ \A m \in Minutes : m \in Nat /\ m <= MaxMinute
      /\ MaxMinute \in Nat /\ a \in taken /\ b \in taken /\ a..b \subseteq taken
      /\ a \in Nat /\ b \in Nat
  BY Numbers DEF Readable, MinutesOf
<1> HIDE DEF taken
<1>1. a \in F /\ F \in SUBSET Nat
  <2>1. a..a = {a}
    BY <1>0
  <2>2. F \subseteq Nat
    BY <1>0
  <2> QED BY <1>0, <2>1, <2>2
<1>2. b \in L /\ L \in SUBSET (0..MaxMinute)
  <2>1. b..b = {b}
    BY <1>0
  <2>2. taken \subseteq 0..MaxMinute
    BY <1>0
  <2>3. L \subseteq taken
    OBVIOUS
  <2>4. b \in L
    BY <1>0, <2>1
  <2>5. L \subseteq 0..MaxMinute
    <3> HIDE DEF L
    <3> QED BY <2>2, <2>3
  <2> HIDE DEF L
  <2> QED BY <2>4, <2>5
<1>3. Min(F) \in F /\ \A x \in F : Min(F) <= x
  <2> HIDE DEF F
  <2> QED BY <1>1, MinIn
<1>4. Max(L) \in L /\ \A y \in L : y <= Max(L)
  <2> HIDE DEF L
  <2> QED BY <1>0, <1>2, MaxIn
<1> DEFINE f == Min(F)
           l == Max(L)
<1>5. f \in F /\ (\A x \in F : f <= x) /\ l \in L /\ (\A y \in L : y <= l)
  BY <1>3, <1>4
<1> HIDE DEF f, l
<1>6. f \in taken /\ l \in taken /\ f \in Nat /\ l \in Nat /\ f <= a /\ l >= b
  BY <1>0, <1>5
<1>7. f..l \subseteq taken
  <2>1. f..l \subseteq (f..a) \cup (a..b) \cup (b..l)
    BY <1>0, <1>6
  <2> QED BY <1>0, <1>5, <2>1
<1>8. f - 1 \notin taken
  <2> SUFFICES ASSUME f - 1 \in taken PROVE FALSE
    OBVIOUS
  <2>1. (f - 1)..a \subseteq {f - 1} \cup (f..a)
    BY <1>0, <1>6
  <2>2. f - 1 \in F
    BY <1>0, <1>5, <1>6, <2>1
  <2> QED BY <1>5, <1>6, <2>2
<1>9. l + 1 \notin taken
  <2> SUFFICES ASSUME l + 1 \in taken PROVE FALSE
    OBVIOUS
  <2>1. b..(l + 1) \subseteq {l + 1} \cup (b..l)
    BY <1>0, <1>6
  <2>2. l + 1 \in L
    BY <1>0, <1>5, <1>6, <2>1
  <2> QED BY <1>5, <1>6, <2>2
<1>10. [first |-> f, last |-> l] \in TakeoverRuns(obs)
  BY <1>0, <1>6, <1>7, <1>8, <1>9 DEF TakeoverRuns, taken
<1> QED BY <1>6, <1>10

LEMMA RunsApart ==
    ASSUME NEW obs, Readable(obs),
           NEW r \in TakeoverRuns(obs), NEW s \in TakeoverRuns(obs)
    PROVE  /\ r.first < s.first => r.last < s.first
           /\ r.first = s.first => r = s
<1>1. /\ r \in Interval /\ s \in Interval
      /\ r.first \in Nat /\ r.last \in Nat /\ r.first <= r.last
      /\ s.first \in Nat /\ s.last \in Nat /\ s.first <= s.last
  BY RunIs, Numbers
<1>2. ASSUME r.first < s.first, s.first <= r.last PROVE FALSE
  <2>1. s.first - 1 \in r.first..r.last
    BY <1>1, <1>2
  <2> QED BY <2>1, RunIs
<1>3. ASSUME r.first = s.first, r.last < s.last PROVE FALSE
  <2>1. r.last + 1 \in s.first..s.last
    BY <1>1, <1>3
  <2> QED BY <2>1, RunIs
<1>4. ASSUME r.first = s.first, s.last < r.last PROVE FALSE
  <2>1. s.last + 1 \in r.first..r.last
    BY <1>1, <1>4
  <2> QED BY <2>1, RunIs
<1>5. r.first = s.first => r.last = s.last
  BY <1>1, <1>3, <1>4
<1> QED BY <1>1, <1>2, <1>5 DEF Interval

LEMMA RecoveryIs ==
    ASSUME NEW obs, Readable(obs), NEW run \in TakeoverRuns(obs)
    PROVE  \/ /\ RecoveryOf(obs, run) = None
              /\ \A m \in MinutesOf(obs, "cron") : m <= run.last
           \/ /\ RecoveryOf(obs, run) \in MinutesOf(obs, "cron")
              /\ RecoveryOf(obs, run) > run.last
              /\ \A m \in MinutesOf(obs, "cron") :
                    m > run.last => RecoveryOf(obs, run) <= m
<1> DEFINE later == {m \in MinutesOf(obs, "cron") : m > run.last}
<1>1. MinutesOf(obs, "cron") \subseteq Nat /\ run.last \in Nat
  BY RunIs, Numbers DEF Readable, MinutesOf
<1>2. CASE later = {}
  BY <1>1, <1>2 DEF RecoveryOf
<1>3. CASE later # {}
  <2>1. Min(later) \in later /\ \A y \in later : Min(later) <= y
    <3>1. later \in SUBSET Nat
      BY <1>1
    <3> HIDE DEF later
    <3> QED BY <1>3, <3>1, MinIn
  <2>2. RecoveryOf(obs, run) = Min(later)
    BY <1>3 DEF RecoveryOf
  <2> HIDE DEF later
  <2>3. RecoveryOf(obs, run) \in later /\ \A y \in later : RecoveryOf(obs, run) <= y
    BY <2>1, <2>2
  <2> QED BY <2>3 DEF later
<1> QED BY <1>2, <1>3

(* Between runs with the same recovery Cron has claimed nothing.           *)
LEMMA SameRecovery ==
    ASSUME NEW obs, Readable(obs),
           NEW r \in TakeoverRuns(obs), NEW s \in TakeoverRuns(obs),
           RecoveryOf(obs, r) = RecoveryOf(obs, s),
           NEW m \in MinutesOf(obs, "cron"), r.first <= m
    PROVE  m > s.last
<1>1. /\ r.first \in Nat /\ r.last \in Nat /\ s.last \in Nat /\ m \in Nat
      /\ MinutesOf(obs, "cron") \subseteq Minutes
  BY RunIs, Numbers DEF Readable, MinutesOf
<1>2. m > r.last
  <2>1. m \notin r.first..r.last
    BY RunIs DEF MinutesOf
  <2> QED BY <1>1, <2>1
<1>3. RecoveryOf(obs, r) # None /\ RecoveryOf(obs, r) <= m /\ RecoveryOf(obs, r) \in Nat
  BY <1>1, <1>2, RecoveryIs, Numbers
<1>4. RecoveryOf(obs, s) > s.last
  BY <1>3, RecoveryIs
<1> QED BY <1>1, <1>3, <1>4

-----------------------------------------------------------------------------
(***************************************************************************)
(* Episodes.                                                               *)
(***************************************************************************)
(* An episode reaches from the first to the last of its runs, and is known *)
(* by the first.                                                           *)
LEMMA EpisodeRuns ==
    ASSUME NEW obs, Readable(obs), NEW run \in QualifyingRuns(obs),
           NEW e, e = EpisodeOf(obs, Together(obs, run))
    PROVE  \E r \in Together(obs, run), s \in Together(obs, run) :
              /\ e.first = r.first /\ e.last = s.last /\ e.identity = r
              /\ e.recovery = RecoveryOf(obs, run) /\ e.count \in Minutes
              /\ e.gaps = ~ (e.first..e.last \subseteq DOMAIN obs)
              /\ \A o \in Together(obs, run) :
                    r.first <= o.first /\ o.last <= s.last
<1> DEFINE runs == Together(obs, run)
<1>2. /\ run \in runs /\ runs \subseteq QualifyingRuns(obs)
      /\ \A o \in runs : RecoveryOf(obs, o) = RecoveryOf(obs, run)
  BY DEF Together
<1>3. \A o \in QualifyingRuns(obs) : o \in TakeoverRuns(obs) /\ Count(o) >= Threshold
  BY DEF QualifyingRuns
<1>4. \A o \in runs :
         /\ o.first \in Nat /\ o.last \in Nat /\ o.last \in 0..MaxMinute
         /\ Count(o) \in 1..MaxMinute
  <2> SUFFICES ASSUME NEW o \in runs
               PROVE  /\ o.first \in Nat /\ o.last \in Nat /\ o.last \in 0..MaxMinute
                      /\ Count(o) \in 1..MaxMinute
    OBVIOUS
  <2>1. o \in TakeoverRuns(obs)
    BY <1>2, <1>3
  <2>2. o.first \in Minutes /\ o.last \in Minutes /\ o.first <= o.last
    BY <2>1, RunIs
  <2> HIDE DEF runs
  <2> QED BY <2>2, Numbers DEF Count
<1> HIDE DEF runs
<1> DEFINE firsts == {o.first : o \in runs}
           lasts  == {o.last : o \in runs}
           counts == {Count(o) : o \in runs}
<1>5. Min(firsts) \in firsts /\ \A y \in firsts : Min(firsts) <= y
  <2>1. firsts \in SUBSET Nat /\ firsts # {}
    BY <1>2, <1>4
  <2> HIDE DEF firsts
  <2> QED BY <2>1, MinIn
<1>6. Max(lasts) \in lasts /\ \A y \in lasts : y <= Max(lasts)
  <2>1. lasts \in SUBSET (0..MaxMinute) /\ lasts # {}
    BY <1>2, <1>4
  <2> HIDE DEF lasts
  <2> QED BY <2>1, Numbers, MaxIn
<1>7. Max(counts) \in counts
  <2>1. counts \subseteq 0..MaxMinute
    BY <1>4, Numbers
  <2>2. counts # {}
    BY <1>2
  <2> HIDE DEF counts
  <2> QED BY <2>1, <2>2, Numbers, MaxIn
<1>8. Max(counts) \in Minutes
  BY <1>4, <1>7 DEF Minutes
<1>9. PICK r \in runs : r.first = Min(firsts)
  BY <1>5
<1>10. PICK s \in runs : s.last = Max(lasts)
  BY <1>6
<1>11. \A o \in runs : r.first <= o.first /\ o.last <= s.last
  BY <1>5, <1>6, <1>9, <1>10
<1> DEFINE earliest == CHOOSE o \in runs : o.first = Min(firsts)
<1>12. earliest = r
  <2>1. earliest \in runs /\ earliest.first = r.first
    BY <1>9
  <2> HIDE DEF earliest
  <2> QED BY <1>2, <1>3, <2>1, RunsApart
<1>13. e = [first |-> r.first, last |-> s.last, count |-> Max(counts),
            identity |-> r, recovery |-> RecoveryOf(obs, r),
            gaps |-> ~ (r.first..s.last \subseteq DOMAIN obs)]
  BY <1>9, <1>10, <1>12 DEF EpisodeOf, runs
<1>14. RecoveryOf(obs, r) = RecoveryOf(obs, run)
  BY <1>2
<1> HIDE DEF firsts, lasts, counts, earliest
<1>15. /\ e.first = r.first /\ e.last = s.last /\ e.identity = r
       /\ e.recovery = RecoveryOf(obs, run) /\ e.count \in Minutes
       /\ e.gaps = ~ (e.first..e.last \subseteq DOMAIN obs)
  BY <1>8, <1>13, <1>14
<1> QED BY <1>11, <1>15 DEF runs


(* An episode begins and ends with minutes of the watchdog, enough to      *)
(* qualify, and Cron has claimed no minute of it.                          *)
LEMMA EpisodeIs ==
    ASSUME NEW obs, Readable(obs), NEW e \in QualifyingEpisodes(obs)
    PROVE  /\ e.first \in Minutes /\ e.last \in Minutes /\ e.count \in Minutes
           /\ e.first + Threshold - 1 <= e.last
           /\ e.first..(e.first + Threshold - 1) \subseteq MinutesOf(obs, "watchdog")
           /\ (e.last - Threshold + 1)..e.last \subseteq MinutesOf(obs, "watchdog")
           /\ e.last + 1 \notin MinutesOf(obs, "watchdog")
           /\ \A m \in MinutesOf(obs, "cron") : m < e.first \/ m > e.last
           /\ e.identity \in Interval /\ e.identity.first = e.first
           /\ e.identity.last <= e.last /\ Count(e.identity) >= Threshold
           /\ e.identity.first..e.identity.last \subseteq MinutesOf(obs, "watchdog")
           /\ e.recovery # None =>
                e.recovery \in MinutesOf(obs, "cron") /\ e.recovery > e.last
           /\ e.gaps = ~ (e.first..e.last \subseteq DOMAIN obs)
<1>0. PICK run \in QualifyingRuns(obs) : e = EpisodeOf(obs, Together(obs, run))
  BY DEF QualifyingEpisodes
<1>a. PICK r \in Together(obs, run), s \in Together(obs, run) :
              /\ e.first = r.first /\ e.last = s.last /\ e.identity = r
              /\ e.recovery = RecoveryOf(obs, run) /\ e.count \in Minutes
              /\ e.gaps = ~ (e.first..e.last \subseteq DOMAIN obs)
              /\ \A o \in Together(obs, run) :
                    r.first <= o.first /\ o.last <= s.last
  BY <1>0, EpisodeRuns
<1>1. /\ r \in QualifyingRuns(obs) /\ s \in QualifyingRuns(obs)
      /\ RecoveryOf(obs, r) = RecoveryOf(obs, s)
      /\ RecoveryOf(obs, run) = RecoveryOf(obs, r)
  BY DEF Together
<1>2. /\ r \in TakeoverRuns(obs) /\ Count(r) >= Threshold
      /\ s \in TakeoverRuns(obs) /\ Count(s) >= Threshold
  BY <1>1 DEF QualifyingRuns
<1>3. /\ r \in Interval /\ r.first \in Minutes /\ r.last \in Minutes
      /\ s.first \in Minutes /\ s.last \in Minutes
      /\ r.first \in Nat /\ r.last \in Nat /\ r.first <= r.last
      /\ s.first \in Nat /\ s.last \in Nat /\ s.first <= s.last
  BY <1>2, RunIs, Numbers
<1>4. /\ r.first + Threshold - 1 <= r.last
      /\ s.first <= s.last - Threshold + 1
  BY <1>2, <1>3, Numbers DEF Count
<1>5. /\ r.first <= s.first /\ r.last <= s.last
  BY <1>a
<1>6. \A m \in MinutesOf(obs, "cron") : m < r.first \/ m > s.last
  <2> SUFFICES ASSUME NEW m \in MinutesOf(obs, "cron"), ~ (m < r.first)
               PROVE  m > s.last
    OBVIOUS
  <2>1. m \in Nat
    BY Numbers DEF Readable, MinutesOf
  <2>2. r.first <= m
    BY <1>3, <2>1
  <2> QED BY <1>1, <1>2, <2>2, SameRecovery
<1>7. RecoveryOf(obs, r) # None =>
        RecoveryOf(obs, r) \in MinutesOf(obs, "cron") /\ RecoveryOf(obs, r) > s.last
  BY <1>1, <1>2, RecoveryIs
<1>8. /\ r.first..r.last \subseteq MinutesOf(obs, "watchdog")
      /\ s.first..s.last \subseteq MinutesOf(obs, "watchdog")
      /\ s.last + 1 \notin MinutesOf(obs, "watchdog")
  BY <1>2, RunIs
<1>9. r.first..(r.first + Threshold - 1) \subseteq MinutesOf(obs, "watchdog")
  <2>1. r.first..(r.first + Threshold - 1) \subseteq r.first..r.last
    BY <1>3, <1>4, Numbers
  <2> QED BY <1>8, <2>1
<1>10. (s.last - Threshold + 1)..s.last \subseteq MinutesOf(obs, "watchdog")
  <2>1. (s.last - Threshold + 1)..s.last \subseteq s.first..s.last
    BY <1>3, <1>4, Numbers
  <2> QED BY <1>8, <2>1
<1>11. r.first + Threshold - 1 <= s.last
  BY <1>3, <1>4, <1>5, Numbers
<1> QED BY <1>a, <1>1, <1>2, <1>3, <1>5, <1>6, <1>7, <1>8, <1>9, <1>10, <1>11

(* Enough consecutive minutes of the watchdog lie in one episode.          *)
LEMMA EpisodeHolds ==
    ASSUME NEW obs, Readable(obs), NEW a \in Minutes, NEW b \in Minutes,
           b - a + 1 >= Threshold, a..b \subseteq MinutesOf(obs, "watchdog")
    PROVE  \E e \in QualifyingEpisodes(obs) : e.first <= a /\ b <= e.last
<1>1. a \in Nat /\ b \in Nat /\ a <= b
  BY Numbers
<1>2. PICK run \in TakeoverRuns(obs) : run.first <= a /\ b <= run.last
  BY <1>1, RunHolds
<1>3. run.first \in Nat /\ run.last \in Nat
  BY RunIs, Numbers
<1>4. run \in QualifyingRuns(obs)
  <2>1. Count(run) >= Threshold
    BY <1>1, <1>2, <1>3, Numbers DEF Count
  <2> QED BY <2>1 DEF QualifyingRuns
<1> DEFINE e == EpisodeOf(obs, Together(obs, run))
<1>5. e \in QualifyingEpisodes(obs)
  BY <1>4 DEF QualifyingEpisodes
<1>6. run \in Together(obs, run)
  BY <1>4 DEF Together
<1>7. PICK r \in Together(obs, run), s \in Together(obs, run) :
              /\ e.first = r.first /\ e.last = s.last
              /\ \A o \in Together(obs, run) :
                    r.first <= o.first /\ o.last <= s.last
  <2> HIDE DEF e
  <2> QED BY <1>4, EpisodeRuns DEF e
<1>8. /\ r.first \in Nat /\ s.last \in Nat
      /\ r.first <= run.first /\ run.last <= s.last
  <2>1. r \in TakeoverRuns(obs) /\ s \in TakeoverRuns(obs)
    BY DEF Together, QualifyingRuns
  <2> QED BY <1>6, <1>7, <2>1, RunIs, Numbers
<1>9. e.first <= a /\ b <= e.last
  <2> HIDE DEF e
  <2> QED BY <1>1, <1>2, <1>3, <1>7, <1>8
<1> HIDE DEF e
<1> QED BY <1>5, <1>9

(* Between two episodes Cron has claimed a minute.                         *)
LEMMA EpisodesApart ==
    ASSUME NEW obs, Readable(obs),
           NEW e \in QualifyingEpisodes(obs), NEW f \in QualifyingEpisodes(obs)
    PROVE  /\ e.first = f.first => e = f
           /\ e.first < f.first =>
                \E m \in MinutesOf(obs, "cron") : e.last < m /\ m < f.first
<1>1. PICK p \in QualifyingRuns(obs) : e = EpisodeOf(obs, Together(obs, p))
  BY DEF QualifyingEpisodes
<1>2. PICK q \in QualifyingRuns(obs) : f = EpisodeOf(obs, Together(obs, q))
  BY DEF QualifyingEpisodes
<1>3. PICK r \in Together(obs, p), s \in Together(obs, p) :
              /\ e.first = r.first /\ e.last = s.last
              /\ e.recovery = RecoveryOf(obs, p)
              /\ \A o \in Together(obs, p) :
                    r.first <= o.first /\ o.last <= s.last
  BY <1>1, EpisodeRuns
<1>4. PICK g \in Together(obs, q) :
              /\ f.first = g.first
              /\ f.recovery = RecoveryOf(obs, q)
  BY <1>2, EpisodeRuns
<1>5. /\ r \in TakeoverRuns(obs) /\ s \in TakeoverRuns(obs) /\ g \in TakeoverRuns(obs)
      /\ g \in QualifyingRuns(obs)
      /\ RecoveryOf(obs, r) = RecoveryOf(obs, p)
      /\ RecoveryOf(obs, s) = RecoveryOf(obs, p)
      /\ RecoveryOf(obs, g) = RecoveryOf(obs, q)
  BY DEF Together, QualifyingRuns
<1>6. RecoveryOf(obs, p) = RecoveryOf(obs, q) => e = f /\ r.first <= g.first
  <2>1. ASSUME RecoveryOf(obs, p) = RecoveryOf(obs, q) PROVE e = f
    <3>1. Together(obs, p) = Together(obs, q)
      BY <2>1 DEF Together
    <3> QED BY <1>1, <1>2, <3>1
  <2> QED BY <1>3, <1>4, <2>1, <1>5 DEF Together
<1>7. e.first = f.first => e = f
  BY <1>3, <1>4, <1>5, <1>6, RunsApart
<1>8. /\ r.first \in Nat /\ r.last \in Nat /\ s.last \in Nat /\ g.first \in Nat
      /\ g.last \in Nat /\ g.first <= g.last /\ r.first <= r.last
      /\ MinutesOf(obs, "cron") \subseteq Nat
  BY <1>5, RunIs, Numbers DEF Readable, MinutesOf
<1>9. ASSUME e.first < f.first
      PROVE  \E m \in MinutesOf(obs, "cron") : e.last < m /\ m < f.first
  <2>1. RecoveryOf(obs, p) # RecoveryOf(obs, q)
    BY <1>3, <1>4, <1>6, <1>8, <1>9
  <2>2. r.last < g.first
    BY <1>3, <1>4, <1>5, <1>9, RunsApart
  <2> DEFINE c == RecoveryOf(obs, r)
  <2>3. /\ c \in MinutesOf(obs, "cron") /\ c > r.last /\ c <= g.last
    <3>1. ASSUME \A m \in MinutesOf(obs, "cron") : m > r.last => m > g.last
          PROVE  RecoveryOf(obs, g) = c
      BY <1>5, <1>8, <2>2, <3>1, RecoveryIs, Numbers
    <3>2. PICK m \in MinutesOf(obs, "cron") : m > r.last /\ ~ (m > g.last)
      BY <1>5, <2>1, <3>1
    <3> QED BY <1>5, <1>8, <3>2, RecoveryIs
  <2>4. c \notin g.first..g.last
    BY <1>5, <2>3, RunIs DEF MinutesOf
  <2>5. c > s.last
    BY <1>5, <1>8, <2>3, SameRecovery
  <2> HIDE DEF c
  <2>6. c \in Nat /\ c < g.first
    BY <1>8, <2>3, <2>4
  <2> QED BY <1>3, <1>4, <2>3, <2>5, <2>6
<1> QED BY <1>7, <1>9

-----------------------------------------------------------------------------
(***************************************************************************)
(* _recompute_outages, for any list of outages and set of episodes.        *)
(***************************************************************************)
Episodic(E) ==
    /\ \A e \in E :
         /\ e.first \in Minutes /\ e.last \in Minutes /\ e.count \in Minutes
         /\ e.identity \in Interval /\ e.recovery \in Minutes \cup {None}
    /\ \A e \in E, f \in E : e.first = f.first => e = f

(* An outage may take the episode it is anchored in, or, once its anchor   *)
(* has aged out, one it overlaps.                                          *)
MayTake(outage, E, e) ==
    \/ AnchorOf(outage, E) = e.first
    \/ AnchorOf(outage, E) = None /\ Overlap(outage, e)

LEMMA CandidatesAre ==
    ASSUME NEW known, NEW assigned, NEW E, NEW e
    PROVE  /\ \A i \in Candidates(known, assigned, E, e) :
                i \in DOMAIN known \ assigned /\ MayTake(known[i], E, e)
           /\ \A i \in DOMAIN known \ assigned :
                MayTake(known[i], E, e) => Candidates(known, assigned, E, e) # {}
<1> DEFINE anchored == {i \in DOMAIN known \ assigned : AnchorOf(known[i], E) = e.first}
           aged == {i \in DOMAIN known \ assigned :
                        AnchorOf(known[i], E) = None /\ Overlap(known[i], e)}
<1>1. Candidates(known, assigned, E, e) = IF anchored # {} THEN anchored ELSE aged
  BY DEF Candidates
<1> QED BY <1>1 DEF MayTake

LEMMA UpdatedIs ==
    ASSUME NEW o \in OutageType, NEW E, Episodic(E), NEW e \in E
    PROVE  /\ Updated(o, e) \in OutageType
           /\ Updated(o, e).first = e.first /\ Updated(o, e).last = e.last
           /\ Updated(o, e).identity = o.identity
           /\ Updated(o, e).active = ~ Conclusive(e)
           /\ Updated(o, e).recovery = IF Conclusive(e) THEN e.recovery ELSE None
           /\ Updated(o, e).report = o.report /\ Updated(o, e).attempts = o.attempts
<1>1. /\ e.first \in Minutes /\ e.last \in Minutes /\ e.count \in Minutes
      /\ e.recovery \in Minutes \cup {None}
  BY DEF Episodic
<1> DEFINE r == IF Conclusive(e) THEN e.recovery ELSE None
<1>2. r \in Minutes \cup {None}
  BY <1>1
<1>3. (o.recoveryLogged \/ Conclusive(e)) \in BOOLEAN /\ (~ Conclusive(e)) \in BOOLEAN
  BY DEF Conclusive
<1>4. Updated(o, e) =
        [o EXCEPT !.first = e.first, !.last = e.last, !.count = e.count,
                  !.active = ~ Conclusive(e), !.recovery = r,
                  !.recoveryLogged = o.recoveryLogged \/ Conclusive(e)]
  BY DEF Updated
<1> HIDE DEF r
<1> QED BY <1>1, <1>2, <1>3, <1>4 DEF OutageType, r

LEMMA NewOutageIs ==
    ASSUME NEW E, Episodic(E), NEW e \in E
    PROVE  /\ NewOutage(e) \in OutageType
           /\ NewOutage(e).identity = e.identity /\ NewOutage(e).report = "due"
BY Numbers DEF NewOutage, OutageType, Episodic

(* What the list has become when the episodes that start by m are taken.   *)
Taken(known, acc) ==
    acc.assigned \cup (DOMAIN acc.outages \ DOMAIN known)

Progress(known, E, acc, m) ==
    /\ acc \in [outages : Seq(OutageType), assigned : SUBSET DOMAIN known]
    /\ Len(known) <= Len(acc.outages)
    /\ \A i \in acc.assigned : \E e \in E :
         /\ e.first <= m /\ MayTake(known[i], E, e)
         /\ \A f \in E : MayTake(known[i], E, f) => e.first <= f.first
         /\ acc.outages[i] = Updated(known[i], e)
    /\ \A i \in DOMAIN known \ acc.assigned :
         /\ acc.outages[i] = known[i]
         /\ \A e \in E : MayTake(known[i], E, e) => e.first > m
    /\ \A i \in DOMAIN acc.outages \ DOMAIN known : \E e \in E :
         e.first <= m /\ acc.outages[i] = Updated(NewOutage(e), e)
    /\ \A e \in E : e.first <= m =>
         \E i \in Taken(known, acc) : acc.outages[i].first = e.first
    /\ \A i \in Taken(known, acc), j \in Taken(known, acc) :
         i # j => acc.outages[i].first # acc.outages[j].first

(* No episode may be taken by two outages.                                 *)
Exclusive(known, E) ==
    \A e \in E : \A i \in DOMAIN known, j \in DOMAIN known :
        MayTake(known[i], E, e) /\ MayTake(known[j], E, e) => i = j

Stepped(known, E, acc, m) ==
    IF \A e \in E : e.first # m THEN acc
    ELSE Assign(known, E, acc, CHOOSE e \in E : e.first = m)

(* The episodes taken so far start before the next minute.                 *)
LEMMA TakenEarlier ==
    ASSUME NEW known, NEW E, Episodic(E),
           NEW m \in 1..MaxMinute, NEW acc, Progress(known, E, acc, m - 1),
           known \in Seq(OutageType)
    PROVE  \A i \in Taken(known, acc) : acc.outages[i].first < m
<1> SUFFICES ASSUME NEW i \in Taken(known, acc) PROVE acc.outages[i].first < m
  OBVIOUS
<1>1. \E f \in E : f.first <= m - 1 /\ acc.outages[i].first = f.first
  <2>1. CASE i \in acc.assigned
    <3>1. PICK f \in E : f.first <= m - 1 /\ acc.outages[i] = Updated(known[i], f)
      BY <2>1 DEF Progress
    <3>2. known[i] \in OutageType
      BY <2>1 DEF Progress
    <3> QED BY <3>1, <3>2, UpdatedIs
  <2>2. CASE i \in DOMAIN acc.outages \ DOMAIN known
    <3>1. PICK f \in E : f.first <= m - 1 /\ acc.outages[i] = Updated(NewOutage(f), f)
      BY <2>2 DEF Progress
    <3> QED BY <3>1, NewOutageIs, UpdatedIs
  <2> QED BY <2>1, <2>2 DEF Taken
<1>2. \A f \in E : f.first \in Nat
  BY Numbers DEF Episodic
<1> QED BY <1>1, <1>2

(* An episode none may take becomes a new outage.                          *)
LEMMA Appended ==
    ASSUME NEW known \in Seq(OutageType), NEW E, Episodic(E),
           NEW m \in 1..MaxMinute, NEW acc, Progress(known, E, acc, m - 1),
           NEW e \in E, e.first = m,
           \A i \in DOMAIN known \ acc.assigned : ~ MayTake(known[i], E, e)
    PROVE  Progress(known, E,
             [acc EXCEPT !.outages = Append(@, Updated(NewOutage(e), e))], m)
<1> DEFINE o == Updated(NewOutage(e), e)
           outs == Append(acc.outages, o)
           new == [acc EXCEPT !.outages = outs]
           n == Len(acc.outages) + 1
<1>1. /\ acc \in [outages : Seq(OutageType), assigned : SUBSET DOMAIN known]
      /\ Len(known) <= Len(acc.outages)
  BY DEF Progress
<1>2. o \in OutageType /\ o.first = m
  BY NewOutageIs, UpdatedIs
<1>3. /\ new.outages = outs /\ new.assigned = acc.assigned
      /\ new \in [outages : Seq(OutageType), assigned : SUBSET DOMAIN known]
  <2> HIDE DEF o
  <2>1. outs \in Seq(OutageType)
    BY <1>1, <1>2, AppendProperties
  <2> HIDE DEF outs
  <2> QED BY <1>1, <2>1
<1> HIDE DEF o
<1>4. /\ DOMAIN outs = DOMAIN acc.outages \cup {n} /\ n \notin DOMAIN acc.outages
      /\ n \notin DOMAIN known /\ DOMAIN known \subseteq DOMAIN acc.outages
      /\ outs[n] = o /\ Len(outs) = n
      /\ \A i \in DOMAIN acc.outages : outs[i] = acc.outages[i]
  BY <1>1, <1>2
<1> HIDE DEF outs, new, n
<1>5. Taken(known, new) = Taken(known, acc) \cup {n}
  BY <1>1, <1>3, <1>4 DEF Taken
<1>6. Taken(known, acc) \subseteq DOMAIN acc.outages
  BY <1>1, <1>4 DEF Taken
<1>7. \A f \in E : f.first \in Nat
  BY Numbers DEF Episodic
<1>8. Len(known) <= Len(new.outages)
  BY <1>1, <1>3, <1>4 DEF n
<1>9. \A i \in new.assigned : \E f \in E :
         /\ f.first <= m /\ MayTake(known[i], E, f)
         /\ \A g \in E : MayTake(known[i], E, g) => f.first <= g.first
         /\ new.outages[i] = Updated(known[i], f)
  <2> SUFFICES ASSUME NEW i \in acc.assigned
               PROVE  \E f \in E :
         /\ f.first <= m /\ MayTake(known[i], E, f)
         /\ \A g \in E : MayTake(known[i], E, g) => f.first <= g.first
         /\ outs[i] = Updated(known[i], f)
    BY <1>3
  <2>1. PICK f \in E :
         /\ f.first <= m - 1 /\ MayTake(known[i], E, f)
         /\ \A g \in E : MayTake(known[i], E, g) => f.first <= g.first
         /\ acc.outages[i] = Updated(known[i], f)
    BY DEF Progress
  <2>2. outs[i] = acc.outages[i] /\ f.first <= m
    BY <1>1, <1>4, <1>7, <2>1
  <2> QED BY <2>1, <2>2
<1>10. \A i \in DOMAIN known \ new.assigned :
         /\ new.outages[i] = known[i]
         /\ \A f \in E : MayTake(known[i], E, f) => f.first > m
  <2> SUFFICES ASSUME NEW i \in DOMAIN known \ acc.assigned
               PROVE  /\ outs[i] = known[i]
                      /\ \A f \in E : MayTake(known[i], E, f) => f.first > m
    BY <1>3
  <2>1. /\ acc.outages[i] = known[i]
        /\ \A f \in E : MayTake(known[i], E, f) => f.first > m - 1
    BY DEF Progress
  <2>2. \A f \in E : MayTake(known[i], E, f) => f.first # m
    BY DEF Episodic
  <2> QED BY <1>4, <1>7, <2>1, <2>2
<1>11. \A i \in DOMAIN new.outages \ DOMAIN known : \E f \in E :
         f.first <= m /\ new.outages[i] = Updated(NewOutage(f), f)
  <2> SUFFICES ASSUME NEW i \in DOMAIN outs, i \notin DOMAIN known
               PROVE  \E f \in E : f.first <= m /\ outs[i] = Updated(NewOutage(f), f)
    BY <1>3
  <2>1. CASE i = n
    BY <1>4, <2>1 DEF o
  <2>2. CASE i \in DOMAIN acc.outages
    <3>1. PICK f \in E : f.first <= m - 1 /\ acc.outages[i] = Updated(NewOutage(f), f)
      BY <2>2 DEF Progress
    <3> QED BY <1>4, <1>7, <2>2, <3>1
  <2> QED BY <1>4, <2>1, <2>2
<1>12. \A f \in E : f.first <= m =>
         \E i \in Taken(known, new) : new.outages[i].first = f.first
  <2> SUFFICES ASSUME NEW f \in E, f.first <= m
               PROVE  \E i \in Taken(known, new) : outs[i].first = f.first
    BY <1>3
  <2>1. CASE f.first = m
    BY <1>2, <1>4, <1>5, <2>1
  <2>2. CASE f.first <= m - 1
    <3>1. PICK i \in Taken(known, acc) : acc.outages[i].first = f.first
      BY <2>2 DEF Progress
    <3> QED BY <1>4, <1>5, <1>6, <3>1
  <2> QED BY <1>7, <2>1, <2>2
<1>13. \A i \in Taken(known, acc) : acc.outages[i].first < m
  BY TakenEarlier
<1>14. \A i \in Taken(known, new), j \in Taken(known, new) :
         i # j => new.outages[i].first # new.outages[j].first
  <2>1. \A i \in Taken(known, acc) : outs[i] = acc.outages[i] /\ outs[i].first < m
    BY <1>4, <1>6, <1>13
  <2>2. \A i \in Taken(known, acc), j \in Taken(known, acc) :
         i # j => acc.outages[i].first # acc.outages[j].first
    BY DEF Progress
  <2> QED BY <1>2, <1>3, <1>4, <1>5, <2>1, <2>2
<1> QED BY <1>3, <1>8, <1>9, <1>10, <1>11, <1>12, <1>14 DEF Progress, new, outs, o

(* An episode one may take goes to that one.                               *)
LEMMA Replaced ==
    ASSUME NEW known \in Seq(OutageType), NEW E, Episodic(E), Exclusive(known, E),
           NEW m \in 1..MaxMinute, NEW acc, Progress(known, E, acc, m - 1),
           NEW e \in E, e.first = m,
           NEW k \in DOMAIN known \ acc.assigned, MayTake(known[k], E, e)
    PROVE  Progress(known, E,
             [outages |-> [acc.outages EXCEPT ![k] = Updated(@, e)],
              assigned |-> acc.assigned \cup {k}], m)
<1> DEFINE o == Updated(known[k], e)
           outs == [acc.outages EXCEPT ![k] = Updated(@, e)]
           new == [outages |-> outs, assigned |-> acc.assigned \cup {k}]
<1>1. /\ acc \in [outages : Seq(OutageType), assigned : SUBSET DOMAIN known]
      /\ Len(known) <= Len(acc.outages)
      /\ acc.outages[k] = known[k]
  BY DEF Progress
<1>2. o \in OutageType /\ o.first = m
  BY UpdatedIs
<1>3. k \in DOMAIN acc.outages /\ DOMAIN known \subseteq DOMAIN acc.outages
  BY <1>1
<1>4. /\ DOMAIN outs = DOMAIN acc.outages /\ outs[k] = o
      /\ \A i \in DOMAIN acc.outages : i # k => outs[i] = acc.outages[i]
  BY <1>1, <1>3
<1> HIDE DEF o
<1>5. outs \in Seq(OutageType) /\ Len(outs) = Len(acc.outages)
  <2>1. outs = [acc.outages EXCEPT ![k] = o]
    BY <1>1 DEF o
  <2> HIDE DEF outs
  <2> QED BY <1>1, <1>2, <1>3, <2>1, ExceptSeq
<1> HIDE DEF outs
<1>6. /\ new.outages = outs /\ new.assigned = acc.assigned \cup {k}
      /\ new \in [outages : Seq(OutageType), assigned : SUBSET DOMAIN known]
  BY <1>1, <1>5
<1> HIDE DEF new
<1>7. Taken(known, new) = Taken(known, acc) \cup {k} /\ k \notin Taken(known, acc)
  BY <1>4, <1>6 DEF Taken
<1>8. Taken(known, acc) \subseteq DOMAIN acc.outages
  BY <1>1, <1>3 DEF Taken
<1>9. \A f \in E : f.first \in Nat
  BY Numbers DEF Episodic
<1>10. \A i \in new.assigned : \E f \in E :
         /\ f.first <= m /\ MayTake(known[i], E, f)
         /\ \A g \in E : MayTake(known[i], E, g) => f.first <= g.first
         /\ new.outages[i] = Updated(known[i], f)
  <2> SUFFICES ASSUME NEW i \in acc.assigned \cup {k}
               PROVE  \E f \in E :
         /\ f.first <= m /\ MayTake(known[i], E, f)
         /\ \A g \in E : MayTake(known[i], E, g) => f.first <= g.first
         /\ outs[i] = Updated(known[i], f)
    BY <1>6
  <2>1. CASE i = k
    <3>1. \A g \in E : MayTake(known[k], E, g) => e.first <= g.first
      <4>1. \A g \in E : MayTake(known[k], E, g) => g.first > m - 1
        BY DEF Progress
      <4> QED BY <1>9, <4>1
    <3>2. e.first <= m
      OBVIOUS
    <3> QED BY <1>4, <2>1, <3>1, <3>2 DEF o
  <2>2. CASE i # k
    <3>1. PICK f \in E :
           /\ f.first <= m - 1 /\ MayTake(known[i], E, f)
           /\ \A g \in E : MayTake(known[i], E, g) => f.first <= g.first
           /\ acc.outages[i] = Updated(known[i], f)
      BY <2>2 DEF Progress
    <3>2. outs[i] = acc.outages[i] /\ f.first <= m
      BY <1>1, <1>3, <1>4, <1>9, <2>2, <3>1
    <3> QED BY <3>1, <3>2
  <2> QED BY <2>1, <2>2
<1>11. \A i \in DOMAIN known \ new.assigned :
         /\ new.outages[i] = known[i]
         /\ \A f \in E : MayTake(known[i], E, f) => f.first > m
  <2> SUFFICES ASSUME NEW i \in DOMAIN known \ acc.assigned, i # k
               PROVE  /\ outs[i] = known[i]
                      /\ \A f \in E : MayTake(known[i], E, f) => f.first > m
    BY <1>6
  <2>1. /\ acc.outages[i] = known[i]
        /\ \A f \in E : MayTake(known[i], E, f) => f.first > m - 1
    BY DEF Progress
  <2>2. \A f \in E : MayTake(known[i], E, f) => f.first # m
    <3> SUFFICES ASSUME NEW f \in E, MayTake(known[i], E, f), f.first = m
                 PROVE  FALSE
      OBVIOUS
    <3>1. f = e
      BY DEF Episodic
    <3> QED BY <3>1 DEF Exclusive
  <2> QED BY <1>3, <1>4, <1>9, <2>1, <2>2
<1>12. \A i \in DOMAIN new.outages \ DOMAIN known : \E f \in E :
         f.first <= m /\ new.outages[i] = Updated(NewOutage(f), f)
  <2> SUFFICES ASSUME NEW i \in DOMAIN acc.outages \ DOMAIN known
               PROVE  \E f \in E : f.first <= m /\ outs[i] = Updated(NewOutage(f), f)
    BY <1>4, <1>6
  <2>1. PICK f \in E : f.first <= m - 1 /\ acc.outages[i] = Updated(NewOutage(f), f)
    BY DEF Progress
  <2> QED BY <1>4, <1>9, <2>1
<1>13. \A f \in E : f.first <= m =>
         \E i \in Taken(known, new) : new.outages[i].first = f.first
  <2> SUFFICES ASSUME NEW f \in E, f.first <= m
               PROVE  \E i \in Taken(known, new) : outs[i].first = f.first
    BY <1>6
  <2>1. CASE f.first = m
    BY <1>2, <1>4, <1>7, <2>1
  <2>2. CASE f.first <= m - 1
    <3>1. PICK i \in Taken(known, acc) : acc.outages[i].first = f.first
      BY <2>2 DEF Progress
    <3> QED BY <1>4, <1>7, <1>8, <3>1
  <2> QED BY <1>9, <2>1, <2>2
<1>14. \A i \in Taken(known, acc) : acc.outages[i].first < m
  BY <1>9, TakenEarlier
<1>15. \A i \in Taken(known, new), j \in Taken(known, new) :
         i # j => new.outages[i].first # new.outages[j].first
  <2>1. \A i \in Taken(known, acc) : outs[i] = acc.outages[i] /\ outs[i].first < m
    BY <1>4, <1>7, <1>8, <1>14
  <2>2. \A i \in Taken(known, acc), j \in Taken(known, acc) :
         i # j => acc.outages[i].first # acc.outages[j].first
    BY DEF Progress
  <2> QED BY <1>2, <1>4, <1>6, <1>7, <2>1, <2>2
<1>16. Len(known) <= Len(new.outages)
  BY <1>1, <1>5, <1>6
<1> QED BY <1>6, <1>10, <1>11, <1>12, <1>13, <1>15, <1>16 DEF Progress, new, outs

LEMMA StepProgresses ==
    ASSUME NEW known \in Seq(OutageType), NEW E, Episodic(E), Exclusive(known, E),
           NEW m \in 1..MaxMinute, NEW acc, Progress(known, E, acc, m - 1)
    PROVE  Progress(known, E, Stepped(known, E, acc, m), m)
<1>1. CASE \A e \in E : e.first # m
  <2>1. \A f \in E : f.first \in Nat
    BY Numbers DEF Episodic
  <2>2. \A f \in E : (f.first <= m <=> f.first <= m - 1) /\ (f.first > m <=> f.first > m - 1)
    BY <1>1, <2>1
  <2>3. Progress(known, E, acc, m)
    BY <2>2 DEF Progress
  <2> QED BY <1>1, <2>3 DEF Stepped
<1>2. CASE ~ \A e \in E : e.first # m
  <2> DEFINE e == CHOOSE e \in E : e.first = m
             found == Candidates(known, acc.assigned, E, e)
             k == Min(found)
  <2>1. e \in E /\ e.first = m
    BY <1>2
  <2>2. Stepped(known, E, acc, m) = Assign(known, E, acc, e)
    BY <1>2 DEF Stepped
  <2> HIDE DEF e
  <2>3. CASE found = {}
    <3>1. \A i \in DOMAIN known \ acc.assigned : ~ MayTake(known[i], E, e)
      BY <2>3, CandidatesAre
    <3>2. Progress(known, E,
             [acc EXCEPT !.outages = Append(@, Updated(NewOutage(e), e))], m)
      BY <2>1, <3>1, Appended
    <3> QED BY <2>2, <2>3, <3>2 DEF Assign
  <2>4. CASE found # {}
    <3>1. k \in found
      <4>1. found \in SUBSET Nat
        BY CandidatesAre
      <4> HIDE DEF found
      <4> QED BY <2>4, <4>1, MinIn
    <3>2. Assign(known, E, acc, e) =
            [outages |-> [acc.outages EXCEPT ![k] = Updated(@, e)],
             assigned |-> acc.assigned \cup {k}]
      BY <2>4 DEF Assign
    <3>3. k \in DOMAIN known \ acc.assigned /\ MayTake(known[k], E, e)
      <4> HIDE DEF k
      <4> QED BY <3>1, CandidatesAre
    <3> HIDE DEF found, k
    <3>4. Progress(known, E,
             [outages |-> [acc.outages EXCEPT ![k] = Updated(@, e)],
              assigned |-> acc.assigned \cup {k}], m)
      BY <2>1, <3>3, Replaced
    <3> QED BY <2>2, <3>2, <3>4
  <2> QED BY <2>3, <2>4
<1> QED BY <1>1, <1>2

(* The recursion of AfterMinute has a solution.                            *)
LEMMA AfterMinuteIs ==
    ASSUME NEW known, NEW E
    PROVE  AfterMinute(known, E) =
             [m \in 0..MaxMinute |->
                IF m = 0 THEN [outages |-> known, assigned |-> {}]
                ELSE Stepped(known, E, AfterMinute(known, E)[m - 1], m)]
<1> DEFINE base == [outages |-> known, assigned |-> {}]
           Step(acc, m) == Stepped(known, E, acc, m)
           Solves(f, n) == f = [m \in 0..n |-> IF m = 0 THEN base ELSE Step(f[m - 1], m)]
           T == {n \in 0..MaxMinute : ~ \E f : Solves(f, n)}
<1>1. MaxMinute \in Nat
  BY Numbers
<1>2. T = {}
  <2> SUFFICES ASSUME T # {} PROVE FALSE
    OBVIOUS
  <2> DEFINE n == Min(T)
  <2>1. n \in T /\ \A x \in T : n <= x
    <3>1. T \in SUBSET Nat
      BY <1>1
    <3> HIDE DEF T
    <3> QED BY <3>1, MinIn
  <2> HIDE DEF n
  <2>2. n \in 0..MaxMinute /\ ~ \E f : Solves(f, n)
    BY <2>1
  <2> HIDE DEF base, Step
  <2>3. n # 0
    <3> SUFFICES ASSUME n = 0 PROVE FALSE
      OBVIOUS
    <3> DEFINE f == [m \in 0..0 |-> base]
    <3>1. Solves(f, 0)
      OBVIOUS
    <3> HIDE DEF f
    <3> QED BY <2>2, <3>1
  <2>4. n - 1 \in 0..MaxMinute /\ n - 1 \notin T
    BY <1>1, <2>1, <2>2, <2>3
  <2>5. PICK f : Solves(f, n - 1)
    BY <2>4
  <2> DEFINE g == [m \in 0..n |-> IF m = n THEN Step(f[n - 1], n) ELSE f[m]]
  <2>6. \A m \in 0..(n - 1) : f[m] = IF m = 0 THEN base ELSE Step(f[m - 1], m)
    BY <2>5
  <2>7. n \in Nat
    BY <1>1, <2>2
  <2>8. /\ \A m \in 0..(n - 1) : g[m] = f[m]
        /\ g[n] = Step(f[n - 1], n)
    BY <2>3, <2>7
  <2>9. \A m \in 0..n : g[m] = IF m = 0 THEN base ELSE Step(g[m - 1], m)
    <3> SUFFICES ASSUME NEW m \in 0..n
                 PROVE  g[m] = IF m = 0 THEN base ELSE Step(g[m - 1], m)
      OBVIOUS
    <3> HIDE DEF g
    <3>1. CASE m = n
      <4>1. n - 1 \in 0..(n - 1)
        BY <2>3, <2>7
      <4> QED BY <2>3, <2>8, <3>1, <4>1
    <3>2. CASE m # n /\ m # 0
      <4>1. m \in 0..(n - 1) /\ m - 1 \in 0..(n - 1)
        BY <2>7, <3>2
      <4> QED BY <2>6, <2>8, <3>2, <4>1
    <3>3. CASE m # n /\ m = 0
      <4>1. m \in 0..(n - 1)
        BY <2>7, <3>3
      <4> QED BY <2>6, <2>8, <3>3, <4>1
    <3> QED BY <3>1, <3>2, <3>3
  <2>10. Solves(g, n)
    <3>1. g = [m \in 0..n |-> g[m]]
      OBVIOUS
    <3> HIDE DEF g
    <3> QED BY <2>9, <3>1
  <2> HIDE DEF g
  <2> QED BY <2>2, <2>10
<1>3. \E f : Solves(f, MaxMinute)
  <2>1. MaxMinute \in 0..MaxMinute
    BY <1>1
  <2> HIDE DEF Solves
  <2> QED BY <1>2, <2>1
<1>4. AfterMinute(known, E) = CHOOSE f : Solves(f, MaxMinute)
  BY DEF AfterMinute, Stepped
<1> HIDE DEF Step, base
<1>5. Solves(AfterMinute(known, E), MaxMinute)
  BY <1>3, <1>4
<1> QED BY <1>5 DEF Step, base

(* What becomes of a list of outages when no two may take one episode.     *)
LEMMA Recomputed ==
    ASSUME NEW known \in Seq(OutageType), NEW E, Episodic(E), Exclusive(known, E)
    PROVE  \E acc : /\ RecomputeOutages(known, E) = acc.outages
                    /\ Progress(known, E, acc, MaxMinute)
<1> DEFINE after == AfterMinute(known, E)
           T == {m \in 0..MaxMinute : ~ Progress(known, E, after[m], m)}
<1>1. MaxMinute \in Nat
  BY Numbers
<1>2. /\ after[0] = [outages |-> known, assigned |-> {}]
      /\ \A m \in 1..MaxMinute : after[m] = Stepped(known, E, after[m - 1], m)
  <2> HIDE DEF after
  <2>1. after = [m \in 0..MaxMinute |->
                   IF m = 0 THEN [outages |-> known, assigned |-> {}]
                   ELSE Stepped(known, E, after[m - 1], m)]
    BY AfterMinuteIs DEF after
  <2>2. \A m \in 0..MaxMinute :
          after[m] = IF m = 0 THEN [outages |-> known, assigned |-> {}]
                     ELSE Stepped(known, E, after[m - 1], m)
    BY <2>1
  <2>3. 0 \in 0..MaxMinute
    BY <1>1
  <2>4. \A m \in 1..MaxMinute : m \in 0..MaxMinute /\ m # 0
    BY <1>1
  <2> QED BY <2>2, <2>3, <2>4
<1> HIDE DEF after
<1>3. Progress(known, E, after[0], 0)
  <2>1. \A f \in E : f.first \in Nat /\ f.first > 0
    BY Numbers DEF Episodic
  <2> QED BY <1>2, <2>1 DEF Progress, Taken
<1>4. T = {}
  <2> SUFFICES ASSUME T # {} PROVE FALSE
    OBVIOUS
  <2> DEFINE n == Min(T)
  <2>1. n \in T /\ \A x \in T : n <= x
    <3>1. T \in SUBSET Nat
      BY <1>1
    <3> HIDE DEF T
    <3> QED BY <3>1, MinIn
  <2> HIDE DEF n
  <2>2. n \in 1..MaxMinute /\ n - 1 \in 0..MaxMinute /\ n - 1 \notin T
    BY <1>1, <1>3, <2>1
  <2>3. Progress(known, E, after[n - 1], n - 1)
    BY <2>2
  <2>4. Progress(known, E, after[n], n)
    BY <1>2, <2>2, <2>3, StepProgresses
  <2> QED BY <2>1, <2>4
<1>5. Progress(known, E, after[MaxMinute], MaxMinute)
  BY <1>1, <1>4
<1> QED BY <1>5 DEF RecomputeOutages, after

-----------------------------------------------------------------------------
(***************************************************************************)
(* An answer arrives.                                                      *)
(***************************************************************************)
(* What record is called with: requests under way are recent.              *)
Arrival(s, source) ==
    /\ s \in Minutes /\ source \in Sources
    /\ s \in (minute - Timeout)..(minute + 1)
    /\ Record(s, source)

OldestNext(lo) == lo = Oldest'

LEMMA ReadableNow == Types => Readable(observations)
BY DEF Types, Readable

LEMMA WindowNow ==
    ASSUME Types, Window, DOMAIN observations # {}
    PROVE  /\ Oldest \in Int
           /\ \A m \in DOMAIN evidence : m <= Oldest + Retention
           /\ MinutesOf(observations, "watchdog") = {m \in Missed : m >= Oldest}
           /\ MinutesOf(observations, "cron") = {m \in Claimed : m >= Oldest}
<1>1. DOMAIN observations \in SUBSET (0..MaxMinute) /\ MaxMinute \in Nat
  BY Numbers DEF Types
<1>2. /\ Max(DOMAIN observations) \in DOMAIN observations
      /\ \A y \in DOMAIN observations : y <= Max(DOMAIN observations)
  BY <1>1, MaxIn
<1>3. Oldest \in Int /\ Max(DOMAIN observations) = Oldest + Retention
  BY <1>1, <1>2, Numbers DEF Oldest
<1>4. \A m \in DOMAIN evidence : m <= Oldest + Retention
  <2> SUFFICES ASSUME NEW m \in DOMAIN evidence PROVE m <= Oldest + Retention
    OBVIOUS
  <2>1. m \in Int
    BY Numbers DEF Types
  <2>2. CASE m >= Oldest
    <3>1. m \in DOMAIN observations
      BY <2>2 DEF Window
    <3> QED BY <1>2, <1>3, <3>1
  <2>3. CASE ~ (m >= Oldest)
    BY <1>3, <2>1, <2>3, Numbers
  <2> QED BY <2>2, <2>3
<1>5. \A m \in DOMAIN observations : observations[m] = evidence[m]
  BY DEF Window
<1>6. DOMAIN observations = {m \in DOMAIN evidence : m >= Oldest}
  BY DEF Window
<1>7. MinutesOf(observations, "watchdog") = {m \in Missed : m >= Oldest}
  BY <1>5, <1>6 DEF MinutesOf, Missed
<1>8. MinutesOf(observations, "cron") = {m \in Claimed : m >= Oldest}
  BY <1>5, <1>6 DEF MinutesOf, Claimed
<1> QED BY <1>3, <1>4, <1>7, <1>8

(* What was known of the minutes before Oldest + Threshold is final.       *)
LEMMA ArrivalWindow ==
    ASSUME Types, Window, NEW s, NEW source, Arrival(s, source),
           NEW lo, OldestNext(lo)
    PROVE  /\ Readable(observations')
           /\ DOMAIN observations' # {}
           /\ DOMAIN observations' = {m \in DOMAIN evidence' : m >= lo}
           /\ \A m \in DOMAIN observations' : observations'[m] = evidence'[m]
           /\ Readable(evidence') /\ DOMAIN evidence' = DOMAIN evidence \cup {s}
           /\ observations' \in [DOMAIN observations' -> Sources]
           /\ evidence' \in [DOMAIN evidence' -> Sources]
           /\ lo \in Int
           /\ DOMAIN observations # {} => Oldest \in Int /\ Oldest <= lo
           /\ Missed \subseteq Missed' /\ Claimed \subseteq Claimed'
           /\ Missed' \subseteq Minutes /\ Claimed' \subseteq Minutes
           /\ \A q \in Missed' : q < lo + Threshold => q \in Missed
           /\ MinutesOf(observations', "watchdog") = {m \in Missed' : m >= lo}
           /\ MinutesOf(observations', "cron") = {m \in Claimed' : m >= lo}
<1> DEFINE D == DOMAIN observations
           hi == Max(D \cup {s})
           obs == With(observations, s, source)
<1>1. /\ s \in Minutes /\ s \in Nat /\ source \in Sources /\ minute \in Nat
      /\ D \subseteq Minutes /\ DOMAIN evidence \subseteq Minutes
      /\ Minutes \subseteq 0..MaxMinute /\ Minutes \subseteq Nat
      /\ MaxMinute \in Nat
  BY Numbers DEF Arrival, Types
<1>2. hi \in D \cup {s} /\ \A y \in D \cup {s} : y <= hi
  <2> HIDE DEF D
  <2>1. D \cup {s} \in SUBSET (0..MaxMinute) /\ D \cup {s} # {}
    BY <1>1
  <2> QED BY <1>1, <2>1, MaxIn
<1> HIDE DEF hi
<1>3. hi \in Nat
  BY <1>1, <1>2
<1>4. /\ DOMAIN obs = D \cup {s} /\ obs[s] = source
      /\ \A m \in D : m # s => obs[m] = observations[m]
  BY DEF With
<1> HIDE DEF obs
<1>5. /\ observations' = [m \in {n \in D \cup {s} : n >= hi - Retention} |-> obs[m]]
      /\ evidence' = IF s \in DOMAIN evidence THEN evidence
                     ELSE With(evidence, s, source)
      /\ s \in D => observations[s] = source
  BY <1>4 DEF Arrival, Record, Pruned, hi, obs, Conflicts
<1>6. DOMAIN observations' = {n \in D \cup {s} : n >= hi - Retention}
  BY <1>5
<1>7. lo = hi - Retention
  <2>1. hi \in DOMAIN observations' /\ \A y \in DOMAIN observations' : y <= hi
    BY <1>2, <1>3, <1>6, Numbers
  <2>2. DOMAIN observations' \subseteq Nat
    BY <1>1, <1>6
  <2>3. \A x \in DOMAIN observations' : (\A y \in DOMAIN observations' : x >= y) => x = hi
    BY <1>3, <2>1, <2>2
  <2>4. Max(DOMAIN observations') = hi
    <3>1. \A y \in DOMAIN observations' : hi >= y
      BY <1>3, <2>1, <2>2
    <3> QED BY <2>1, <2>3, <3>1 DEF Max
  <2> QED BY <2>4 DEF OldestNext, Oldest
<1>8. lo \in Int
  BY <1>3, <1>7, Numbers
<1>9. s >= lo + Threshold
  <2>1. hi <= minute + 1
    <3>1. \A m \in D : m <= minute + 1
      BY DEF Window
    <3>2. s <= minute + 1
      BY <1>1 DEF Arrival
    <3> QED BY <1>2, <3>1, <3>2
  <2>2. s >= minute - Timeout
    BY <1>1, Numbers DEF Arrival
  <2> QED BY <1>1, <1>3, <1>7, <2>1, <2>2, Numbers
<1>10. s \in DOMAIN observations'
  BY <1>1, <1>3, <1>6, <1>7, <1>9, Numbers
<1>11. D # {} => Oldest \in Int /\ Oldest <= lo
  <2> SUFFICES ASSUME D # {} PROVE Oldest \in Int /\ Oldest <= lo
    OBVIOUS
  <2>1. D \in SUBSET (0..MaxMinute)
    <3> HIDE DEF D
    <3> QED BY <1>1
  <2>2. Max(D) \in D
    <3> HIDE DEF D
    <3> QED BY <1>1, <2>1, MaxIn
  <2>3. Max(D) <= hi /\ Max(D) \in Nat
    BY <1>1, <1>2, <2>2
  <2>4. Oldest = Max(D) - Retention
    BY DEF Oldest
  <2> QED BY <1>3, <1>7, <2>3, <2>4, Numbers
<1>12. /\ DOMAIN evidence' = DOMAIN evidence \cup {s}
       /\ \A m \in DOMAIN evidence : evidence'[m] = evidence[m]
       /\ s \notin DOMAIN evidence => evidence'[s] = source
  BY <1>5 DEF With
<1>13. D \subseteq DOMAIN evidence /\ \A m \in D : observations[m] = evidence[m]
  BY DEF Window
<1>14. \A m \in DOMAIN evidence : m >= lo => m \in D
  <2> SUFFICES ASSUME NEW m \in DOMAIN evidence, m >= lo PROVE m \in D
    OBVIOUS
  <2>1. D # {}
    BY DEF Window
  <2>2. m \in Nat
    BY <1>1
  <2>3. Oldest \in Int /\ Oldest <= lo
    BY <1>11, <2>1
  <2>4. m >= Oldest
    BY <1>8, <2>2, <2>3
  <2> QED BY <2>4 DEF Window
<1>15. DOMAIN observations' = {m \in DOMAIN evidence' : m >= lo}
  BY <1>6, <1>7, <1>12, <1>13, <1>14
<1>16. \A m \in DOMAIN observations' : observations'[m] = evidence'[m]
  <2> SUFFICES ASSUME NEW m \in DOMAIN observations'
               PROVE  observations'[m] = evidence'[m]
    OBVIOUS
  <2>1. observations'[m] = obs[m]
    BY <1>5, <1>6
  <2>2. CASE m # s
    BY <1>4, <1>6, <1>12, <1>13, <2>1, <2>2
  <2>3. CASE m = s /\ s \in DOMAIN evidence
    <3>1. s \in D
      BY <1>10, <1>14, <1>15, <2>3
    <3> QED BY <1>4, <1>5, <1>12, <1>13, <2>1, <2>3, <3>1
  <2>4. CASE m = s /\ s \notin DOMAIN evidence
    BY <1>4, <1>12, <2>1, <2>4
  <2> QED BY <2>2, <2>3, <2>4
<1>17. \A m \in DOMAIN evidence' : evidence'[m] \in Sources /\ m \in Minutes
  BY <1>1, <1>12 DEF Types
<1>18. evidence' \in [DOMAIN evidence' -> Sources]
  <2>1. \E X : evidence' = [m \in X |-> evidence'[m]]
    <3>1. CASE s \in DOMAIN evidence
      BY <1>5, <3>1 DEF Types
    <3>2. CASE s \notin DOMAIN evidence
      BY <1>5, <3>2 DEF With
    <3> QED BY <3>1, <3>2
  <2> QED BY <1>17, <2>1
<1>19. Readable(observations') /\ Readable(evidence')
  BY <1>15, <1>16, <1>17 DEF Readable
<1>20. observations' \in [DOMAIN observations' -> Sources]
  BY <1>5, <1>19 DEF Readable
<1>21. /\ Missed \subseteq Missed' /\ Claimed \subseteq Claimed'
       /\ Missed' \subseteq Minutes /\ Claimed' \subseteq Minutes
  BY <1>12, <1>17 DEF Missed, Claimed, MinutesOf
<1>22. \A q \in Missed' : q < lo + Threshold => q \in Missed
  <2> SUFFICES ASSUME NEW q \in Missed', q < lo + Threshold PROVE q \in Missed
    OBVIOUS
  <2>1. q # s
    <3>1. ~ (s < lo + Threshold)
      <4>1. s \in Int /\ Threshold \in Int
        BY <1>1, Numbers
      <4> QED BY <1>8, <1>9, <4>1
    <3> QED BY <3>1
  <2> QED BY <1>12, <2>1 DEF Missed, MinutesOf
<1>23. MinutesOf(observations', "watchdog") = {m \in Missed' : m >= lo}
  BY <1>15, <1>16 DEF MinutesOf, Missed
<1>24. MinutesOf(observations', "cron") = {m \in Claimed' : m >= lo}
  BY <1>15, <1>16 DEF MinutesOf, Claimed
<1> QED BY <1>8, <1>10, <1>11, <1>12, <1>15, <1>16, <1>18, <1>19, <1>20, <1>21, <1>22, <1>23, <1>24


(* The step from a state that satisfies the invariant, to the oldest       *)
(* minute lo and the episodes E.                                           *)
Arrives(s, source, lo, E) ==
    /\ IInv /\ Arrival(s, source)
    /\ OldestNext(lo) /\ E = QualifyingEpisodes(observations')

LEMMA EpisodesAre ==
    ASSUME NEW obs, Readable(obs)
    PROVE  Episodic(QualifyingEpisodes(obs))
<1>1. \A e \in QualifyingEpisodes(obs) :
         /\ e.first \in Minutes /\ e.last \in Minutes /\ e.count \in Minutes
         /\ e.identity \in Interval /\ e.recovery \in Minutes \cup {None}
  <2> SUFFICES ASSUME NEW e \in QualifyingEpisodes(obs)
               PROVE  /\ e.first \in Minutes /\ e.last \in Minutes
                      /\ e.count \in Minutes /\ e.identity \in Interval
                      /\ e.recovery \in Minutes \cup {None}
    OBVIOUS
  <2>1. MinutesOf(obs, "cron") \subseteq Minutes
    BY DEF Readable, MinutesOf
  <2> QED BY <2>1, EpisodeIs
<1> QED BY <1>1, EpisodesApart DEF Episodic

LEMMA NewEpisodes ==
    ASSUME NEW s, NEW source, NEW lo, NEW E, Arrives(s, source, lo, E)
    PROVE  /\ Episodic(E)
           /\ \A e \in E :
                /\ e.first \in Nat /\ e.last \in Nat /\ e.first >= lo
                /\ e.first + Threshold - 1 <= e.last
                /\ e.first..(e.first + Threshold - 1) \subseteq Missed'
                /\ \A m \in Claimed' : m >= lo => m < e.first \/ m > e.last
                /\ e.identity.first = e.first /\ e.identity.last <= e.last
                /\ e.identity.last \in Nat
                /\ e.identity.first..e.identity.last \subseteq Missed'
                /\ Count(e.identity) >= Threshold
           /\ \A e \in E, f \in E : e.first < f.first =>
                \E m \in Claimed' : m >= lo /\ e.last < m /\ m < f.first
           /\ \A a \in Minutes, b \in Minutes :
                a >= lo /\ b - a + 1 >= Threshold /\ a..b \subseteq Missed' =>
                  \E e \in E : e.first <= a /\ b <= e.last
<1> DEFINE obs == observations'
<1>1. /\ Readable(obs) /\ lo \in Int
      /\ MinutesOf(obs, "watchdog") = {m \in Missed' : m >= lo}
      /\ MinutesOf(obs, "cron") = {m \in Claimed' : m >= lo}
      /\ E = QualifyingEpisodes(obs)
  BY ArrivalWindow DEF Arrives, IInv
<1> HIDE DEF obs
<1>2. Episodic(E)
  BY <1>1, EpisodesAre
<1>3. \A e \in E :
         /\ e.first \in Nat /\ e.last \in Nat /\ e.first >= lo
         /\ e.first + Threshold - 1 <= e.last
         /\ e.first..(e.first + Threshold - 1) \subseteq Missed'
         /\ \A m \in Claimed' : m >= lo => m < e.first \/ m > e.last
         /\ e.identity.first = e.first /\ e.identity.last <= e.last
         /\ e.identity.last \in Nat
         /\ e.identity.first..e.identity.last \subseteq Missed'
         /\ Count(e.identity) >= Threshold
  <2> SUFFICES ASSUME NEW e \in E
               PROVE  /\ e.first \in Nat /\ e.last \in Nat /\ e.first >= lo
                      /\ e.first + Threshold - 1 <= e.last
                      /\ e.first..(e.first + Threshold - 1) \subseteq Missed'
                      /\ \A m \in Claimed' : m >= lo => m < e.first \/ m > e.last
                      /\ e.identity.first = e.first /\ e.identity.last <= e.last
                      /\ e.identity.last \in Nat
                      /\ e.identity.first..e.identity.last \subseteq Missed'
                      /\ Count(e.identity) >= Threshold
    OBVIOUS
  <2>1. /\ e.first \in Minutes /\ e.last \in Minutes
        /\ e.first + Threshold - 1 <= e.last
        /\ e.first..(e.first + Threshold - 1) \subseteq MinutesOf(obs, "watchdog")
        /\ \A m \in MinutesOf(obs, "cron") : m < e.first \/ m > e.last
        /\ e.identity \in Interval /\ e.identity.first = e.first
        /\ e.identity.last <= e.last /\ Count(e.identity) >= Threshold
        /\ e.identity.first..e.identity.last \subseteq MinutesOf(obs, "watchdog")
    BY <1>1, EpisodeIs
  <2>2. e.first \in Nat /\ e.last \in Nat /\ e.identity.last \in Nat
    BY <2>1, Numbers DEF Interval
  <2>3. e.first >= lo
    <3>1. e.first \in e.first..(e.first + Threshold - 1)
      BY <2>2, Numbers
    <3> QED BY <1>1, <2>1, <3>1
  <2> QED BY <1>1, <2>1, <2>2, <2>3
<1>4. \A e \in E, f \in E : e.first < f.first =>
        \E m \in Claimed' : m >= lo /\ e.last < m /\ m < f.first
  BY <1>1, EpisodesApart
<1>5. \A a \in Minutes, b \in Minutes :
         a >= lo /\ b - a + 1 >= Threshold /\ a..b \subseteq Missed' =>
           \E e \in E : e.first <= a /\ b <= e.last
  <2> SUFFICES ASSUME NEW a \in Minutes, NEW b \in Minutes,
                      a >= lo, b - a + 1 >= Threshold, a..b \subseteq Missed'
               PROVE  \E e \in E : e.first <= a /\ b <= e.last
    OBVIOUS
  <2>1. a..b \subseteq MinutesOf(obs, "watchdog")
    <3>1. a \in Nat /\ b \in Nat
      BY Numbers
    <3>2. \A m \in a..b : m >= lo
      BY <1>1, <3>1
    <3> QED BY <1>1, <3>2
  <2> QED BY <1>1, <2>1, EpisodeHolds
<1> QED BY <1>2, <1>3, <1>4, <1>5

LEMMA OutageNow ==
    ASSUME Types, NEW i \in DOMAIN outages
    PROVE  /\ outages[i] \in OutageType
           /\ outages[i].first \in Nat /\ outages[i].last \in Nat
           /\ outages[i].identity.first \in Minutes
           /\ outages[i].identity.last \in Minutes
           /\ outages[i].identity.first \in Nat /\ outages[i].identity.last \in Nat
<1>1. outages[i] \in OutageType
  BY DEF Types
<1> QED BY <1>1, Numbers DEF OutageType, Interval

(* While an outage's run is retained, it is anchored in the one episode    *)
(* that holds the run.                                                     *)
LEMMA AnchoredOutage ==
    ASSUME NEW s, NEW source, NEW lo, NEW E, Arrives(s, source, lo, E),
           NEW i \in DOMAIN outages, outages[i].identity.first >= lo
    PROVE  /\ \E e \in E : /\ Within(outages[i].identity, e)
                           /\ AnchorOf(outages[i], E) = e.first
           /\ outages[i].last >= lo + Threshold - 1
<1> DEFINE run == outages[i].identity
           holding == {e \in E : Within(run, e)}
           firsts == {e.first : e \in holding}
<1>1. /\ run.first \in Minutes /\ run.last \in Minutes
      /\ run.first \in Nat /\ run.last \in Nat /\ outages[i].last \in Nat
  BY OutageNow DEF Arrives, IInv
<1>2. /\ run.first..run.last \subseteq Missed /\ Count(run) >= Threshold
      /\ run.last <= outages[i].last
  BY DEF Arrives, IInv, Founded
<1> HIDE DEF run
<1>3. run.last - run.first + 1 >= Threshold /\ run.first <= run.last
  BY <1>1, <1>2, Numbers DEF Count
<1>4. /\ run.first >= lo /\ lo \in Int /\ run.first..run.last \subseteq Missed'
      /\ Claimed' \subseteq Minutes
  BY <1>2, ArrivalWindow DEF Arrives, IInv, run
<1>5. PICK e \in E : e.first <= run.first /\ run.last <= e.last
  BY <1>1, <1>3, <1>4, NewEpisodes
<1>6. \A f \in holding : f = e
  <2> SUFFICES ASSUME NEW f \in E, Within(run, f) PROVE f = e
    OBVIOUS
  <2>1. f.first <= run.first /\ run.last <= f.last
    BY DEF Within
  <2>2. /\ f.first \in Nat /\ f.last \in Nat /\ e.first \in Nat /\ e.last \in Nat
        /\ f.first = e.first => f = e
    BY NewEpisodes DEF Episodic
  <2>3. ASSUME f.first < e.first PROVE FALSE
    <3>1. PICK m \in Claimed' : f.last < m /\ m < e.first
      BY <2>3, NewEpisodes
    <3>2. m \in Int
      BY <1>4, <3>1, Numbers
    <3> QED BY <1>1, <1>3, <1>5, <2>1, <2>2, <3>1, <3>2
  <2>4. ASSUME e.first < f.first PROVE FALSE
    <3>1. PICK m \in Claimed' : e.last < m /\ m < f.first
      BY <2>4, NewEpisodes
    <3>2. m \in Int
      BY <1>4, <3>1, Numbers
    <3> QED BY <1>1, <1>3, <1>5, <2>1, <2>2, <3>1, <3>2
  <2> QED BY <2>2, <2>3, <2>4
<1>7. e \in holding
  BY <1>5 DEF Within
<1>8. holding # {} /\ firsts = {e.first}
  BY <1>6, <1>7
<1>9. Min(firsts) = e.first
  <2>1. firsts \in SUBSET Nat /\ firsts # {}
    BY <1>8, NewEpisodes
  <2> HIDE DEF firsts
  <2> QED BY <1>8, <2>1, MinIn
<1>10. AnchorOf(outages[i], E) = e.first
  BY <1>8, <1>9 DEF AnchorOf, run
<1>11. outages[i].last >= lo + Threshold - 1
  BY <1>1, <1>2, <1>3, <1>4, Numbers
<1> QED BY <1>7, <1>10, <1>11 DEF run

LEMMA AgedOutage ==
    ASSUME NEW s, NEW source, NEW lo, NEW E, Arrives(s, source, lo, E),
           NEW i \in DOMAIN outages, outages[i].identity.first < lo
    PROVE  AnchorOf(outages[i], E) = None
<1>1. /\ outages[i].identity.first \in Nat /\ lo \in Int
      /\ \A e \in E : e.first \in Nat /\ e.first >= lo
  BY OutageNow, ArrivalWindow, NewEpisodes DEF Arrives, IInv
<1>2. {e \in E : Within(outages[i].identity, e)} = {}
  BY <1>1 DEF Within
<1> QED BY <1>2 DEF AnchorOf


LEMMA OldestGrows ==
    ASSUME NEW s, NEW source, NEW lo, NEW E, Arrives(s, source, lo, E),
           outages # <<>>
    PROVE  DOMAIN observations # {} /\ Oldest \in Int /\ lo \in Int /\ Oldest <= lo
BY ArrivalWindow DEF Arrives, IInv, Window

(* An outage that is an episode ends with enough missed minutes, and       *)
(* before one that is not known to be missed.                              *)
LEMMA EpisodeEnds ==
    ASSUME Types, Window, DOMAIN observations # {},
           NEW f \in Episodes
    PROVE  /\ f.first \in Nat /\ f.last \in Nat /\ f.first <= f.last
           /\ f.last - Threshold + 1 \in Minutes
           /\ (f.last - Threshold + 1)..f.last \subseteq Missed
           /\ f.last \in Minutes
           /\ f.last >= Oldest
           /\ f.last + 1 \notin Missed
<1>1. Readable(observations)
  BY ReadableNow
<1>2. /\ f.first \in Minutes /\ f.last \in Minutes
      /\ f.first + Threshold - 1 <= f.last
      /\ (f.last - Threshold + 1)..f.last \subseteq MinutesOf(observations, "watchdog")
      /\ f.last + 1 \notin MinutesOf(observations, "watchdog")
  BY <1>1, EpisodeIs DEF Episodes
<1>3. f.first \in Nat /\ f.first >= 1 /\ f.last \in Nat /\ f.last <= MaxMinute
  BY <1>2, Numbers
<1>4. /\ f.first <= f.last
      /\ f.last - Threshold + 1 \in Minutes
      /\ f.last \in (f.last - Threshold + 1)..f.last
  BY <1>2, <1>3, Numbers DEF Minutes
<1>5. /\ Oldest \in Int
      /\ MinutesOf(observations, "watchdog") = {m \in Missed : m >= Oldest}
  BY WindowNow
<1>6. f.last >= Oldest
  BY <1>2, <1>4, <1>5
<1>7. f.last + 1 >= Oldest
  BY <1>3, <1>5, <1>6
<1> QED BY <1>2, <1>3, <1>4, <1>5, <1>6, <1>7

(* What an outage may take it overlaps.                                    *)
LEMMA TakesOverlapping ==
    ASSUME NEW s, NEW source, NEW lo, NEW E, Arrives(s, source, lo, E),
           NEW i \in DOMAIN outages, NEW e \in E, MayTake(outages[i], E, e)
    PROVE  /\ outages[i].first <= e.last /\ e.first <= outages[i].last
           /\ outages[i].identity.first >= lo => Within(outages[i].identity, e)
<1> DEFINE o == outages[i]
<1>1. /\ o.first \in Nat /\ o.last \in Nat /\ lo \in Int
      /\ o.identity.first \in Nat /\ o.identity.last \in Nat
      /\ e.first \in Nat /\ e.last \in Nat /\ e.first \in Minutes
      /\ Oldest \in Int /\ Oldest <= lo
  BY OutageNow, NewEpisodes, OldestGrows DEF Arrives, IInv, Episodic
<1>2. CASE o.identity.first < lo
  <2>1. AnchorOf(o, E) = None
    BY <1>2, AgedOutage
  <2>2. Overlap(o, e)
    BY <1>1, <2>1, Numbers DEF MayTake
  <2> HIDE DEF o
  <2> QED BY <1>1, <1>2, <2>2 DEF Overlap, o
<1>3. CASE o.identity.first >= lo
  <2>1. PICK f \in E : Within(o.identity, f) /\ AnchorOf(o, E) = f.first
    BY <1>3, AnchoredOutage
  <2>2. f.first # None
    BY <2>1, NewEpisodes, Numbers DEF Episodic
  <2>3. f = e
    BY <2>1, <2>2, NewEpisodes DEF MayTake, Episodic
  <2>4. /\ o.first <= o.identity.first /\ o.identity.last <= o.last
        /\ Count(o.identity) >= Threshold
    <3>1. o.identity.first >= Oldest
      BY <1>1, <1>3
    <3> QED BY <3>1 DEF Arrives, IInv, Founded
  <2>5. o.identity.first <= o.identity.last
    BY <1>1, <2>4, Numbers DEF Count
  <2> HIDE DEF o
  <2>6. e.first <= o.identity.first /\ o.identity.last <= e.last
    BY <2>1, <2>3 DEF Within
  <2>7. o.first <= e.last /\ e.first <= o.last
    BY <1>1, <2>4, <2>5, <2>6
  <2> QED BY <2>1, <2>3, <2>7 DEF o
<1> QED BY <1>1, <1>2, <1>3

(* An outage that ends with the final minutes takes nothing more.          *)
LEMMA SettledOutage ==
    ASSUME NEW s, NEW source, NEW lo, NEW E, Arrives(s, source, lo, E),
           NEW i \in DOMAIN outages, outages[i].last < lo + Threshold - 1
    PROVE  /\ outages[i].identity.first < lo
           /\ outages[i].last + 1 \notin Missed'
           /\ \A e \in E : ~ MayTake(outages[i], E, e)
<1> DEFINE o == outages[i]
<1>1. /\ o.first \in Nat /\ o.last \in Nat /\ lo \in Int
      /\ o.identity.first \in Nat /\ o.identity.last \in Nat
      /\ Oldest \in Int /\ Oldest <= lo /\ DOMAIN observations # {}
  BY OutageNow, OldestGrows DEF Arrives, IInv
<1>2. o.identity.first < lo
  <2>1. ~ (o.identity.first >= lo)
    BY <1>1, AnchoredOutage, Numbers
  <2> HIDE DEF o
  <2> QED BY <1>1, <2>1
<1>3. o.last + 1 \notin Missed
  <2>1. CASE Settled(o)
    BY <2>1 DEF Arrives, IInv, Founded
  <2>2. CASE ~ Settled(o)
    <3>1. PICK f \in Episodes : o.last = f.last
      BY <2>2 DEF Arrives, IInv, Founded
    <3> QED BY <1>1, <3>1, EpisodeEnds DEF Arrives, IInv
  <2> QED BY <2>1, <2>2
<1>4. o.last + 1 \notin Missed'
  <2>1. o.last + 1 < lo + Threshold
    <3> HIDE DEF o
    <3>1. o.last < lo + Threshold - 1
      BY DEF o
    <3> QED BY <1>1, <3>1, Numbers
  <2> QED BY <1>3, <2>1, ArrivalWindow DEF Arrives, IInv
<1>5. ASSUME NEW e \in E, MayTake(o, E, e) PROVE FALSE
  <2>1. o.first <= e.last /\ e.first <= o.last
    BY <1>5, TakesOverlapping
  <2>2. /\ e.first \in Nat /\ e.last \in Nat /\ e.first >= lo
        /\ e.first..(e.first + Threshold - 1) \subseteq Missed'
    BY NewEpisodes
  <2>3. o.last < lo + Threshold - 1
    OBVIOUS
  <2> HIDE DEF o
  <2>4. o.last + 1 \in e.first..(e.first + Threshold - 1)
    BY <1>1, <2>1, <2>2, <2>3, Numbers
  <2> QED BY <1>4, <2>2, <2>4
<1> QED BY <1>2, <1>4, <1>5

(* Any other is an episode, and finds one to take.                         *)
LEMMA CurrentOutage ==
    ASSUME NEW s, NEW source, NEW lo, NEW E, Arrives(s, source, lo, E),
           NEW i \in DOMAIN outages, outages[i].last >= lo + Threshold - 1
    PROVE  /\ ~ Settled(outages[i])
           /\ \E e \in E : MayTake(outages[i], E, e)
<1> DEFINE o == outages[i]
<1>1. /\ o.first \in Nat /\ o.last \in Nat /\ lo \in Int
      /\ o.identity.first \in Nat /\ o.identity.last \in Nat
      /\ Oldest \in Int /\ Oldest <= lo /\ DOMAIN observations # {}
      /\ o.last >= lo + Threshold - 1
  BY OutageNow, OldestGrows DEF Arrives, IInv
<1>2. ~ Settled(o)
  <2> HIDE DEF o
  <2> QED BY <1>1, Numbers DEF Settled
<1>3. CASE o.identity.first >= lo
  BY <1>2, <1>3, AnchoredOutage DEF MayTake
<1>4. CASE o.identity.first < lo
  <2>1. PICK f \in Episodes : o.first = f.first /\ o.last = f.last
    BY <1>2 DEF Arrives, IInv, Founded
  <2>2. /\ f.first <= f.last /\ f.last \in Minutes
        /\ f.last - Threshold + 1 \in Minutes
        /\ (f.last - Threshold + 1)..f.last \subseteq Missed'
    BY <1>1, EpisodeEnds, ArrivalWindow DEF Arrives, IInv
  <2> HIDE DEF o
  <2>3. f.last - Threshold + 1 >= lo /\ f.last - (f.last - Threshold + 1) + 1 >= Threshold
    BY <1>1, <2>1, Numbers
  <2>4. PICK e \in E : e.first <= f.last - Threshold + 1 /\ f.last <= e.last
    BY <2>2, <2>3, NewEpisodes
  <2>5. e.first \in Nat /\ e.last \in Nat
    BY NewEpisodes
  <2>6. Overlap(o, e)
    BY <1>1, <2>1, <2>2, <2>4, <2>5, Numbers DEF Overlap
  <2>7. AnchorOf(o, E) = None
    BY <1>4, AgedOutage DEF o
  <2> QED BY <1>2, <2>6, <2>7 DEF MayTake, o
<1> QED BY <1>1, <1>3, <1>4


(* Two outages that are episodes are held apart by a minute of Cron, and   *)
(* so cannot take one episode.                                             *)
LEMMA TakenByOne ==
    ASSUME NEW s, NEW source, NEW lo, NEW E, Arrives(s, source, lo, E),
           NEW i \in DOMAIN outages, NEW j \in DOMAIN outages, NEW e \in E,
           MayTake(outages[i], E, e), MayTake(outages[j], E, e)
    PROVE  ~ (~ Settled(outages[i]) /\ ~ Settled(outages[j])
                 /\ outages[i].last >= lo /\ outages[i].first < outages[j].first)
<1> SUFFICES ASSUME ~ Settled(outages[i]), ~ Settled(outages[j]),
                    outages[i].last >= lo, outages[i].first < outages[j].first
             PROVE  FALSE
  OBVIOUS
<1>1. DOMAIN observations # {} /\ lo \in Int /\ Oldest \in Int /\ Oldest <= lo
  BY OldestGrows
<1>2. PICK f \in Episodes : outages[i].first = f.first /\ outages[i].last = f.last
  BY DEF Arrives, IInv, Founded
<1>3. PICK g \in Episodes : outages[j].first = g.first /\ outages[j].last = g.last
  BY DEF Arrives, IInv, Founded
<1>4. PICK m \in MinutesOf(observations, "cron") : f.last < m /\ m < g.first
  <2>1. Readable(observations)
    BY ReadableNow DEF Arrives, IInv
  <2>2. f.first < g.first
    BY <1>2, <1>3
  <2> QED BY <2>1, <2>2, EpisodesApart DEF Episodes
<1>5. m \in Claimed' /\ m \in Nat
  <2>1. m \in Claimed
    BY <1>1, WindowNow DEF Arrives, IInv
  <2> QED BY <2>1, ArrivalWindow, Numbers DEF Arrives, IInv
<1>6. f.last \in Nat /\ g.first \in Nat
  BY <1>1, EpisodeEnds DEF Arrives, IInv
<1>7. f.last >= lo /\ e.first <= f.last /\ g.first <= e.last
  BY <1>2, <1>3, TakesOverlapping
<1>8. /\ e.first \in Nat /\ e.last \in Nat
      /\ m >= lo => m < e.first \/ m > e.last
  BY <1>5, NewEpisodes
<1> QED BY <1>1, <1>4, <1>5, <1>6, <1>7, <1>8

LEMMA ExclusiveNow ==
    ASSUME NEW s, NEW source, NEW lo, NEW E, Arrives(s, source, lo, E)
    PROVE  Exclusive(outages, E)
<1> SUFFICES ASSUME NEW e \in E, NEW i \in DOMAIN outages, NEW j \in DOMAIN outages,
                    MayTake(outages[i], E, e), MayTake(outages[j], E, e), i # j
             PROVE  FALSE
  BY DEF Exclusive
<1>1. /\ lo \in Int /\ outages[i].first \in Nat /\ outages[j].first \in Nat
      /\ outages[i].last \in Nat /\ outages[j].last \in Nat
  BY OldestGrows, OutageNow DEF Arrives, IInv
<1>2. outages[i].last >= lo + Threshold - 1 /\ outages[j].last >= lo + Threshold - 1
  BY <1>1, SettledOutage, Numbers
<1>3. /\ ~ Settled(outages[i]) /\ ~ Settled(outages[j])
      /\ outages[i].last >= lo /\ outages[j].last >= lo
  BY <1>1, <1>2, CurrentOutage, Numbers
<1>4. outages[i].first # outages[j].first
  BY <1>3 DEF Arrives, IInv, Distinct
<1>5. ~ (outages[i].first < outages[j].first) /\ ~ (outages[j].first < outages[i].first)
  BY <1>3, TakenByOne
<1> QED BY <1>1, <1>4, <1>5

(* If all minutes are known to be missed since the run an outage was       *)
(* detected by, it may take the first of the episodes.                     *)
LEMMA MissedSince ==
    ASSUME NEW s, NEW source, NEW lo, NEW E, Arrives(s, source, lo, E),
           NEW i \in DOMAIN outages, outages[i].identity.first < lo,
           outages[i].last >= lo + Threshold - 1,
           outages[i].identity.first..(lo + Threshold - 1) \subseteq Missed'
    PROVE  \E e \in E : /\ e.first = lo /\ MayTake(outages[i], E, e)
                        /\ outages[i].identity.last <= e.last
<1> DEFINE o == outages[i]
           run == outages[i].identity
           b == IF run.last >= lo + Threshold - 1 THEN run.last ELSE lo + Threshold - 1
<1>1. /\ o.first \in Nat /\ o.last \in Nat /\ lo \in Int
      /\ run.first \in Nat /\ run.last \in Nat /\ run.first >= 1
      /\ Oldest \in Int /\ Oldest <= lo
      /\ o.last >= lo + Threshold - 1
      /\ run.first < lo /\ Missed' \subseteq Minutes
  <2>1. Types /\ Missed' \subseteq Minutes
    BY ArrivalWindow DEF Arrives, IInv
  <2>2. /\ o.first \in Nat /\ o.last \in Nat /\ run.first \in Minutes
        /\ run.first \in Nat /\ run.last \in Nat
    BY <2>1, OutageNow
  <2>3. lo \in Int /\ Oldest \in Int /\ Oldest <= lo
    BY OldestGrows
  <2> QED BY <2>1, <2>2, <2>3, Numbers
<1>2. run.first..run.last \subseteq Missed' /\ run.last <= o.last
  BY ArrivalWindow DEF Arrives, IInv, Founded
<1>3. run.first..(lo + Threshold - 1) \subseteq Missed'
  OBVIOUS
<1>4. ~ Settled(o)
  BY CurrentOutage
<1>5. o.first <= lo
  <2>1. CASE run.first >= Oldest
    <3>1. o.first <= run.first
      BY <2>1 DEF Arrives, IInv, Founded
    <3> HIDE DEF o, run
    <3> QED BY <1>1, <3>1
  <2>2. CASE run.first < Oldest
    <3>1. run.first..(Oldest + Threshold - 1) \subseteq Missed
      <4> SUFFICES ASSUME NEW q \in run.first..(Oldest + Threshold - 1)
                   PROVE  q \in Missed
        OBVIOUS
      <4> HIDE DEF run, o
      <4>1. q \in run.first..(lo + Threshold - 1) /\ q < lo + Threshold
        BY <1>1, Numbers
      <4> QED BY <1>3, <4>1, ArrivalWindow DEF Arrives, IInv
    <3>2. o.first = Oldest
      BY <1>4, <2>2, <3>1 DEF Arrives, IInv, Founded
    <3> HIDE DEF o, run
    <3> QED BY <1>1, <3>2
  <2> HIDE DEF o, run
  <2> QED BY <1>1, <2>1, <2>2
<1> HIDE DEF run, o
<1>6. /\ b \in Int /\ b >= lo + Threshold - 1 /\ b >= run.last
      /\ lo..b \subseteq Missed'
  <2>1. CASE run.last >= lo + Threshold - 1
    <3>1. lo..b \subseteq run.first..run.last
      BY <1>1, <2>1
    <3> QED BY <1>1, <1>2, <2>1, <3>1
  <2>2. CASE ~ (run.last >= lo + Threshold - 1)
    <3>1. lo..b \subseteq run.first..(lo + Threshold - 1)
      BY <1>1, <2>2
    <3> QED BY <1>1, <1>3, <2>2, <3>1, Numbers
  <2> QED BY <2>1, <2>2
<1> HIDE DEF b
<1>7. lo \in Minutes /\ b \in Minutes
  <2>1. lo \in lo..b /\ b \in lo..b
    BY <1>1, <1>6, Numbers
  <2> QED BY <1>1, <1>6, <2>1
<1>8. lo >= lo /\ b - lo + 1 >= Threshold
  BY <1>1, <1>6, Numbers
<1>9. PICK e \in E : e.first <= lo /\ b <= e.last
  BY <1>6, <1>7, <1>8, NewEpisodes
<1>10. e.first \in Nat /\ e.last \in Nat /\ e.first >= lo
  BY NewEpisodes
<1>11. e.first = lo /\ run.last <= e.last
  BY <1>1, <1>6, <1>9, <1>10
<1>12. Overlap(o, e)
  BY <1>1, <1>5, <1>6, <1>9, <1>10, Numbers DEF Overlap
<1>13. AnchorOf(o, E) = None
  BY <1>1, AgedOutage DEF o, run
<1> QED BY <1>11, <1>12, <1>13 DEF MayTake, o, run
-----------------------------------------------------------------------------
(***************************************************************************)
(* What the answer makes of the outages.                                   *)
(***************************************************************************)
(* An outage is left alone, takes an episode, or is a new one.             *)
Left(i, E) ==
    /\ i \in DOMAIN outages /\ \A e \in E : ~ MayTake(outages[i], E, e)
    /\ outages'[i].first = outages[i].first /\ outages'[i].last = outages[i].last
    /\ outages'[i].identity = outages[i].identity
    /\ outages'[i].active = outages[i].active
    /\ outages'[i].recovery = outages[i].recovery

Becomes(i, e) ==
    /\ outages'[i].first = e.first /\ outages'[i].last = e.last
    /\ outages'[i].active = ~ Conclusive(e)
    /\ outages'[i].recovery = IF Conclusive(e) THEN e.recovery ELSE None

Moves(i, E, e) ==
    /\ i \in DOMAIN outages /\ MayTake(outages[i], E, e)
    /\ \A f \in E : MayTake(outages[i], E, f) => e.first <= f.first
    /\ outages'[i].identity = outages[i].identity
    /\ Becomes(i, e)

Opens(i, e) ==
    /\ i \notin DOMAIN outages
    /\ outages'[i].identity = e.identity
    /\ Becomes(i, e)

LEMMA SubmittedIs ==
    ASSUME NEW o \in OutageType,
           o.report = "flying" => o.attempts <= ReportRetries
    PROVE  /\ Submitted(o) \in OutageType
           /\ Submitted(o).first = o.first /\ Submitted(o).last = o.last
           /\ Submitted(o).identity = o.identity
           /\ Submitted(o).active = o.active /\ Submitted(o).recovery = o.recovery
           /\ Submitted(o).report = "flying" => Submitted(o).attempts <= ReportRetries
BY DEF Submitted, OutageType

LEMMA Outcome ==
    ASSUME NEW s, NEW source, NEW lo, NEW E, Arrives(s, source, lo, E)
    PROVE  /\ outages' \in Seq(OutageType) /\ DOMAIN outages \subseteq DOMAIN outages'
           /\ Retried'
           /\ \A i \in DOMAIN outages' :
                \/ Left(i, E)
                \/ \E e \in E : Moves(i, E, e) \/ Opens(i, e)
           /\ \A i \in DOMAIN outages', j \in DOMAIN outages' :
                i # j /\ ~ Left(i, E) /\ ~ Left(j, E) =>
                    outages'[i].first # outages'[j].first
           /\ \A e \in E : \E i \in DOMAIN outages' :
                outages'[i].first = e.first /\ outages'[i].last = e.last
<1>1. outages \in Seq(OutageType) /\ Episodic(E) /\ Exclusive(outages, E)
  BY NewEpisodes, ExclusiveNow DEF Arrives, IInv, Types
<1>2. PICK acc : /\ RecomputeOutages(outages, E) = acc.outages
                 /\ Progress(outages, E, acc, MaxMinute)
  BY <1>1, Recomputed
<1> DEFINE known == acc.outages
<1>3. outages' = [i \in DOMAIN known |-> Submitted(known[i])]
  BY <1>2 DEF Arrives, Arrival, Record
<1>4. /\ known \in Seq(OutageType) /\ DOMAIN outages \subseteq DOMAIN known
      /\ acc.assigned \subseteq DOMAIN outages
  BY <1>1, <1>2 DEF Progress
<1>5. \A e \in E : e.first <= MaxMinute /\ e.first \in Nat
  BY <1>1, Numbers DEF Episodic
<1>6. \A i \in acc.assigned : \E e \in E :
         /\ MayTake(outages[i], E, e)
         /\ \A f \in E : MayTake(outages[i], E, f) => e.first <= f.first
         /\ known[i] = Updated(outages[i], e)
  BY <1>2 DEF Progress
<1>7. \A i \in DOMAIN outages \ acc.assigned :
         known[i] = outages[i] /\ \A e \in E : ~ MayTake(outages[i], E, e)
  <2> SUFFICES ASSUME NEW i \in DOMAIN outages \ acc.assigned
               PROVE  known[i] = outages[i] /\ \A e \in E : ~ MayTake(outages[i], E, e)
    OBVIOUS
  <2>1. /\ known[i] = outages[i]
        /\ \A e \in E : MayTake(outages[i], E, e) => e.first > MaxMinute
    BY <1>2 DEF Progress
  <2> QED BY <1>5, <2>1, Numbers
<1>8. \A i \in DOMAIN known \ DOMAIN outages : \E e \in E :
         known[i] = Updated(NewOutage(e), e)
  BY <1>2 DEF Progress
<1>9. \A i \in DOMAIN known : known[i].report = "flying" => known[i].attempts <= ReportRetries
  <2> SUFFICES ASSUME NEW i \in DOMAIN known
               PROVE  known[i].report = "flying" => known[i].attempts <= ReportRetries
    OBVIOUS
  <2>1. CASE i \in acc.assigned
    <3>1. PICK e \in E : known[i] = Updated(outages[i], e)
      BY <1>6, <2>1
    <3>2. i \in DOMAIN outages /\ outages[i] \in OutageType
      BY <1>1, <1>4, <2>1
    <3>3. known[i].report = outages[i].report /\ known[i].attempts = outages[i].attempts
      BY <1>1, <3>1, <3>2, UpdatedIs
    <3> QED BY <3>2, <3>3 DEF Arrives, IInv, Retried
  <2>2. CASE i \in DOMAIN outages \ acc.assigned
    BY <1>7, <2>2 DEF Arrives, IInv, Retried
  <2>3. CASE i \notin DOMAIN outages
    <3>1. PICK e \in E : known[i] = Updated(NewOutage(e), e)
      BY <1>8, <2>3
    <3> QED BY <1>1, <3>1, NewOutageIs, UpdatedIs
  <2> QED BY <2>1, <2>2, <2>3
<1> HIDE DEF known
<1>10. \A i \in DOMAIN known :
         /\ outages'[i] \in OutageType
         /\ outages'[i].first = known[i].first /\ outages'[i].last = known[i].last
         /\ outages'[i].identity = known[i].identity
         /\ outages'[i].active = known[i].active
         /\ outages'[i].recovery = known[i].recovery
         /\ outages'[i].report = "flying" => outages'[i].attempts <= ReportRetries
  <2> SUFFICES ASSUME NEW i \in DOMAIN known
               PROVE  /\ outages'[i] \in OutageType
                      /\ outages'[i].first = known[i].first /\ outages'[i].last = known[i].last
                      /\ outages'[i].identity = known[i].identity
                      /\ outages'[i].active = known[i].active
                      /\ outages'[i].recovery = known[i].recovery
                      /\ outages'[i].report = "flying" => outages'[i].attempts <= ReportRetries
    OBVIOUS
  <2>1. known[i] \in OutageType /\ outages'[i] = Submitted(known[i])
    BY <1>3, <1>4
  <2> QED BY <1>9, <2>1, SubmittedIs
<1>11. DOMAIN outages' = DOMAIN known
  BY <1>3
<1>12. outages' \in Seq(OutageType)
  <2>1. DOMAIN known = 1..Len(known) /\ Len(known) \in Nat
    BY <1>4
  <2>2. \E n \in Nat : outages' \in [1..n -> OutageType]
    BY <1>3, <1>10, <1>11, <2>1
  <2> QED BY <2>2, SeqDef
<1>13. Retried'
  BY <1>10, <1>11 DEF Retried
<1>14. ASSUME NEW i \in DOMAIN known, ~ (i \in DOMAIN outages \ acc.assigned)
       PROVE  \E e \in E : Moves(i, E, e) \/ Opens(i, e)
  <2>1. CASE i \in acc.assigned
    <3>1. PICK e \in E :
           /\ MayTake(outages[i], E, e)
           /\ \A f \in E : MayTake(outages[i], E, f) => e.first <= f.first
           /\ known[i] = Updated(outages[i], e)
      BY <1>6, <2>1
    <3>2. i \in DOMAIN outages /\ outages[i] \in OutageType
      BY <1>1, <1>4, <2>1
    <3>3. /\ known[i].first = e.first /\ known[i].last = e.last
          /\ known[i].identity = outages[i].identity
          /\ known[i].active = ~ Conclusive(e)
          /\ known[i].recovery = IF Conclusive(e) THEN e.recovery ELSE None
      BY <1>1, <3>1, <3>2, UpdatedIs
    <3>4. Becomes(i, e)
      BY <1>10, <3>3 DEF Becomes
    <3>5. Moves(i, E, e)
      BY <1>10, <3>1, <3>2, <3>3, <3>4 DEF Moves
    <3> QED BY <3>5
  <2>2. CASE i \notin DOMAIN outages
    <3>1. PICK e \in E : known[i] = Updated(NewOutage(e), e)
      BY <1>8, <2>2
    <3>2. /\ known[i].first = e.first /\ known[i].last = e.last
          /\ known[i].identity = e.identity
          /\ known[i].active = ~ Conclusive(e)
          /\ known[i].recovery = IF Conclusive(e) THEN e.recovery ELSE None
      <4>1. NewOutage(e) \in OutageType /\ NewOutage(e).identity = e.identity
        BY <1>1, NewOutageIs
      <4> QED BY <1>1, <3>1, <4>1, UpdatedIs
    <3>3. Becomes(i, e)
      BY <1>10, <3>2 DEF Becomes
    <3>4. Opens(i, e)
      BY <1>10, <2>2, <3>2, <3>3 DEF Opens
    <3> QED BY <3>4
  <2> QED BY <1>14, <2>1, <2>2
<1>15. ASSUME NEW i \in DOMAIN outages \ acc.assigned PROVE Left(i, E)
  BY <1>4, <1>7, <1>10 DEF Left
<1>16. ASSUME NEW i \in DOMAIN known, NEW j \in DOMAIN known, i # j,
              ~ Left(i, E), ~ Left(j, E)
       PROVE  outages'[i].first # outages'[j].first
  <2>1. i \in Taken(outages, acc) /\ j \in Taken(outages, acc)
    BY <1>15, <1>16 DEF Taken, known
  <2>2. known[i].first # known[j].first
    BY <1>2, <1>16, <2>1 DEF Progress, known
  <2> QED BY <1>10, <2>2
<1>17. ASSUME NEW e \in E
       PROVE  \E i \in DOMAIN known :
                outages'[i].first = e.first /\ outages'[i].last = e.last
  <2>1. PICK i \in Taken(outages, acc) : known[i].first = e.first
    BY <1>2, <1>5 DEF Progress, known
  <2>2. i \in DOMAIN known /\ ~ (i \in DOMAIN outages \ acc.assigned)
    BY <1>4 DEF Taken, known
  <2>3. PICK f \in E : Becomes(i, f)
    BY <1>14, <2>2 DEF Moves, Opens
  <2>4. f = e
    BY <1>1, <1>10, <2>1, <2>2, <2>3 DEF Becomes, Episodic
  <2> QED BY <2>2, <2>3, <2>4 DEF Becomes
<1> QED BY <1>4, <1>11, <1>12, <1>13, <1>14, <1>15, <1>16, <1>17


(* Founded and Apart, of the oldest minute, the episodes and the evidence. *)
FoundedAt(o, lo, E, missed) ==
    LET run == o.identity IN
    /\ run.first..run.last \subseteq missed
    /\ Count(run) >= Threshold
    /\ run.last <= o.last
    /\ run.first >= lo => o.first <= run.first
    /\ o.last < lo + Threshold - 1 => o.last + 1 \notin missed
    /\ ~ (o.last < lo + Threshold - 1) =>
         /\ \E e \in E : o.first = e.first /\ o.last = e.last
         /\ run.first < lo /\ run.first..(lo + Threshold - 1) \subseteq missed
              => o.first = lo

ApartAt(a, b, lo, missed, claimed) ==
    LET between == (a.last + 1)..(b.first - 1) IN
    \/ between \cap claimed # {}
    \/ a.first < lo /\ \E q \in between : q < lo + Threshold /\ q \notin missed

LEMMA FoundedLeft ==
    ASSUME NEW s, NEW source, NEW lo, NEW E, Arrives(s, source, lo, E),
           NEW i, Left(i, E)
    PROVE  /\ FoundedAt(outages'[i], lo, E, Missed')
           /\ outages'[i].last < lo + Threshold - 1
<1> DEFINE o == outages[i]
           new == outages'[i]
<1>1. i \in DOMAIN outages
  BY DEF Left
<1>2. /\ new.last = o.last /\ new.first = o.first /\ new.identity = o.identity
  BY DEF Left
<1>3. /\ o.last \in Nat /\ lo \in Int /\ o.identity.first \in Nat
  BY <1>1, OutageNow, OldestGrows DEF Arrives, IInv
<1>4. o.last < lo + Threshold - 1
  <2>1. ~ (o.last >= lo + Threshold - 1)
    BY <1>1, CurrentOutage DEF Left
  <2> HIDE DEF o
  <2> QED BY <1>3, <2>1, Numbers
<1>5. o.identity.first < lo /\ o.last + 1 \notin Missed'
  BY <1>1, <1>4, SettledOutage
<1>6. /\ o.identity.first..o.identity.last \subseteq Missed'
      /\ Count(o.identity) >= Threshold /\ o.identity.last <= o.last
  BY <1>1, ArrivalWindow DEF Arrives, IInv, Founded
<1>7. ~ (o.identity.first >= lo)
  <2> HIDE DEF o
  <2> QED BY <1>3, <1>5
<1> HIDE DEF o, new
<1>8. FoundedAt(new, lo, E, Missed')
  BY <1>2, <1>4, <1>5, <1>6, <1>7 DEF FoundedAt
<1> QED BY <1>2, <1>4, <1>8 DEF new

LEMMA FoundedMoves ==
    ASSUME NEW s, NEW source, NEW lo, NEW E, Arrives(s, source, lo, E),
           NEW i, NEW e \in E, Moves(i, E, e)
    PROVE  FoundedAt(outages'[i], lo, E, Missed')
<1> DEFINE o == outages[i]
           new == outages'[i]
           run == o.identity
<1>1. /\ i \in DOMAIN outages /\ MayTake(o, E, e)
      /\ \A f \in E : MayTake(o, E, f) => e.first <= f.first
      /\ new.identity = run /\ new.first = e.first /\ new.last = e.last
  BY DEF Moves, Becomes
<1>2. /\ o.last \in Nat /\ lo \in Int /\ run.first \in Nat /\ run.last \in Nat
  BY <1>1, OutageNow, OldestGrows DEF Arrives, IInv
<1>3. /\ run.first..run.last \subseteq Missed'
      /\ Count(run) >= Threshold /\ run.last <= o.last
  BY <1>1, ArrivalWindow DEF Arrives, IInv, Founded
<1>4. /\ e.first \in Nat /\ e.last \in Nat /\ e.first >= lo
      /\ e.first + Threshold - 1 <= e.last
      /\ \A f \in E : f.first = e.first => f = e
  BY NewEpisodes DEF Episodic
<1>5. o.last >= lo + Threshold - 1
  <2>1. ~ (o.last < lo + Threshold - 1)
    BY <1>1, SettledOutage
  <2> HIDE DEF o, run
  <2> QED BY <1>2, <2>1, Numbers
<1>6. ASSUME run.first < lo, run.first..(lo + Threshold - 1) \subseteq Missed'
      PROVE  e.first = lo /\ run.last <= e.last
  <2>1. PICK f \in E : f.first = lo /\ MayTake(o, E, f) /\ run.last <= f.last
    BY <1>1, <1>5, <1>6, MissedSince
  <2>2. e.first <= lo
    BY <1>1, <2>1
  <2>3. f = e
    BY <1>2, <1>4, <2>1, <2>2
  <2> QED BY <2>1, <2>3
<1>7. run.first >= lo => e.first <= run.first /\ run.last <= e.last
  BY <1>1, TakesOverlapping DEF Within
<1> HIDE DEF o, new, run
<1>8. run.last <= e.last
  <2>1. CASE run.first >= lo
    BY <1>7, <2>1
  <2>2. CASE run.first < lo /\ run.last <= lo + Threshold - 1
    BY <1>2, <1>4, <2>2, Numbers
  <2>3. CASE run.first < lo /\ run.last > lo + Threshold - 1
    <3>1. run.first..(lo + Threshold - 1) \subseteq run.first..run.last
      BY <1>2, <2>3, Numbers
    <3> QED BY <1>3, <1>6, <2>3, <3>1
  <2> QED BY <1>2, <2>1, <2>2, <2>3, Numbers
<1>9. ~ (e.last < lo + Threshold - 1)
  BY <1>2, <1>4, Numbers
<1>10. FoundedAt(new, lo, E, Missed')
  BY <1>1, <1>3, <1>6, <1>7, <1>8, <1>9 DEF FoundedAt
<1> QED BY <1>10 DEF new

LEMMA FoundedOpens ==
    ASSUME NEW s, NEW source, NEW lo, NEW E, Arrives(s, source, lo, E),
           NEW i, NEW e \in E, Opens(i, e)
    PROVE  FoundedAt(outages'[i], lo, E, Missed')
<1> DEFINE new == outages'[i]
<1>1. new.identity = e.identity /\ new.first = e.first /\ new.last = e.last
  BY DEF Opens, Becomes
<1>2. /\ e.first \in Nat /\ e.last \in Nat /\ e.first >= lo
      /\ e.first + Threshold - 1 <= e.last
      /\ e.identity.first = e.first /\ e.identity.last <= e.last
      /\ e.identity.first..e.identity.last \subseteq Missed'
      /\ Count(e.identity) >= Threshold
  BY NewEpisodes
<1>3. lo \in Int
  BY ArrivalWindow DEF Arrives, IInv
<1> HIDE DEF new
<1>4. ~ (e.last < lo + Threshold - 1) /\ ~ (e.identity.first < lo) /\ e.first <= e.first
  BY <1>2, <1>3, Numbers
<1>5. FoundedAt(new, lo, E, Missed')
  BY <1>1, <1>2, <1>4 DEF FoundedAt
<1> QED BY <1>5 DEF new

(* The outages stay apart.                                                 *)
LEMMA ApartAfter ==
    ASSUME NEW s, NEW source, NEW lo, NEW E, Arrives(s, source, lo, E),
           NEW i \in DOMAIN outages', NEW j \in DOMAIN outages', i # j,
           outages'[i].identity.first <= outages'[j].identity.first
    PROVE  ApartAt(outages'[i].identity, outages'[j].identity, lo, Missed', Claimed')
<1> DEFINE a == outages'[i].identity
           b == outages'[j].identity
<1>1. lo \in Int /\ Claimed' \subseteq Minutes
  BY ArrivalWindow DEF Arrives, IInv
<1>2. /\ a.first \in Nat /\ a.last \in Nat /\ b.first \in Nat /\ b.last \in Nat
      /\ outages'[i].last \in Nat
  <2>1. outages'[i] \in OutageType /\ outages'[j] \in OutageType
    BY Outcome
  <2> QED BY <2>1, Numbers DEF OutageType, Interval
<1>3. \A k \in DOMAIN outages' : Left(k, E) \/ \E e \in E : Moves(k, E, e) \/ Opens(k, e)
  BY Outcome
<1>4. \A k \in DOMAIN outages' : FoundedAt(outages'[k], lo, E, Missed')
  BY <1>3, FoundedLeft, FoundedMoves, FoundedOpens
<1>5. /\ Count(a) >= Threshold /\ Count(b) >= Threshold /\ a.first <= b.first
      /\ a.first..a.last \subseteq Missed' /\ b.first..b.last \subseteq Missed'
      /\ a.last <= outages'[i].last
  BY <1>4 DEF FoundedAt
<1>6. \A e \in E, f \in E : e.first < f.first =>
         \E m \in Claimed' : m >= lo /\ e.last < m /\ m < f.first
  BY NewEpisodes
<1>7. \A e \in E :
         /\ e.first \in Nat /\ e.last \in Nat /\ e.first >= lo
         /\ e.first + Threshold - 1 <= e.last
         /\ e.first..(e.first + Threshold - 1) \subseteq Missed'
  BY NewEpisodes
<1>8. ASSUME NEW m \in Claimed', a.last < m, m < b.first
      PROVE  ApartAt(a, b, lo, Missed', Claimed')
  <2> HIDE DEF a, b
  <2>1. m \in (a.last + 1)..(b.first - 1)
    BY <1>1, <1>2, <1>8, Numbers
  <2> QED BY <2>1 DEF ApartAt
<1>9. ASSUME NEW q \in Nat, q \notin Missed', a.first < lo, q > a.last,
             q < lo + Threshold, NEW e \in E, b.first = e.first
      PROVE  ApartAt(a, b, lo, Missed', Claimed')
  <2> HIDE DEF a, b
  <2>1. q < e.first
    <3>1. ~ (q \in e.first..(e.first + Threshold - 1))
      BY <1>7, <1>9
    <3> QED BY <1>1, <1>7, <1>9, <3>1, Numbers
  <2>2. q \in (a.last + 1)..(b.first - 1)
    BY <1>2, <1>7, <1>9, <2>1
  <2> QED BY <1>9, <2>2 DEF ApartAt
<1>10. CASE i \in DOMAIN outages /\ j \in DOMAIN outages
  <2>1. outages[i].identity = a /\ outages[j].identity = b
    BY <1>3, <1>10 DEF Left, Moves, Opens
  <2>2. Apart(a, b)
    BY <1>5, <1>10, <2>1 DEF Arrives, IInv, Distinct
  <2>3. Oldest \in Int /\ Oldest <= lo
    BY <1>10, OldestGrows
  <2>4. CASE (a.last + 1)..(b.first - 1) \cap Claimed # {}
    BY <2>4, ArrivalWindow DEF ApartAt, Arrives, IInv
  <2>5. CASE /\ a.first < Oldest
             /\ \E q \in (a.last + 1)..(b.first - 1) :
                   q < Oldest + Threshold /\ q \notin Missed
    <3> HIDE DEF a, b
    <3>1. PICK q \in (a.last + 1)..(b.first - 1) :
             q < Oldest + Threshold /\ q \notin Missed
      BY <2>5
    <3>2. q < lo + Threshold /\ a.first < lo
      BY <1>1, <1>2, <2>3, <2>5, <3>1, Numbers
    <3>3. q \notin Missed'
      BY <3>1, <3>2, ArrivalWindow DEF Arrives, IInv
    <3>4. ApartAt(a, b, lo, Missed', Claimed')
      BY <3>2, <3>3 DEF ApartAt
    <3> QED BY <3>4 DEF a, b
  <2> QED BY <2>2, <2>4, <2>5 DEF Apart
<1>11. CASE j \notin DOMAIN outages
  <2>1. PICK e \in E : Opens(j, e)
    BY <1>3, <1>11 DEF Left, Moves
  <2>2. b = e.identity /\ outages'[j].first = e.first /\ b.first = e.first
    BY <2>1, NewEpisodes DEF Opens, Becomes
  <2>3. CASE Left(i, E)
    <3> DEFINE q == outages'[i].last + 1
    <3>1. /\ outages'[i].last < lo + Threshold - 1 /\ i \in DOMAIN outages
          /\ outages'[i].last = outages[i].last /\ outages[i].identity = a
      BY <2>3, FoundedLeft DEF Left
    <3>2. q \notin Missed' /\ a.first < lo
      BY <3>1, SettledOutage
    <3>3. q \in Nat /\ q > a.last /\ q < lo + Threshold
      <4>1. outages'[i].last < lo + Threshold - 1 /\ a.last <= outages'[i].last
        BY <1>5, <3>1
      <4> HIDE DEF a, b
      <4> QED BY <1>1, <1>2, <4>1, Numbers
    <3> HIDE DEF q
    <3> QED BY <1>9, <2>2, <3>2, <3>3
  <2>4. ASSUME NEW f \in E, Moves(i, E, f) \/ Opens(i, f)
        PROVE  ApartAt(a, b, lo, Missed', Claimed')
    <3>1. outages'[i].first = f.first /\ outages'[i].last = f.last
      BY <2>4 DEF Moves, Opens, Becomes
    <3>2. ~ Left(i, E) /\ ~ Left(j, E)
      <4>1. ~ Left(i, E)
        BY <2>4 DEF Moves, Opens, Left
      <4>2. ~ Left(j, E)
        BY <1>11 DEF Left
      <4> QED BY <4>1, <4>2
    <3>3. e.first # f.first
      BY <2>2, <3>1, <3>2, Outcome
    <3>4. a.last <= f.last
      BY <1>5, <3>1
    <3>5. CASE f.first < e.first
      <4>1. PICK m \in Claimed' : f.last < m /\ m < e.first
        BY <1>6, <3>5
      <4>2. m \in Nat
        BY <1>1, Numbers
      <4>3. a.last < m
        <5> HIDE DEF a, b
        <5> QED BY <1>2, <1>7, <3>4, <4>1, <4>2
      <4> QED BY <1>8, <2>2, <4>1, <4>3
    <3>6. CASE e.first < f.first
      <4>1. ~ (a.first >= lo)
        <5> SUFFICES ASSUME a.first >= lo PROVE FALSE
          OBVIOUS
        <5>1. f.first <= a.first
          BY <1>4, <3>1 DEF FoundedAt
        <5> HIDE DEF a, b
        <5> QED BY <1>2, <1>5, <1>7, <2>2, <3>6, <5>1
      <4>2. a.first < lo
        <5> HIDE DEF a, b
        <5> QED BY <1>1, <1>2, <4>1
      <4>3. ~ (a.first..(lo + Threshold - 1) \subseteq Missed')
        <5> SUFFICES ASSUME a.first..(lo + Threshold - 1) \subseteq Missed' PROVE FALSE
          OBVIOUS
        <5>1. ~ (f.last < lo + Threshold - 1)
          BY <1>1, <1>7, Numbers
        <5>2. f.first = lo
          BY <1>4, <3>1, <4>2, <5>1 DEF FoundedAt
        <5> QED BY <1>1, <1>7, <3>6, <5>2
      <4> HIDE DEF a, b
      <4>4. PICK q \in a.first..(lo + Threshold - 1) : q \notin Missed'
        BY <4>3
      <4>5. q \in Nat /\ q < lo + Threshold
        BY <1>1, <1>2, <4>4, Numbers
      <4>6. q > a.last
        BY <1>2, <1>5, <4>4, <4>5
      <4> QED BY <1>9, <2>2, <4>2, <4>4, <4>5, <4>6
    <3> HIDE DEF a, b
    <3> QED BY <1>7, <3>3, <3>5, <3>6
  <2> QED BY <1>3, <2>3, <2>4
<1>12. CASE i \notin DOMAIN outages /\ j \in DOMAIN outages
  <2>1. PICK e \in E : Opens(i, e)
    BY <1>3, <1>12 DEF Left, Moves
  <2>2. /\ a.first = e.first /\ a.last <= e.last /\ outages'[i].first = e.first
    BY <2>1, NewEpisodes DEF Opens, Becomes
  <2>3. b.first >= lo
    <3> HIDE DEF a, b
    <3> QED BY <1>1, <1>2, <1>5, <1>7, <2>2
  <2>4. ~ Left(j, E)
    <3> SUFFICES ASSUME Left(j, E) PROVE FALSE
      OBVIOUS
    <3>1. /\ outages'[j].last < lo + Threshold - 1
          /\ outages'[j].last = outages[j].last /\ outages[j].identity = b
      BY FoundedLeft DEF Left
    <3>2. b.first < lo
      BY <1>12, <3>1, SettledOutage
    <3> HIDE DEF a, b
    <3> QED BY <1>1, <1>2, <2>3, <3>2
  <2>5. PICK f \in E : Moves(j, E, f)
    BY <1>3, <1>12, <2>4 DEF Opens
  <2>6. outages'[j].first = f.first /\ outages'[j].last = f.last
    BY <2>5 DEF Moves, Becomes
  <2>7. e.first # f.first
    <3>1. ~ Left(i, E)
      BY <1>12 DEF Left
    <3> QED BY <2>2, <2>4, <2>6, <3>1, Outcome
  <2>8. f.first <= b.first /\ b.last <= f.last
    BY <1>4, <2>3, <2>6 DEF FoundedAt
  <2>9. b.first <= b.last
    <3> HIDE DEF a, b
    <3> QED BY <1>2, <1>5, Numbers DEF Count
  <2>10. ~ (f.first < e.first)
    <3> SUFFICES ASSUME f.first < e.first PROVE FALSE
      OBVIOUS
    <3>1. PICK m \in Claimed' : f.last < m /\ m < e.first
      BY <1>6
    <3>2. m \in Nat
      BY <1>1, Numbers
    <3> HIDE DEF a, b
    <3> QED BY <1>2, <1>5, <1>7, <2>2, <2>8, <2>9, <3>1, <3>2
  <2>11. e.first < f.first
    BY <1>7, <2>7, <2>10
  <2>12. PICK m \in Claimed' : e.last < m /\ m < f.first
    BY <1>6, <2>11
  <2>13. m \in Nat
    BY <1>1, Numbers
  <2>14. a.last < m /\ m < b.first
    <3> HIDE DEF a, b
    <3> QED BY <1>2, <1>7, <2>2, <2>8, <2>12, <2>13
  <2> QED BY <1>8, <2>14
<1> QED BY <1>10, <1>11, <1>12


(* What is conclusive shows every minute of the episode missed.            *)
LEMMA CertainAfter ==
    ASSUME NEW s, NEW source, NEW lo, NEW E, Arrives(s, source, lo, E)
    PROVE  RecoveredIsCertain'
<1> SUFFICES ASSUME NEW i \in DOMAIN outages', ~ outages'[i].active
             PROVE  /\ outages'[i].first..outages'[i].last \subseteq Missed'
                    /\ outages'[i].recovery > outages'[i].last
                    /\ outages'[i].recovery \in Claimed'
  BY DEF RecoveredIsCertain, Missed, Claimed
<1>1. Missed \subseteq Missed' /\ Claimed \subseteq Claimed'
  BY ArrivalWindow DEF Arrives, IInv
<1>2. CASE Left(i, E)
  <2>1. /\ outages[i].first..outages[i].last \subseteq Missed
        /\ outages[i].recovery > outages[i].last
        /\ outages[i].recovery \in Claimed
    BY <1>2 DEF Left, Arrives, IInv, RecoveredIsCertain, Missed, Claimed
  <2> QED BY <1>1, <1>2, <2>1 DEF Left
<1>3. ASSUME NEW e \in E, Moves(i, E, e) \/ Opens(i, e)
      PROVE  /\ outages'[i].first..outages'[i].last \subseteq Missed'
             /\ outages'[i].recovery > outages'[i].last
             /\ outages'[i].recovery \in Claimed'
  <2>1. /\ outages'[i].first = e.first /\ outages'[i].last = e.last
        /\ Conclusive(e) /\ outages'[i].recovery = e.recovery
    BY <1>3 DEF Moves, Opens, Becomes
  <2> DEFINE obs == observations'
  <2>2. /\ Readable(obs) /\ e \in QualifyingEpisodes(obs)
        /\ MinutesOf(obs, "watchdog") = {m \in Missed' : m >= lo}
        /\ MinutesOf(obs, "cron") = {m \in Claimed' : m >= lo}
    BY ArrivalWindow DEF Arrives, IInv
  <2> HIDE DEF obs
  <2>3. /\ e.first \in Minutes /\ e.last \in Minutes
        /\ e.first..e.last \subseteq DOMAIN obs
        /\ e.recovery \in MinutesOf(obs, "cron") /\ e.recovery > e.last
        /\ \A m \in MinutesOf(obs, "cron") : m < e.first \/ m > e.last
    BY <2>1, <2>2, EpisodeIs DEF Conclusive
  <2>4. e.first..e.last \subseteq MinutesOf(obs, "watchdog")
    <3> SUFFICES ASSUME NEW m \in e.first..e.last PROVE m \in MinutesOf(obs, "watchdog")
      OBVIOUS
    <3>1. m \in DOMAIN obs /\ m \in Int /\ ~ (m < e.first \/ m > e.last)
      BY <2>3, Numbers
    <3>2. m \notin MinutesOf(obs, "cron")
      BY <2>3, <3>1
    <3> QED BY <2>2, <3>1, <3>2 DEF Readable, MinutesOf, Sources
  <2> QED BY <2>1, <2>2, <2>3, <2>4
<1>4. Left(i, E) \/ \E e \in E : Moves(i, E, e) \/ Opens(i, e)
  BY Outcome
<1> QED BY <1>2, <1>3, <1>4

LEMMA FoundedNext ==
    ASSUME NEW lo, NEW E, OldestNext(lo), E = QualifyingEpisodes(observations'),
           NEW i \in DOMAIN outages', FoundedAt(outages'[i], lo, E, Missed')
    PROVE  Founded(outages[i])'
BY DEF FoundedAt, OldestNext, Founded, Settled, Episodes, Oldest

LEMMA ArrivalKeeps ==
    ASSUME IInv, NEW s, NEW source, Arrival(s, source),
           minute' = minute, NEW m \in inFlight, inFlight' = inFlight \ {m}
    PROVE  IInv'
<1> DEFINE lo == Oldest'
           E == QualifyingEpisodes(observations')
<1>0. OldestNext(lo)
  BY DEF OldestNext
<1> HIDE DEF lo
<1>1. Arrives(s, source, lo, E)
  BY <1>0 DEF Arrives
<1>2. E = QualifyingEpisodes(observations')
  OBVIOUS
<1> HIDE DEF E
<1>3. Types'
  <2>1. /\ observations' \in [DOMAIN observations' -> Sources]
        /\ evidence' \in [DOMAIN evidence' -> Sources]
        /\ DOMAIN observations' \subseteq Minutes /\ DOMAIN evidence' \subseteq Minutes
    BY <1>0, ArrivalWindow DEF IInv, Readable
  <2>2. IsFiniteSet(inFlight') /\ Cardinality(inFlight') <= MaxInFlight
    <3>1. IsFiniteSet(inFlight) /\ Cardinality(inFlight) <= MaxInFlight
      BY DEF IInv, Types
    <3>2. /\ IsFiniteSet(inFlight \ {m})
          /\ Cardinality(inFlight \ {m}) = Cardinality(inFlight) - 1
      BY <3>1, FS_RemoveElement
    <3>3. Cardinality(inFlight) \in Nat
      BY <3>1, FS_CardinalityType
    <3> QED BY <3>1, <3>2, <3>3, Numbers
  <2>3. outages' \in Seq(OutageType)
    BY <1>1, Outcome
  <2>4. minute' \in Minutes \cup {None} /\ inFlight' \subseteq Minutes
    BY DEF IInv, Types
  <2> QED BY <2>1, <2>2, <2>3, <2>4 DEF Types
<1>4. Window'
  <2>1. /\ DOMAIN observations' # {}
        /\ DOMAIN observations' = {n \in DOMAIN evidence' : n >= lo}
        /\ \A n \in DOMAIN observations' : observations'[n] = evidence'[n]
        /\ DOMAIN evidence' = DOMAIN evidence \cup {s}
    BY <1>0, ArrivalWindow DEF IInv
  <2>2. \A n \in DOMAIN evidence' : n <= minute' + 1
    <3>1. \A n \in DOMAIN evidence : n <= minute + 1
      BY DEF IInv, Window
    <3>2. s <= minute + 1
      <4>1. minute \in Nat
        BY Numbers DEF IInv, Types
      <4> QED BY <4>1, Numbers DEF Arrival
    <3> QED BY <2>1, <3>1, <3>2
  <2>3. inFlight' \subseteq (minute' - Timeout)..minute'
    BY DEF IInv, Window
  <2>4. DOMAIN observations' = {n \in DOMAIN evidence' : n >= Oldest'}
    BY <1>0, <2>1 DEF OldestNext
  <2> QED BY <2>1, <2>2, <2>3, <2>4 DEF Window
<1>5. \A i \in DOMAIN outages' : FoundedAt(outages'[i], lo, E, Missed')
  BY <1>1, Outcome, FoundedLeft, FoundedMoves, FoundedOpens
<1>6. (\A i \in DOMAIN outages : Founded(outages[i]))'
  BY <1>0, <1>2, <1>5, FoundedNext
<1>7. Distinct'
  <2>1. ASSUME NEW i \in DOMAIN outages', NEW j \in DOMAIN outages', i # j,
               outages'[i].identity.first <= outages'[j].identity.first
        PROVE  Apart(outages[i].identity, outages[j].identity)'
    <3>1. ApartAt(outages'[i].identity, outages'[j].identity, lo, Missed', Claimed')
      BY <1>1, <2>1, ApartAfter
    <3> QED BY <1>0, <3>1 DEF ApartAt, Apart, OldestNext, Oldest
  <2>2. ASSUME NEW i \in DOMAIN outages', Left(i, E)
        PROVE  Settled(outages[i])'
    <3>1. outages'[i].last < lo + Threshold - 1
      BY <1>1, <2>2, FoundedLeft
    <3> QED BY <1>0, <3>1 DEF Settled, OldestNext, Oldest
  <2>3. ASSUME NEW i \in DOMAIN outages', NEW j \in DOMAIN outages', i # j,
               ~ Settled(outages[i])', ~ Settled(outages[j])'
        PROVE  outages'[i].first # outages'[j].first
    BY <1>1, <2>2, <2>3, Outcome
  <2> QED BY <2>1, <2>3 DEF Distinct
<1>8. Covered'
  <2>1. \A e \in E : \E i \in DOMAIN outages' :
          outages'[i].first = e.first /\ outages'[i].last = e.last
    BY <1>1, Outcome
  <2> QED BY <1>2, <2>1 DEF Covered, Episodes
<1>9. Retried' /\ RecoveredIsCertain'
  BY <1>1, Outcome, CertainAfter
<1> QED BY <1>3, <1>4, <1>6, <1>7, <1>8, <1>9 DEF IInv

-----------------------------------------------------------------------------
(***************************************************************************)
(* The other steps, and the theorems.                                      *)
(***************************************************************************)
LEMMA RequestKeeps ==
    ASSUME IInv, NEW m \in Minutes, RequestMinute(m)
    PROVE  IInv'
<1>1. /\ m > minute /\ minute' = m
      /\ observations' = observations /\ outages' = outages /\ evidence' = evidence
      /\ inFlight' = IF Cardinality(Waiting(m)) >= MaxInFlight
                     THEN Waiting(m) ELSE Waiting(m) \cup {m}
  BY DEF RequestMinute
<1>2. /\ minute \in Nat /\ m \in Nat /\ inFlight \subseteq Minutes
      /\ IsFiniteSet(inFlight) /\ Cardinality(inFlight) <= MaxInFlight
      /\ inFlight \subseteq (minute - Timeout)..minute
  BY Numbers DEF IInv, Types, Window
<1>3. /\ Waiting(m) \subseteq inFlight /\ Waiting(m) \subseteq (m - Timeout)..m
      /\ m \notin Waiting(m)
  <2>1. ASSUME NEW n \in Waiting(m)
        PROVE  n \in inFlight /\ n \in (m - Timeout)..m /\ n < m
    <3>1. n \in inFlight /\ n >= m - Timeout
      BY DEF Waiting
    <3>2. n \in (minute - Timeout)..minute
      BY <1>2, <3>1
    <3>3. n \in Int /\ n <= minute /\ minute < m
      BY <1>1, <1>2, <3>2, Numbers
    <3> QED BY <1>2, <3>1, <3>3, Numbers
  <2>2. m \notin Waiting(m)
    BY <1>2, <2>1
  <2> QED BY <2>1, <2>2
<1>4. /\ IsFiniteSet(Waiting(m)) /\ Cardinality(Waiting(m)) \in Nat
      /\ Cardinality(Waiting(m)) <= MaxInFlight
  <2>1. IsFiniteSet(Waiting(m)) /\ Cardinality(Waiting(m)) <= Cardinality(inFlight)
    BY <1>2, <1>3, FS_Subset
  <2>2. Cardinality(Waiting(m)) \in Nat /\ Cardinality(inFlight) \in Nat
    BY <1>2, <2>1, FS_CardinalityType
  <2> QED BY <1>2, <2>1, <2>2, Numbers
<1>5. /\ IsFiniteSet(inFlight') /\ Cardinality(inFlight') <= MaxInFlight
      /\ inFlight' \subseteq Minutes /\ inFlight' \subseteq (m - Timeout)..m
  <2>1. CASE Cardinality(Waiting(m)) >= MaxInFlight
    BY <1>1, <1>2, <1>3, <1>4, <2>1
  <2>2. CASE ~ (Cardinality(Waiting(m)) >= MaxInFlight)
    <3>1. inFlight' = Waiting(m) \cup {m}
      BY <1>1, <2>2
    <3>2. /\ IsFiniteSet(Waiting(m) \cup {m})
          /\ Cardinality(Waiting(m) \cup {m}) = Cardinality(Waiting(m)) + 1
      BY <1>3, <1>4, FS_AddElement
    <3>3. Cardinality(inFlight') <= MaxInFlight
      BY <1>4, <2>2, <3>1, <3>2, Numbers
    <3>4. m \in (m - Timeout)..m
      BY <1>2, Numbers
    <3> QED BY <1>2, <1>3, <3>1, <3>2, <3>3, <3>4
  <2> QED BY <2>1, <2>2
<1>6. Types'
  BY <1>1, <1>5 DEF IInv, Types
<1>7. Window'
  <2>1. \A n \in DOMAIN evidence : n <= m + 1
    <3>1. \A n \in DOMAIN evidence : n <= minute + 1 /\ n \in Nat
      BY Numbers DEF IInv, Types, Window
    <3> QED BY <1>1, <1>2, <3>1
  <2> QED BY <1>1, <1>5, <2>1 DEF IInv, Window, Oldest
<1>8. /\ Retried' /\ (\A i \in DOMAIN outages : Founded(outages[i]))'
      /\ Distinct' /\ Covered' /\ RecoveredIsCertain'
  BY <1>1 DEF IInv, Retried, Founded, Distinct, Apart, Covered, RecoveredIsCertain,
              Settled, Episodes, Missed, Claimed, Oldest
<1> QED BY <1>6, <1>7, <1>8 DEF IInv

LEMMA ReportKeeps ==
    ASSUME IInv, NEW i \in DOMAIN outages,
           NEW report \in {"due", "flying", "waiting", "succeeded"},
           NEW attempts \in 0..(ReportRetries + 1),
           report = "flying" => attempts <= ReportRetries,
           outages' = [outages EXCEPT ![i].report = report, ![i].attempts = attempts],
           UNCHANGED <<minute, inFlight, observations, evidence>>
    PROVE  IInv'
<1>1. /\ minute' = minute /\ inFlight' = inFlight
      /\ observations' = observations /\ evidence' = evidence
  OBVIOUS
<1> DEFINE o == [outages[i] EXCEPT !.report = report, !.attempts = attempts]
<1>2. outages \in Seq(OutageType) /\ outages[i] \in OutageType
  BY DEF IInv, Types
<1>3. /\ o \in OutageType /\ o.first = outages[i].first /\ o.last = outages[i].last
      /\ o.identity = outages[i].identity /\ o.active = outages[i].active
      /\ o.recovery = outages[i].recovery /\ o.report = report /\ o.attempts = attempts
  BY <1>2 DEF OutageType
<1>4. outages' = [outages EXCEPT ![i] = o]
  BY <1>2 DEF OutageType
<1> HIDE DEF o
<1>5. outages' \in Seq(OutageType) /\ DOMAIN outages' = DOMAIN outages
  <2>1. i \in 1..Len(outages)
    BY <1>2
  <2>2. [outages EXCEPT ![i] = o] \in Seq(OutageType)
    BY <1>2, <1>3, <2>1, ExceptSeq
  <2> QED BY <1>2, <1>4, <2>2
<1>6. \A j \in DOMAIN outages :
         /\ outages'[j].first = outages[j].first /\ outages'[j].last = outages[j].last
         /\ outages'[j].identity = outages[j].identity
         /\ outages'[j].active = outages[j].active
         /\ outages'[j].recovery = outages[j].recovery
  BY <1>3, <1>4
<1>7. Retried'
  BY <1>3, <1>4, <1>5 DEF IInv, Retried
<1>8. Types'
  BY <1>1, <1>5 DEF IInv, Types
<1>9. Window'
  <2>1. DOMAIN observations # {} => Window'
    BY <1>1 DEF IInv, Window, Oldest
  <2>2. DOMAIN observations # {}
    BY DEF IInv, Window
  <2> QED BY <2>1, <2>2
<1>10. (\A j \in DOMAIN outages : Founded(outages[j]))'
  <2> SUFFICES ASSUME NEW j \in DOMAIN outages PROVE Founded(outages[j])'
    BY <1>5
  <2>1. Founded(outages[j])
    BY DEF IInv
  <2> QED BY <1>1, <1>6, <2>1 DEF Founded, Settled, Episodes, Missed, Oldest
<1>11. Distinct'
  BY <1>1, <1>5, <1>6 DEF IInv, Distinct, Apart, Settled, Missed, Claimed, Oldest
<1>12. Covered'
  BY <1>1, <1>5, <1>6 DEF IInv, Covered, Episodes
<1>13. RecoveredIsCertain'
  BY <1>1, <1>5, <1>6 DEF IInv, RecoveredIsCertain
<1> QED BY <1>7, <1>8, <1>9, <1>10, <1>11, <1>12, <1>13 DEF IInv

LEMMA InitHolds == Init => IInv
<1> SUFFICES ASSUME Init PROVE IInv
  OBVIOUS
<1>1. /\ minute = None /\ inFlight = {} /\ observations = <<>>
      /\ outages = <<>> /\ evidence = <<>>
  BY DEF Init
<1>2. DOMAIN observations = {} /\ DOMAIN evidence = {} /\ DOMAIN outages = {}
  BY <1>1
<1>3. IsFiniteSet(inFlight) /\ Cardinality(inFlight) = 0
  BY <1>1, FS_EmptySet
<1>4. Types
  BY <1>1, <1>2, <1>3, Numbers DEF Types
<1>5. Window
  BY <1>1, <1>2 DEF Window
<1>6. Episodes = {}
  BY <1>2 DEF Episodes, QualifyingEpisodes, QualifyingRuns, TakeoverRuns, MinutesOf
<1>7. Retried /\ Distinct /\ Covered /\ RecoveredIsCertain
  BY <1>2, <1>6 DEF Retried, Distinct, Covered, RecoveredIsCertain
<1> QED BY <1>2, <1>4, <1>5, <1>7 DEF IInv

LEMMA StepKeeps == IInv /\ [Next]_vars => IInv'
<1> SUFFICES ASSUME IInv, [Next]_vars PROVE IInv'
  OBVIOUS
<1>1. ASSUME NEW m \in Minutes, RequestMinute(m) PROVE IInv'
  BY <1>1, RequestKeeps
<1>2. ASSUME NEW m \in Minutes, AnswerRecorded(m) PROVE IInv'
  <2>1. PICK s \in {m, m + 1} \cap Minutes, source \in Sources : Record(s, source)
    BY <1>2 DEF AnswerRecorded
  <2>2. m \in inFlight /\ inFlight' = inFlight \ {m} /\ minute' = minute
    BY <1>2 DEF AnswerRecorded
  <2>3. s \in (minute - Timeout)..(minute + 1)
    <3>1. m \in (minute - Timeout)..minute /\ m \in Nat /\ minute \in Nat
      BY <2>2, Numbers DEF IInv, Types, Window
    <3>2. s = m \/ s = m + 1
      OBVIOUS
    <3> QED BY <3>1, <3>2, Numbers
  <2>4. Arrival(s, source)
    BY <2>1, <2>3 DEF Arrival
  <2> QED BY <2>2, <2>4, ArrivalKeeps
<1>3. ASSUME NEW m \in Minutes, AnswerWithoutEffect(m) PROVE IInv'
  <2>1. /\ m \in inFlight /\ inFlight' = inFlight \ {m} /\ minute' = minute
        /\ observations' = observations /\ outages' = outages /\ evidence' = evidence
    BY <1>3 DEF AnswerWithoutEffect
  <2>2. IsFiniteSet(inFlight') /\ Cardinality(inFlight') <= MaxInFlight
    <3>1. IsFiniteSet(inFlight) /\ Cardinality(inFlight) <= MaxInFlight
      BY DEF IInv, Types
    <3>2. /\ IsFiniteSet(inFlight \ {m})
          /\ Cardinality(inFlight \ {m}) = Cardinality(inFlight) - 1
      BY <2>1, <3>1, FS_RemoveElement
    <3>3. Cardinality(inFlight) \in Nat
      BY <3>1, FS_CardinalityType
    <3> QED BY <2>1, <3>1, <3>2, <3>3, Numbers
  <2>3. Types'
    BY <2>1, <2>2 DEF IInv, Types
  <2>4. Window'
    BY <2>1 DEF IInv, Window, Oldest
  <2>5. /\ Retried' /\ (\A i \in DOMAIN outages : Founded(outages[i]))'
        /\ Distinct' /\ Covered' /\ RecoveredIsCertain'
    BY <2>1 DEF IInv, Retried, Founded, Distinct, Apart, Covered, RecoveredIsCertain,
                Settled, Episodes, Missed, Claimed, Oldest
  <2> QED BY <2>3, <2>4, <2>5 DEF IInv
<1>4. ASSUME NEW i \in DOMAIN outages, NEW outcome \in {"succeeded", "waiting"},
             Report(i, outcome)
      PROVE  IInv'
  <2>1. /\ outages[i].attempts + 1 \in 0..(ReportRetries + 1)
        /\ outages[i] \in OutageType
    <3>1. outages[i] \in OutageType
      BY OutageNow DEF IInv
    <3>2. outages[i].attempts \in 0..(ReportRetries + 1)
      BY <3>1 DEF OutageType
    <3>3. outages[i].attempts <= ReportRetries
      BY <1>4 DEF Report, IInv, Retried
    <3> QED BY <3>1, <3>2, <3>3, Numbers
  <2>2. outages' = [outages EXCEPT ![i].report = outcome,
                                   ![i].attempts = outages[i].attempts + 1]
    BY <1>4 DEF Report
  <2> QED BY <1>4, <2>1, <2>2, ReportKeeps DEF Report
<1>5. ASSUME NEW i \in DOMAIN outages, RetryDue(i) PROVE IInv'
  <2>1. /\ outages[i].attempts \in 0..(ReportRetries + 1)
        /\ outages[i] \in OutageType
    <3>1. outages[i] \in OutageType
      BY OutageNow DEF IInv
    <3> QED BY <3>1 DEF OutageType
  <2>2. outages' = [outages EXCEPT ![i].report = "due",
                                   ![i].attempts = outages[i].attempts]
    BY <1>5, <2>1 DEF RetryDue, OutageType
  <2> QED BY <1>5, <2>1, <2>2, ReportKeeps DEF RetryDue
<1>6. CASE UNCHANGED vars
  <2>1. /\ minute' = minute /\ inFlight' = inFlight
        /\ observations' = observations /\ outages' = outages /\ evidence' = evidence
    BY <1>6 DEF vars
  <2>2. Types'
    BY <2>1 DEF IInv, Types
  <2>3. Window'
    BY <2>1 DEF IInv, Window, Oldest
  <2>4. /\ Retried' /\ (\A i \in DOMAIN outages : Founded(outages[i]))'
        /\ Distinct' /\ Covered' /\ RecoveredIsCertain'
    BY <2>1 DEF IInv, Retried, Founded, Distinct, Apart, Covered, RecoveredIsCertain,
                Settled, Episodes, Missed, Claimed, Oldest
  <2> QED BY <2>2, <2>3, <2>4 DEF IInv
<1> QED BY <1>1, <1>2, <1>3, <1>4, <1>5, <1>6 DEF Next, ReportSucceeds, ReportFails

(* The outages are the episodes the watchdog's evidence shows, kept apart. *)
THEOREM InvariantHolds == Spec => []IInv
<1> QED BY InitHolds, StepKeeps, PTL DEF Spec

(* Every variable of the tracker keeps its type.                           *)
THEOREM TypesHold == Spec => []TypeOK
<1>1. IInv => TypeOK
  <2> SUFFICES ASSUME IInv PROVE TypeOK
    OBVIOUS
  <2>1. Readable(observations) /\ Readable(evidence)
    BY DEF IInv, Types, Readable
  <2>2. \A f \in {observations, evidence} :
           DOMAIN f \subseteq Minutes /\ \A m \in DOMAIN f : f[m] \in Sources
    BY <2>1 DEF Readable
  <2>3. \A i \in DOMAIN outages : outages[i] \in OutageType
    BY OutageNow DEF IInv
  <2> QED BY <2>2, <2>3 DEF IInv, Types, TypeOK, OutageType
<1> QED BY <1>1, InvariantHolds, PTL

(* No stretch without Cron is reported twice.                              *)
THEOREM OutagesReportedOnce == Spec => []EachOutageOnce
<1>1. IInv => EachOutageOnce
  BY DEF IInv, Distinct, Apart, EachOutageOnce, Aged, Oldest, Missed, Claimed
<1> QED BY <1>1, InvariantHolds, PTL

(* Each long enough retained stretch without Cron lies in one outage.      *)
THEOREM OutagesRecorded == Spec => []EveryOutageRecorded
<1>1. IInv => EveryOutageRecorded
  <2> SUFFICES ASSUME IInv, NEW m \in MinutesOf(observations, "watchdog"),
                      m..(m + Threshold - 1) \subseteq MinutesOf(observations, "watchdog")
               PROVE  Cardinality({i \in DOMAIN outages :
                        Within([first |-> m, last |-> m + Threshold - 1], outages[i])}) = 1
    BY DEF EveryOutageRecorded
  <2> DEFINE n == m + Threshold - 1
  <2>1. /\ Readable(observations) /\ DOMAIN observations # {} /\ m \in Minutes
        /\ m \in Nat
    BY ReadableNow, Numbers DEF IInv, Readable, MinutesOf
  <2>2. n \in Nat /\ m <= n /\ n - m + 1 >= Threshold
    BY <2>1, Numbers
  <2>3. m..n \subseteq MinutesOf(observations, "watchdog")
    OBVIOUS
  <2> HIDE DEF n
  <2>4. n \in Minutes
    BY <2>1, <2>2, <2>3 DEF Readable, MinutesOf
  <2>5. PICK e \in Episodes : e.first <= m /\ n <= e.last
    BY <2>1, <2>2, <2>3, <2>4, EpisodeHolds DEF Episodes
  <2>6. PICK k \in DOMAIN outages : outages[k].first = e.first /\ outages[k].last = e.last
    BY DEF IInv, Covered
  <2>7. Within([first |-> m, last |-> n], outages[k])
    BY <2>5, <2>6 DEF Within
  <2>8. m >= Oldest /\ Oldest \in Int
    BY <2>1, WindowNow DEF IInv
  <2>9. ASSUME NEW i \in DOMAIN outages, Within([first |-> m, last |-> n], outages[i])
        PROVE  i = k
    <3>1. /\ outages[i].first <= m /\ n <= outages[i].last
          /\ outages[i].first \in Nat /\ outages[i].last \in Nat
      BY <2>9, OutageNow DEF Within, IInv
    <3>2. ~ Settled(outages[i])
      BY <2>1, <2>8, <3>1, Numbers DEF Settled, n
    <3>3. PICK f \in Episodes : outages[i].first = f.first /\ outages[i].last = f.last
      BY <3>2 DEF IInv, Founded
    <3>4. /\ e.first \in Nat /\ e.last \in Nat /\ f.first \in Nat /\ f.last \in Nat
          /\ MinutesOf(observations, "cron") \subseteq Nat
      BY <2>1, EpisodeEnds, Numbers DEF IInv, Readable, MinutesOf
    <3>5. ~ (e.first < f.first) /\ ~ (f.first < e.first)
      <4>1. ASSUME e.first < f.first PROVE FALSE
        <5>1. PICK c \in MinutesOf(observations, "cron") : e.last < c /\ c < f.first
          BY <2>1, <4>1, EpisodesApart DEF Episodes
        <5> QED BY <2>1, <2>2, <2>5, <3>1, <3>3, <3>4, <5>1
      <4>2. ASSUME f.first < e.first PROVE FALSE
        <5>1. PICK c \in MinutesOf(observations, "cron") : f.last < c /\ c < e.first
          BY <2>1, <4>2, EpisodesApart DEF Episodes
        <5> QED BY <2>1, <2>2, <2>5, <3>1, <3>3, <3>4, <5>1
      <4> QED BY <4>1, <4>2
    <3>6. outages[i].first = outages[k].first
      BY <2>6, <3>3, <3>4, <3>5
    <3>7. ~ Settled(outages[k])
      BY <2>1, <2>2, <2>5, <2>6, <2>8, <3>4, Numbers DEF Settled, n
    <3> QED BY <3>2, <3>6, <3>7 DEF IInv, Distinct
  <2>10. {i \in DOMAIN outages : Within([first |-> m, last |-> n], outages[i])} = {k}
    BY <2>7, <2>9
  <2> QED BY <2>10, FS_Singleton DEF n
<1> QED BY <1>1, InvariantHolds, PTL

(* An outage is called recovered only on certain evidence.                 *)
THEOREM RecoveriesAreCertain == Spec => []RecoveredIsCertain
<1>1. IInv => RecoveredIsCertain
  BY DEF IInv
<1> QED BY <1>1, InvariantHolds, PTL
=============================================================================
