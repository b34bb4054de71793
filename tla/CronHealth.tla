----------------------------- MODULE CronHealth -----------------------------
(***************************************************************************)
(* The scheduler watchdog's view of one scheduler Worker: it posts to the  *)
(* Worker every minute, learns from the answers who claimed each minute,   *)
(* Cloudflare Cron or the watchdog itself, and reports every stretch of    *)
(* minutes that Cron missed as an outage.                                  *)
(*                                                                         *)
(* Answers are up to fifteen minutes late and overtake each other, so that *)
(* outages are recomputed from all retained evidence whenever some         *)
(* arrives.  Minutes are numbered; an outage's report runs on a thread of  *)
(* its own.                                                                *)
(***************************************************************************)
EXTENDS Integers, Sequences, FiniteSetsExt

CONSTANTS
    Threshold,          \* minutes without Cron that make an outage
    Retention,          \* CRON_OBSERVATION_RETENTION_SLOTS
    Timeout,            \* minutes after which a request fails
    MaxInFlight,        \* requests under way
    ReportRetries,      \* length of DROPBOX_REPORT_RETRY_DELAYS_SECONDS
    MaxMinute           \* bound of the model: the last minute

ASSUME SettingsAssumption ==
    /\ Threshold \in Nat \ {0} /\ Retention \in Nat
    /\ Timeout \in Nat /\ Timeout + Threshold < Retention
    /\ MaxInFlight \in Nat \ {0} /\ ReportRetries \in Nat
    /\ MaxMinute \in Nat \ {0}

Minutes == 1..MaxMinute
Sources == {"cron", "watchdog"}
None == 0               \* no minute

VARIABLES
    minute,             \* last_dispatched_minute_epoch
    inFlight,           \* minutes whose request is under way
    observations,       \* who claimed a minute, for the retained ones
    outages,            \* the outages known, in the order of detection
    evidence            \* history: all observations ever accepted

vars == <<minute, inFlight, observations, outages, evidence>>

Init ==
    /\ minute = None
    /\ inFlight = {}
    /\ observations = <<>>
    /\ outages = <<>>
    /\ evidence = <<>>

-----------------------------------------------------------------------------
(***************************************************************************)
(* The chronological reading of the observations.                          *)
(***************************************************************************)
MinutesOf(obs, source) == {m \in DOMAIN obs : obs[m] = source}

(* Maximal runs of consecutive minutes the watchdog claimed.               *)
TakeoverRuns(obs) ==
    LET taken == MinutesOf(obs, "watchdog") IN
    {run \in [first : taken, last : taken] :
        /\ run.first <= run.last
        /\ run.first..run.last \subseteq taken
        /\ run.first - 1 \notin taken
        /\ run.last + 1 \notin taken}

Count(run) == run.last - run.first + 1

QualifyingRuns(obs) == {run \in TakeoverRuns(obs) : Count(run) >= Threshold}

RecoveryOf(obs, run) ==
    LET later == {m \in MinutesOf(obs, "cron") : m > run.last}
    IN  IF later = {} THEN None ELSE Min(later)

(* Qualifying runs with the same next Cron minute are one episode, known   *)
(* by the earliest of them.                                                *)
EpisodeOf(obs, runs) ==
    LET first    == Min({run.first : run \in runs})
        last     == Max({run.last : run \in runs})
        earliest == CHOOSE run \in runs : run.first = first
    IN  [first |-> first, last |-> last,
         count |-> Max({Count(run) : run \in runs}),
         identity |-> earliest,
         recovery |-> RecoveryOf(obs, earliest),
         gaps |-> ~ (first..last \subseteq DOMAIN obs)]

(* Mutated form: every qualifying run is an episode of its own.            *)
EpisodePerRun(obs) ==
    {EpisodeOf(obs, {run}) : run \in QualifyingRuns(obs)}

Together(obs, run) ==
    {other \in QualifyingRuns(obs) :
        RecoveryOf(obs, other) = RecoveryOf(obs, run)}

QualifyingEpisodes(obs) ==
    {EpisodeOf(obs, Together(obs, run)) : run \in QualifyingRuns(obs)}

-----------------------------------------------------------------------------
(***************************************************************************)
(* From episodes to the outages already known.                             *)
(***************************************************************************)
Within(inner, outer) ==
    outer.first <= inner.first /\ inner.last <= outer.last

Overlap(a, b) == a.first <= b.last /\ b.first <= a.last

NewOutage(episode) ==
    [first |-> episode.first, last |-> episode.last,
     count |-> episode.count, identity |-> episode.identity,
     active |-> TRUE, recovery |-> None, recoveryLogged |-> FALSE,
     report |-> "due", attempts |-> 0]

(* Mutated form: any later Cron minute is the recovery.                    *)
AnyRecovery(episode) == episode.recovery # None

(* Recovery counts only if no minute inside the episode is unknown.        *)
Conclusive(episode) == episode.recovery # None /\ ~ episode.gaps

Updated(outage, episode) ==
    [outage EXCEPT
        !.first = episode.first, !.last = episode.last,
        !.count = episode.count,
        !.active = ~ Conclusive(episode),
        !.recovery = IF Conclusive(episode) THEN episode.recovery ELSE None,
        !.recoveryLogged = @ \/ Conclusive(episode)]

(* An outage's anchor is the episode that holds the run it was first       *)
(* detected by, named by its first minute.                                 *)
AnchorOf(outage, episodes) ==
    LET holding == {e \in episodes : Within(outage.identity, e)}
    IN  IF holding = {} THEN None ELSE Min({e.first : e \in holding})

(* Mutated form: an outage whose anchor has aged out is forgotten.         *)
AnchoredCandidates(known, assigned, episodes, episode) ==
    {i \in DOMAIN known \ assigned :
        AnchorOf(known[i], episodes) = episode.first}

(* An outage anchored in the episode is taken first; then one whose anchor *)
(* has aged out of the observations and that overlaps the episode.         *)
Candidates(known, assigned, episodes, episode) ==
    LET free     == DOMAIN known \ assigned
        anchored == {i \in free : AnchorOf(known[i], episodes) = episode.first}
        aged     == {i \in free : /\ AnchorOf(known[i], episodes) = None
                                  /\ Overlap(known[i], episode)}
    IN  IF anchored # {} THEN anchored ELSE aged

(* An episode goes to the first outage that may have it, or is a new one.  *)
Assign(known, episodes, acc, episode) ==
    LET found == Candidates(known, acc.assigned, episodes, episode)
        i     == Min(found)
    IN  IF found = {}
        THEN [acc EXCEPT !.outages =
                Append(@, Updated(NewOutage(episode), episode))]
        ELSE [outages |-> [acc.outages EXCEPT ![i] = Updated(@, episode)],
              assigned |-> acc.assigned \cup {i}]

(* Episodes are taken in order: after a minute, those that start by then.  *)
AfterMinute(known, episodes) ==
    LET after[m \in 0..MaxMinute] ==
            IF m = 0 THEN [outages |-> known, assigned |-> {}]
            ELSE IF \A e \in episodes : e.first # m THEN after[m - 1]
            ELSE Assign(known, episodes, after[m - 1],
                        CHOOSE e \in episodes : e.first = m)
    IN  after

RecomputeOutages(known, episodes) ==
    AfterMinute(known, episodes)[MaxMinute].outages

(* Reports that wait for no delay are submitted, five times at most.       *)
Submitted(outage) ==
    IF outage.report = "due" /\ outage.attempts <= ReportRetries
    THEN [outage EXCEPT !.report = "flying"] ELSE outage

-----------------------------------------------------------------------------
(***************************************************************************)
(* The tracker's memory.                                                   *)
(***************************************************************************)
Pruned(obs) ==
    LET cutoff == Max(DOMAIN obs) - Retention
    IN  [m \in {n \in DOMAIN obs : n >= cutoff} |-> obs[m]]

With(obs, m, source) ==
    [n \in DOMAIN obs \cup {m} |-> IF n = m THEN source ELSE obs[n]]

(* The first evidence of a minute stands; a conflicting one is logged.     *)
Conflicts(m, source) ==
    m \in DOMAIN observations /\ observations[m] # source

Record(m, source) ==
    LET obs   == Pruned(With(observations, m, source))
        known == RecomputeOutages(outages, QualifyingEpisodes(obs))
    IN  /\ ~ Conflicts(m, source)
        /\ observations' = obs
        /\ outages' = [i \in DOMAIN known |-> Submitted(known[i])]
        /\ evidence' = IF m \in DOMAIN evidence THEN evidence
                       ELSE With(evidence, m, source)

-----------------------------------------------------------------------------
(***************************************************************************)
(* Requests and answers.                                                   *)
(***************************************************************************)
(* run_forever and request_minute: minutes are dispatched in order, some   *)
(* are missed while the machine sleeps, and one that finds too many        *)
(* requests under way is skipped.  By then the oldest have timed out.      *)
Waiting(m) == {n \in inFlight : n >= m - Timeout}

RequestMinute(m) ==
    /\ m > minute
    /\ minute' = m
    /\ inFlight' = IF Cardinality(Waiting(m)) >= MaxInFlight
                   THEN Waiting(m) ELSE Waiting(m) \cup {m}
    /\ UNCHANGED <<observations, outages, evidence>>

(* The answer names the Worker's minute: one later if the request crossed  *)
(* the minute.                                                             *)
AnswerRecorded(m) ==
    /\ m \in inFlight
    /\ inFlight' = inFlight \ {m}
    /\ \E slot \in {m, m + 1} \cap Minutes, source \in Sources :
          Record(slot, source)
    /\ UNCHANGED minute

(* A failure, an unreadable answer, one that proves nothing, or one that   *)
(* contradicts what is recorded.                                           *)
AnswerWithoutEffect(m) ==
    /\ m \in inFlight
    /\ inFlight' = inFlight \ {m}
    /\ UNCHANGED <<minute, observations, outages, evidence>>

-----------------------------------------------------------------------------
(***************************************************************************)
(* _report_outage, on the report executor.                                 *)
(***************************************************************************)
Report(i, outcome) ==
    /\ outages[i].report = "flying"
    /\ outages' = [outages EXCEPT ![i].report = outcome,
                                  ![i].attempts = @ + 1]
    /\ UNCHANGED <<minute, inFlight, observations, evidence>>

(* Uploaded, or Dropbox is not configured.                                 *)
ReportSucceeds(i) == Report(i, "succeeded")

ReportFails(i) == Report(i, "waiting")

(* The delay before the next attempt passes.                               *)
RetryDue(i) ==
    /\ outages[i].report = "waiting"
    /\ outages[i].attempts <= ReportRetries
    /\ outages' = [outages EXCEPT ![i].report = "due"]
    /\ UNCHANGED <<minute, inFlight, observations, evidence>>

Next ==
    \/ \E m \in Minutes :
         RequestMinute(m) \/ AnswerRecorded(m) \/ AnswerWithoutEffect(m)
    \/ \E i \in DOMAIN outages :
         ReportSucceeds(i) \/ ReportFails(i) \/ RetryDue(i)

Spec == Init /\ [][Next]_vars

-----------------------------------------------------------------------------
(***************************************************************************)
(* Properties.                                                             *)
(***************************************************************************)
(* Every variable has its type, and an outage its report's state.          *)
Interval == [first : Minutes, last : Minutes]

TypeOK ==
    /\ minute \in Minutes \cup {None}
    /\ inFlight \subseteq Minutes /\ Cardinality(inFlight) <= MaxInFlight
    /\ \A f \in {observations, evidence} :
          /\ DOMAIN f \subseteq Minutes
          /\ \A m \in DOMAIN f : f[m] \in Sources
    /\ \A i \in DOMAIN outages : outages[i] \in
         [first : Minutes, last : Minutes, count : Minutes,
          identity : Interval, active : BOOLEAN,
          recovery : Minutes \cup {None}, recoveryLogged : BOOLEAN,
          report : {"due", "flying", "waiting", "succeeded"},
          attempts : 0..(ReportRetries + 1)]

(* No stretch without Cron is reported twice: between the runs any two     *)
(* outages were detected by, Cron has claimed a minute, however late that  *)
(* became known; once the earlier run is no longer retained in full, at    *)
(* least some minute between them is not the watchdog's                    *)
(* (_recompute_outages, "without creating duplicate reports").             *)
Aged(run) == run.first < Max(DOMAIN observations) - Retention

EachOutageOnce ==
    \A i, j \in DOMAIN outages : i # j =>
        LET a == outages[i].identity
            b == outages[j].identity
            between == (a.last + 1)..(b.first - 1)
        IN  a.first <= b.first =>
              \/ between \cap MinutesOf(evidence, "cron") # {}
              \/ /\ Aged(a)
                 /\ ~ (between \subseteq MinutesOf(evidence, "watchdog"))

(* Whatever the order of arrival, each run of Threshold retained minutes   *)
(* without Cron lies in one outage, and in no other.                       *)
EveryOutageRecorded ==
    LET taken == MinutesOf(observations, "watchdog") IN
    \A m \in taken :
        m..(m + Threshold - 1) \subseteq taken =>
            Cardinality({i \in DOMAIN outages :
                Within([first |-> m, last |-> m + Threshold - 1],
                       outages[i])}) = 1

(* An outage is called recovered only when Cron is known to have missed    *)
(* every minute of it and to have claimed a later one.                     *)
RecoveredIsCertain ==
    \A i \in DOMAIN outages : ~ outages[i].active =>
        /\ outages[i].first..outages[i].last
              \subseteq MinutesOf(evidence, "watchdog")
        /\ outages[i].recovery > outages[i].last
        /\ outages[i].recovery \in MinutesOf(evidence, "cron")
=============================================================================
