---------------------------- MODULE CronHealthInv ----------------------------
(***************************************************************************)
(* The inductive invariant of CronHealth.  Answers can change nothing      *)
(* before the minute Oldest + Threshold: what the retained observations    *)
(* say of the first Threshold minutes is final.  So an outage that ends    *)
(* there is left alone from then on, and every other is one of the         *)
(* episodes the observations show.                                         *)
(***************************************************************************)
EXTENDS CronHealth

(* The first minute that may be retained.                                  *)
Oldest == Max(DOMAIN observations) - Retention

Missed  == MinutesOf(evidence, "watchdog")
Claimed == MinutesOf(evidence, "cron")

Episodes == QualifyingEpisodes(observations)

OutageType ==
    [first : Minutes, last : Minutes, count : Minutes,
     identity : Interval, active : BOOLEAN,
     recovery : Minutes \cup {None}, recoveryLogged : BOOLEAN,
     report : {"due", "flying", "waiting", "succeeded"},
     attempts : 0..(ReportRetries + 1)]

(* The observations are what is known of the minutes since Oldest, and     *)
(* requests under way are for recent minutes.                              *)
Window ==
    /\ inFlight \subseteq (minute - Timeout)..minute
    /\ \A m \in DOMAIN evidence : m <= minute + 1
    /\ DOMAIN observations = {m \in DOMAIN evidence : m >= Oldest}
    /\ \A m \in DOMAIN observations : observations[m] = evidence[m]
    /\ DOMAIN observations = {} => DOMAIN evidence = {} /\ outages = <<>>

(* An outage no episode of the observations can end with.                  *)
Settled(outage) == outage.last < Oldest + Threshold - 1

(* An outage was detected by a run that Cron missed, which it holds as     *)
(* long as the run is retained.  It is settled, or an episode: the first   *)
(* one, if Cron missed all minutes since the run it was detected by.       *)
Founded(outage) ==
    LET run == outage.identity IN
    /\ run.first..run.last \subseteq Missed
    /\ Count(run) >= Threshold
    /\ run.last <= outage.last
    /\ run.first >= Oldest => outage.first <= run.first
    /\ Settled(outage) => outage.last + 1 \notin Missed
    /\ ~ Settled(outage) =>
         /\ \E e \in Episodes : outage.first = e.first /\ outage.last = e.last
         /\ run.first < Oldest /\ run.first..(Oldest + Threshold - 1) \subseteq Missed
              => outage.first = Oldest

(* Between the runs two outages were detected by, Cron has claimed a       *)
(* minute, or a minute that is final is not known to be missed.            *)
Apart(a, b) ==
    LET between == (a.last + 1)..(b.first - 1) IN
    \/ between \cap Claimed # {}
    \/ a.first < Oldest
       /\ \E q \in between : q < Oldest + Threshold /\ q \notin Missed

Distinct ==
    \A i, j \in DOMAIN outages : i # j =>
        /\ outages[i].identity.first <= outages[j].identity.first =>
             Apart(outages[i].identity, outages[j].identity)
        /\ ~ Settled(outages[i]) /\ ~ Settled(outages[j]) =>
             outages[i].first # outages[j].first

(* Every episode is an outage.                                             *)
Covered ==
    \A e \in Episodes : \E i \in DOMAIN outages :
        outages[i].first = e.first /\ outages[i].last = e.last

(* A report that is uploaded may be repeated.                              *)
Retried == \A i \in DOMAIN outages :
    outages[i].report = "flying" => outages[i].attempts <= ReportRetries

Types ==
    /\ minute \in Minutes \cup {None}
    /\ inFlight \subseteq Minutes /\ IsFiniteSet(inFlight)
    /\ Cardinality(inFlight) <= MaxInFlight
    /\ DOMAIN observations \subseteq Minutes
    /\ observations \in [DOMAIN observations -> Sources]
    /\ DOMAIN evidence \subseteq Minutes
    /\ evidence \in [DOMAIN evidence -> Sources]
    /\ outages \in Seq(OutageType)

IInv ==
    /\ Types /\ Window /\ Retried
    /\ \A i \in DOMAIN outages : Founded(outages[i])
    /\ Distinct /\ Covered /\ RecoveredIsCertain
=============================================================================
