-------------------------- MODULE CronSchedulerInv --------------------------
(***************************************************************************)
(* The inductive invariant of CronScheduler: what an invocation at each    *)
(* await may rely on about the tables and the targets.                     *)
(***************************************************************************)
EXTENDS CronScheduler

(* The invocation owns its minute and has not let go of it.                *)
Owns(i) ==
    inv[i].pc \in {"list", "jobs", "dry", "send", "record", "catch", "fail"}

(* The invocation ran its minute to the end.                               *)
Ran(i) == inv[i].pc = "done" /\ inv[i].reply = "triggered"

(* Who owns a minute, or ran it to the end, is its recorded source; who    *)
(* lost it was told the recorded source.                                   *)
Recorded(i) ==
    /\ Owns(i) \/ Ran(i) =>
         /\ runs[inv[i].slot].status # "none"
         /\ runs[inv[i].slot].source = inv[i].source
    /\ inv[i].pc = "done" /\ inv[i].reply \in Sources =>
         /\ runs[inv[i].slot].status # "none"
         /\ runs[inv[i].slot].source = inv[i].reply

OwnersRecorded == \A i \in Invocations : Recorded(i)

(* The loop never leaves the minute of the run.                            *)
SlotsWithin(i) ==
    /\ Owns(i) => inv[i].slots \subseteq {inv[i].slot}
    /\ inv[i].pc \in {"idle", "claim", "list"} => inv[i].slots = {}

SlotsWithinRun == \A i \in Invocations : SlotsWithin(i)

(* The invocation is between claiming a dispatch and settling it.          *)
Holds(i) == inv[i].pc \in {"dry", "send", "record", "catch"}

(* A held dispatch is of the minute of the run and has a row; its step     *)
(* tells whether the request was made and the row written.                 *)
HeldBy(i) ==
    LET j == inv[i].job
        m == inv[i].at
    IN  /\ Holds(i) => /\ j \in Jobs /\ m = inv[i].slot
                       /\ dispatches[j][m] # "none"
        /\ inv[i].pc \in {"dry", "send"} =>
             dispatches[j][m] = "claimed" /\ requests[j][m] = 0
        /\ inv[i].pc = "record" =>
             /\ dispatches[j][m] = "claimed" /\ requests[j][m] = 1
             /\ inv[i].result \in {"dispatched", "failed"}
             /\ inv[i].result = "dispatched" => <<j, m>> \in accepted
        /\ inv[i].pc = "jobs" /\ inv[i].slots # {} => j \in Jobs

HeldDispatch == \A i \in Invocations : HeldBy(i)

(* No two invocations hold the same dispatch.                              *)
HeldOnce ==
    \A i, k \in Invocations :
        Holds(i) /\ Holds(k) /\ inv[i].job = inv[k].job
          /\ inv[i].at = inv[k].at => i = k

(* The inductive invariant.                                                *)
IInv ==
    /\ TypeOK
    /\ OwnersRecorded /\ SlotsWithinRun
    /\ HeldDispatch /\ HeldOnce
    /\ RequestedAtMostOnce /\ RecordedTruthfully /\ RequestsClaimedMinutes

-----------------------------------------------------------------------------
(***************************************************************************)
(* The accounts of a run, which every step that keeps IInv keeps.          *)
(***************************************************************************)

(* The invocation is running its minute and nothing went wrong with the    *)
(* run itself.                                                             *)
Active(i) == inv[i].pc \in {"list", "jobs", "dry", "send", "record", "catch"}

(* A minute nobody claimed has no dispatches.                              *)
UnclaimedEmpty ==
    \A m \in Minutes : runs[m].status = "none" =>
        \A j \in Jobs : dispatches[j][m] = "none"

OwnedOnce ==
    \A i, k \in Invocations :
        Owns(i) /\ Owns(k) /\ inv[i].slot = inv[k].slot => i = k

(* The dispatch rows of a minute, and the jobs whose row has a status.     *)
RowsOf(m) == [j \in Jobs |-> dispatches[j][m]]
In(rows, status) == {j \in Jobs : rows[j] = status}

(* The dispatch at hand, and the one whose row no longer counts because    *)
(* its failure is already counted.                                         *)
AtHand(me) == IF me.pc \in {"dry", "send", "record", "catch"} THEN {me.job} ELSE {}
Spoiled(me) == IF me.pc = "catch" THEN {me.job} ELSE {}

(* The counters of a run in progress are those of the rows.                *)
Tally(me, rows) ==
    /\ In(rows, "claimed") \subseteq AtHand(me)
    /\ me.claimed = Cardinality(Jobs \ In(rows, "none"))
    /\ me.dispatched = Cardinality(In(rows, "dispatched") \ Spoiled(me))
    /\ me.failed >= Cardinality(In(rows, "failed") \cup Spoiled(me))

Tallied(i) ==
    /\ Active(i) => /\ runs[inv[i].slot].status = "started"
                    /\ Tally(inv[i], RowsOf(inv[i].slot))
    /\ inv[i].pc \in {"idle", "claim"} =>
         inv[i].claimed = 0 /\ inv[i].dispatched = 0 /\ inv[i].failed = 0

Accounts ==
    /\ UnclaimedEmpty /\ OwnedOnce
    /\ \A i \in Invocations : Tallied(i)
    /\ FinishedRunAccounts
=============================================================================
