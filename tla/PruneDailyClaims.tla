-------------------------- MODULE PruneDailyClaims --------------------------
(***************************************************************************)
(* What the repository says of Prune Daily and the worker does not do.     *)
(***************************************************************************)
EXTENDS PruneDaily

(* No process dies: what goes wrong is reported by the run itself.         *)
UninterruptedSpec == Init /\ [][Next /\ ~Crash]_vars

(* A failed finalisation reports next_action "retry_run_finalization".     *)
(* When it had made the hierarchy reachable, the retry is refused.         *)
FinalizationCanBeRetried ==
    [][(/\ pc = "frozen" /\ pc' = "candidates" /\ faults' = faults
        /\ tree[cur] = frozen[cur] /\ index[cur] = NoContent)
         => cand'[cur].status # "failed"]_vars
=============================================================================
