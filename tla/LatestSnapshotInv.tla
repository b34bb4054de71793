------------------------- MODULE LatestSnapshotInv -------------------------
(***************************************************************************)
(* The inductive invariant of LatestSnapshot.                              *)
(***************************************************************************)
EXTENDS LatestSnapshot

(* Hashes grow with the runs: a state about to be written gets a new one.  *)
HashesAreOld ==
    /\ state.hash <= runs
    /\ state.hash = 0 => state.rows = Nothing
    /\ manifest # None => manifest.state <= runs
    /\ job.pc \in {"pull", "store"} =>
          /\ state.hash < runs
          /\ manifest # None => manifest.state < runs

(* The job holds the durable state and manifest, or took them for empty.   *)
JobReadsState ==
    /\ job.pc # "idle" =>
          /\ job.prev \in {manifest, None}
          /\ \/ job.hash = state.hash /\ job.rows = state.rows
             \/ job.hash = 0 /\ job.rows = Nothing
    /\ job.pc = "pull" => ~Reconciling
    /\ job.pc = "ack" => ~Reconciling

Held(m) ==
    LET s == Observation[m].series
    IN  s \notin forgotten =>
            /\ state.rows[s] # None
            /\ state.rows[s].at >= Observation[m].at

(* What is about to be acknowledged is in the durable state.               *)
StoredBeforeAck ==
    job.pc = "ack" =>
        \A m \in job.pulled : Observation[m] \in Eligible => Held(m)

(* The entries gathered so far say what the job read, and what is there.   *)
EntriesTrue ==
    job.pc \in {"publish", "manifest"} =>
        /\ job.entries \in Entries
        /\ job.pc = "manifest" => job.todo = {}
        /\ job.put \cap job.todo = {}
        /\ \A p \in Products \ job.todo :
              /\ job.ok => job.entries[p] = Content(p, job.rows, job.known)
              /\ p \notin left \ job.put => job.entries[p] \in {objects[p], None}

Fresh == job.pc \in {"pull", "store", "ack", "build"} =>
            job.put = {} /\ job.todo = {} /\ job.ok

(* Only what decodes is taken into the state.                              *)
AckedAreRows ==
    \A m \in Messages : message[m] = "applied" => Observation[m] \in Rows

IInv ==
    /\ TypeOK
    /\ AckedAreRows
    /\ HashesAreOld
    /\ JobReadsState
    /\ StoredBeforeAck
    /\ EntriesTrue
    /\ Fresh
    /\ AckedIsKept
    /\ ManifestVouches
    /\ ObjectsRecorded
=============================================================================
