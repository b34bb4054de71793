--------------------------- MODULE LatestSnapshot ---------------------------
(***************************************************************************)
(* The latest snapshot builder (run_job.ts, run_service.ts): a job, started *)
(* every minute, pulls observations from Pub/Sub, folds them into the      *)
(* latest-state object in R2, acknowledges them, and publishes one object  *)
(* per pollutant and a manifest of them.  Each of these is a call that may *)
(* fail with or without effect, and the job may be killed between two.     *)
(*                                                                         *)
(* Serialised bodies are their contents and the SHA-256 of the state, which*)
(* carries the time it was written, is the number of the run that wrote it.*)
(* The local cache is left out: it answers only when R2's ETag agrees.     *)
(***************************************************************************)
EXTENDS Naturals

CONSTANTS
    Series,       \* timeseries
    Products,     \* pollutants of the matrix
    ProductOf,    \* Series -> Products
    Values,       \* observed values
    Current,      \* Products -> values evaluateLatestCurrentValue accepts
    MaxAt,        \* latest observed_at
    Messages,     \* Pub/Sub messages
    Observation,  \* what a message carries, or Malformed
    Candidates,   \* observations an Integrity run may ask to reconcile
    Published,    \* series of the first core snapshot
    Malformed,    \* a message that does not decode
    None,         \* no row, no object, no manifest
    MaxRuns,      \* bound: jobs
    MaxFaults     \* bound: failures and redeliveries

Rows == [series : Series, at : 1 .. MaxAt, value : Values]

ASSUME SnapshotAssumption ==
    /\ ProductOf \in [Series -> Products]
    /\ Current \in [Products -> SUBSET Values]
    /\ Observation \in [Messages -> Rows \cup {Malformed}]
    /\ Candidates \subseteq Rows /\ Published \subseteq Series
    /\ MaxAt \in Nat /\ MaxRuns \in Nat /\ MaxFaults \in Nat
    /\ None \notin Rows /\ Malformed \notin Rows

VARIABLES
    message,   \* each message: absent, waiting, or acknowledged
    core,      \* series of the newest core snapshot
    cache,     \* series of the metadata cache object
    state,     \* the latest-state object: a row per series, and its hash
    objects,   \* the snapshot object of each product
    manifest,  \* the snapshot manifest
    job,       \* the job in flight
    runs,      \* jobs so far
    forgotten, \* series a job dropped, having read no state
    left,      \* products put and not yet recorded by a manifest
    faults

r2   == <<cache, state, objects, manifest>>
vars == <<message, core, r2, job, runs, forgotten, left, faults>>

Nothing == [s \in Series |-> None]

(* buildSourceRows: the rows of a product are those its metadata resolves. *)
Content(p, rows, known) ==
    {rows[s] : s \in {t \in known : ProductOf[t] = p /\ rows[t] # None}}

Contents(rows, known) == [p \in Products |-> Content(p, rows, known)]

Idle == [pc |-> "idle", mode |-> None, prev |-> None, rows |-> Nothing,
         hash |-> 0, known |-> {}, fresh |-> FALSE, pulled |-> {},
         moved |-> FALSE, todo |-> {}, entries |-> None, put |-> {},
         ok |-> TRUE]

Init ==
    /\ message = [m \in Messages |-> "absent"]
    /\ core = Published /\ cache = Published
    /\ state = [rows |-> Nothing, hash |-> 0]
    /\ objects = [p \in Products |-> None]
    /\ manifest = None
    /\ job = Idle /\ runs = 0
    /\ forgotten = {} /\ left = {} /\ faults = 0

-----------------------------------------------------------------------------
(***************************************************************************)
(* Outside the job.                                                        *)
(***************************************************************************)
Ingest(m) ==
    /\ message[m] = "absent"
    /\ message' = [message EXCEPT ![m] = "waiting"]
    /\ UNCHANGED <<core, r2, job, runs, forgotten, left, faults>>

(* Pub/Sub delivers at least once.                                         *)
Redeliver(m) ==
    /\ message[m] \in {"applied", "dropped"} /\ faults < MaxFaults
    /\ message' = [message EXCEPT ![m] = "waiting"]
    /\ faults' = faults + 1
    /\ UNCHANGED <<core, r2, job, runs, forgotten, left>>

CoreSnapshot ==
    /\ core' = Series /\ core # Series
    /\ UNCHANGED <<message, r2, job, runs, forgotten, left, faults>>

-----------------------------------------------------------------------------
(***************************************************************************)
(* The job.  The service starts one at a time (inFlight, one instance).    *)
(***************************************************************************)
Fault == faults' = faults + 1

(* An exception, or the service's timeout, ends the process.               *)
Dies == job' = Idle

(* Reading the manifest, the state and the metadata.  A manifest that      *)
(* cannot be read is none; a state that cannot be read, or is not there,   *)
(* is empty, except in a reconciliation, which needs it.                   *)
StartRun(mode, candidate) ==
    /\ job.pc = "idle" /\ runs < MaxRuns
    /\ \E prev \in {manifest, None}, read \in BOOLEAN :
         /\ mode = "reconcile" => read /\ state.hash # 0
         /\ faults' = faults + (IF prev # manifest THEN 1 ELSE 0)
                             + (IF read THEN 0 ELSE 1)
         /\ faults' <= MaxFaults
         /\ job' = [Idle EXCEPT
                !.pc = IF mode = "reconcile" THEN "store" ELSE "pull",
                !.mode = mode, !.prev = prev,
                !.rows = IF read THEN state.rows ELSE Nothing,
                !.hash = IF read THEN state.hash ELSE 0,
                !.known = core, !.fresh = (cache = core),
                !.pulled = candidate]
    /\ cache' = core
    /\ runs' = runs + 1
    /\ UNCHANGED <<message, core, state, objects, manifest, forgotten, left>>

Scheduled == StartRun("scheduler", {})
Manual    == StartRun("manual", {})
Reconcile == \E row \in Candidates : StartRun("reconcile", {row})

PullAcknowledging ==
    /\ job.pc = "pull"
    /\ \E some \in SUBSET {m \in Messages : message[m] = "waiting"} :
         LET bad == {m \in some : Observation[m] = Malformed}
         IN  /\ message' = [m \in Messages |->
                    IF m \in bad THEN "dropped"
                    ELSE IF m \in some /\ Observation[m].series \in job.known
                    THEN "applied" ELSE message[m]]
             /\ job' = [job EXCEPT !.pc = "store", !.pulled = some \ bad]
    /\ UNCHANGED <<core, r2, runs, forgotten, left, faults>>

(* flushPubsubRows: malformed messages are acknowledged at once.           *)
Pull ==
    /\ job.pc = "pull"
    /\ \E some \in SUBSET {m \in Messages : message[m] = "waiting"} :
         LET bad == {m \in some : Observation[m] = Malformed}
         IN  /\ message' = [m \in Messages |->
                    IF m \in bad THEN "dropped" ELSE message[m]]
             /\ job' = [job EXCEPT !.pc = "store", !.pulled = some \ bad]
    /\ UNCHANGED <<core, r2, runs, forgotten, left, faults>>

PullFails ==
    /\ job.pc = "pull" /\ faults < MaxFaults
    /\ Dies /\ Fault
    /\ UNCHANGED <<message, core, r2, runs, forgotten, left>>

-----------------------------------------------------------------------------
(***************************************************************************)
(* Folding rows into the state.                                            *)
(***************************************************************************)
Reconciling == job.mode = "reconcile"

(* Rows the metadata resolves, with a value that may be shown as current.  *)
Eligible ==
    {row \in IF Reconciling THEN job.pulled
             ELSE {Observation[m] : m \in job.pulled} :
        row.series \in job.known /\ row.value \in Current[ProductOf[row.series]]}

Mine(s) == {row \in Eligible : row.series = s}

Newest(s) == {row \in Mine(s) : \A other \in Mine(s) : other.at <= row.at}

(* A message with the time of the state's row replaces it, being taken in  *)
(* later; of several in one pull the first wins.  A reconciled row does so *)
(* only if it differs.                                                     *)
Supersedes(row, s) ==
    \/ job.rows[s] = None
    \/ job.rows[s].at < row.at
    \/ job.rows[s].at = row.at /\ (Reconciling => job.rows[s] # row)

Moving == {s \in Series : \E row \in Mine(s) : Supersedes(row, s)}

Applied ==
    {rows \in [Series -> Eligible \cup {job.rows[s] : s \in Series}] :
        \A s \in Series : IF s \in Moving THEN rows[s] \in Newest(s)
                                          ELSE rows[s] = job.rows[s]}

(* A reconciliation has nothing to acknowledge.                            *)
AfterStore == IF Reconciling THEN "build" ELSE "ack"

NothingMoved ==
    /\ job.pc = "store" /\ Moving = {}
    /\ job' = [job EXCEPT !.pc = AfterStore]
    /\ UNCHANGED <<message, core, r2, runs, forgotten, left, faults>>

WriteState(rows) ==
    /\ state' = [rows |-> rows, hash |-> runs]
    /\ forgotten' = forgotten \cup
           {s \in Series : job.hash # state.hash /\ state.rows[s] # None
                           /\ (rows[s] = None \/ rows[s].at < state.rows[s].at)}

StoreState ==
    /\ job.pc = "store" /\ Moving # {}
    /\ \E rows \in Applied :
         /\ WriteState(rows)
         /\ job' = [job EXCEPT !.pc = AfterStore, !.rows = rows,
                                !.hash = runs, !.moved = TRUE]
    /\ UNCHANGED <<message, core, cache, objects, manifest, runs, left, faults>>

StoreFails ==
    /\ job.pc = "store" /\ Moving # {} /\ faults < MaxFaults
    /\ \/ UNCHANGED <<state, forgotten>>
       \/ \E rows \in Applied : WriteState(rows)
    /\ Dies /\ Fault
    /\ UNCHANGED <<message, core, cache, objects, manifest, runs, left>>

(* ackPubsubMessages: in chunks, and whatever became of the rows.          *)
Acknowledged(some) ==
    message' = [m \in Messages |->
        IF m \notin some THEN message[m]
        ELSE IF Observation[m] \in Eligible THEN "applied" ELSE "dropped"]

Ack ==
    /\ job.pc = "ack"
    /\ Acknowledged(job.pulled)
    /\ job' = [job EXCEPT !.pc = "build"]
    /\ UNCHANGED <<core, r2, runs, forgotten, left, faults>>

AckFails ==
    /\ job.pc = "ack" /\ faults < MaxFaults
    /\ \E some \in SUBSET job.pulled : Acknowledged(some)
    /\ Dies /\ Fault
    /\ UNCHANGED <<core, r2, runs, forgotten, left>>

-----------------------------------------------------------------------------
(***************************************************************************)
(* Publishing.                                                             *)
(***************************************************************************)
(* reusablePhysicalEntries: a scheduled job that changed nothing, after a  *)
(* complete build from this very state and metadata.                       *)
Reusable ==
    /\ job.mode = "scheduler" /\ ~job.moved /\ job.fresh
    /\ job.hash # 0 /\ job.prev # None
    /\ job.prev.ok
    /\ job.prev.state = job.hash /\ job.prev.core = job.known

Build ==
    /\ job.pc = "build"
    /\ job' = IF Reusable
              THEN [job EXCEPT !.pc = "manifest", !.entries = job.prev.entries]
              ELSE [job EXCEPT !.pc = "publish", !.todo = Products,
                               !.entries = [p \in Products |-> None]]
    /\ UNCHANGED <<message, core, r2, runs, forgotten, left, faults>>

Previous(p) == IF job.prev = None THEN None ELSE job.prev.entries[p]

ChangedSinceLoad(p) == job.moved \/ ~job.fresh

Changed(p) == Previous(p) # Content(p, job.rows, job.known)

Entered(p, entry) ==
    [job EXCEPT
        !.pc = IF job.todo = {p} THEN "manifest" ELSE "publish",
        !.todo = @ \ {p},
        !.entries[p] = entry]

PutObject(p) ==
    /\ objects' = [objects EXCEPT ![p] = Content(p, job.rows, job.known)]
    /\ left' = left \cup {p}

SkipUnchanged(p) ==
    /\ job.pc = "publish" /\ p \in job.todo /\ ~Changed(p)
    /\ job' = Entered(p, Content(p, job.rows, job.known))
    /\ UNCHANGED <<message, core, r2, runs, forgotten, left, faults>>

PublishProduct(p) ==
    /\ job.pc = "publish" /\ p \in job.todo /\ Changed(p)
    /\ PutObject(p)
    /\ job' = [Entered(p, Content(p, job.rows, job.known)) EXCEPT
                !.put = @ \cup {p}]
    /\ UNCHANGED <<message, core, cache, state, manifest, runs, forgotten, faults>>

(* The entry of a product that fails is kept from the previous manifest.   *)
ProductFails(p) ==
    /\ job.pc = "publish" /\ p \in job.todo /\ Changed(p) /\ faults < MaxFaults
    /\ PutObject(p) \/ UNCHANGED <<objects, left>>
    /\ job' = [Entered(p, Previous(p)) EXCEPT !.ok = FALSE]
    /\ Fault
    /\ UNCHANGED <<message, core, cache, state, manifest, runs, forgotten>>

PutManifestAsComplete ==
    /\ manifest' = [ok |-> TRUE, state |-> job.hash, core |-> job.known,
                    entries |-> job.entries]
    /\ left' = left \ job.put

PutManifest ==
    /\ manifest' = [ok |-> job.ok, state |-> job.hash, core |-> job.known,
                    entries |-> job.entries]
    /\ left' = left \ job.put

WriteManifest ==
    /\ job.pc = "manifest"
    /\ PutManifest
    /\ Dies
    /\ UNCHANGED <<message, core, cache, state, objects, runs, forgotten, faults>>

ManifestFails ==
    /\ job.pc = "manifest" /\ faults < MaxFaults
    /\ PutManifest \/ UNCHANGED <<manifest, left>>
    /\ Dies /\ Fault
    /\ UNCHANGED <<message, core, cache, state, objects, runs, forgotten>>

(* run_service.ts kills a job past its time; what it had done stays done.  *)
Killed ==
    /\ job.pc # "idle" /\ faults < MaxFaults
    /\ Dies /\ Fault
    /\ UNCHANGED <<message, core, r2, runs, forgotten, left>>

Next ==
    \/ \E m \in Messages : Ingest(m) \/ Redeliver(m)
    \/ CoreSnapshot
    \/ Scheduled \/ Manual \/ Reconcile
    \/ Pull \/ PullFails
    \/ NothingMoved \/ StoreState \/ StoreFails
    \/ Ack \/ AckFails
    \/ Build
    \/ \E p \in Products : SkipUnchanged(p) \/ PublishProduct(p) \/ ProductFails(p)
    \/ WriteManifest \/ ManifestFails
    \/ Killed

Spec == Init /\ [][Next]_vars

-----------------------------------------------------------------------------
(***************************************************************************)
(* Properties.                                                             *)
(***************************************************************************)
Decodable == {m \in Messages : Observation[m] # Malformed}
StateRows == [Series -> Rows \cup {None}]
Entries   == [Products -> (SUBSET Rows) \cup {None}]
Manifests == [ok : BOOLEAN, state : 0 .. MaxRuns, core : SUBSET Series,
              entries : Entries] \cup {None}

Phases == {"idle", "pull", "store", "ack", "build", "publish", "manifest"}
Modes  == {None, "scheduler", "manual", "reconcile"}

Jobs == [pc : Phases, mode : Modes, prev : Manifests, rows : StateRows,
         hash : 0 .. MaxRuns, known : SUBSET Series, fresh : BOOLEAN,
         pulled : (SUBSET Decodable) \cup (SUBSET Candidates), moved : BOOLEAN,
         todo : SUBSET Products, entries : Entries \cup {None},
         put : SUBSET Products, ok : BOOLEAN]

(* Every variable has its type; what the job holds is what it could read.  *)
TypeOK ==
    /\ message \in [Messages -> {"absent", "waiting", "applied", "dropped"}]
    /\ core \in SUBSET Series /\ cache \in SUBSET Series
    /\ state \in [rows : StateRows, hash : 0 .. MaxRuns]
    /\ objects \in Entries /\ manifest \in Manifests
    /\ job \in Jobs
    /\ job.pulled \subseteq IF Reconciling THEN Candidates ELSE Decodable
    /\ runs \in 0 .. MaxRuns /\ faults \in 0 .. MaxFaults
    /\ forgotten \in SUBSET Series /\ left \in SUBSET Products

(* An eligible observation is acknowledged only once the durable state     *)
(* holds it or a newer one, and is lost again only by a job that took a    *)
(* state it could not read for an empty one: a crash, a failed or repeated *)
(* call at any point costs nothing.                                        *)
AckedIsKept ==
    \A m \in Messages :
        LET s == Observation[m].series
        IN  message[m] = "applied" /\ s \notin forgotten =>
                /\ state.rows[s] # None
                /\ state.rows[s].at >= Observation[m].at

(* What a complete build says it built from is what it shows: a job that   *)
(* reuses the entries of a manifest with this state and this metadata      *)
(* publishes nothing older.                                                *)
ManifestVouches ==
    manifest # None =>
        (manifest.ok /\ manifest.state = state.hash /\ state.hash # 0 =>
            manifest.entries = Contents(state.rows, manifest.core))

(* An object is what its manifest entry says, but for those an interrupted *)
(* or failed put left behind for the next manifest to record.              *)
ObjectsRecorded ==
    manifest # None =>
        \A p \in Products \ left :
            manifest.entries[p] \in {objects[p], None}
=============================================================================
