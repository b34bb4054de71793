----------------------- MODULE LatestSnapshotProofs -----------------------
(***************************************************************************)
(* The safety of the latest snapshot builder, for any number of series,    *)
(* messages, jobs and failures.                                            *)
(***************************************************************************)
EXTENDS LatestSnapshotInv, TLAPS

(* What a job may take into the state are rows.                            *)
LEMMA EligibleRows == TypeOK => Eligible \subseteq Rows
BY SnapshotAssumption DEF TypeOK, Eligible, Reconciling, Decodable, Jobs

(* The state a job may write.                                              *)
LEMMA AppliedRows ==
    ASSUME TypeOK, NEW rows \in Applied
    PROVE  /\ rows \in StateRows
           /\ \A s \in Moving : rows[s] \in Newest(s)
           /\ \A s \in Series \ Moving : rows[s] = job.rows[s]
<1>1. Eligible \subseteq Rows
      BY EligibleRows
<1>2. job.rows \in StateRows
      BY DEF TypeOK, Jobs
<1>3. Moving \subseteq Series
      BY DEF Moving
<1> QED BY <1>1, <1>2, <1>3 DEF Applied, StateRows

(* It holds every row taken in, or a newer one.                            *)
LEMMA AppliedHolds ==
    ASSUME TypeOK, NEW rows \in Applied, NEW row \in Eligible
    PROVE  /\ rows[row.series] # None
           /\ rows[row.series].at >= row.at
<1> DEFINE s == row.series
<1>1. Eligible \subseteq Rows /\ s \in Series
      BY EligibleRows DEF Rows
<1>2. CASE s \in Moving
      <2>1. rows[s] \in Mine(s) /\ row \in Mine(s) /\ row.at <= rows[s].at
            BY <1>2, AppliedRows DEF Newest, Mine
      <2>2. rows[s] \in Rows /\ rows[s].at \in Nat /\ row.at \in Nat
            BY <1>1, <2>1, SnapshotAssumption DEF Mine, Rows
      <2> QED BY <2>1, <2>2, SnapshotAssumption
<1>3. CASE s \notin Moving
      <2>1. rows[s] = job.rows[s] /\ ~Supersedes(row, s)
            BY <1>1, <1>3, AppliedRows DEF Moving, Mine
      <2>2. job.rows[s] \in Rows \cup {None}
            BY <1>1 DEF TypeOK, Jobs, StateRows
      <2>3. job.rows[s] # None
            BY <2>1 DEF Supersedes
      <2>4. job.rows[s].at \in Nat /\ row.at \in Nat
            BY <1>1, <2>2, <2>3, SnapshotAssumption DEF Rows
      <2> QED BY <2>1, <2>3, <2>4 DEF Supersedes
<1> QED BY <1>2, <1>3

(* What any product shows are rows.                                        *)
LEMMA ContentType ==
    ASSUME NEW rows \in StateRows, NEW known \in SUBSET Series, NEW p \in Products
    PROVE  Content(p, rows, known) \in SUBSET Rows
BY DEF Content, StateRows

(* Writing the entry of a product.                                         *)
LEMMA EnteredType ==
    ASSUME TypeOK, job.pc = "publish", job.entries \in Entries,
           NEW p \in Products, NEW entry \in (SUBSET Rows) \cup {None}
    PROVE  /\ Entered(p, entry) \in Jobs
           /\ Entered(p, entry).entries = [job.entries EXCEPT ![p] = entry]
           /\ Entered(p, entry).entries \in Entries
<1>1. [job.entries EXCEPT ![p] = entry] \in Entries
      BY DEF Entries
<1>2. job.todo \ {p} \in SUBSET Products
      BY DEF TypeOK, Jobs
<1> QED BY <1>1, <1>2 DEF TypeOK, Jobs, Entered, Phases

(* The ends of a job keep everything about the job.                        *)
LEMMA IdleType == Idle \in Jobs
<1>1. Nothing \in StateRows
      BY DEF Nothing, StateRows
<1> QED BY <1>1, SnapshotAssumption DEF Idle, Jobs, Phases, Modes, Manifests

(* The job as it starts.                                                   *)
LEMMA StartedType ==
    ASSUME NEW pc \in Phases, NEW mode \in Modes, NEW prev \in Manifests,
           NEW rows \in StateRows, NEW hash \in 0 .. MaxRuns,
           NEW known \in SUBSET Series, NEW fresh \in BOOLEAN,
           NEW pulled \in SUBSET Candidates
    PROVE  [pc |-> pc, mode |-> mode, prev |-> prev, rows |-> rows,
            hash |-> hash, known |-> known, fresh |-> fresh,
            pulled |-> pulled, moved |-> FALSE, todo |-> {},
            entries |-> None, put |-> {}, ok |-> TRUE] \in Jobs
BY DEF Jobs

LEMMA Start == Init => IInv
<1> SUFFICES ASSUME Init PROVE IInv
    OBVIOUS
<1>1. Nothing \in StateRows
      BY DEF Nothing, StateRows
<1>2. TypeOK
      <2>1. state \in [rows : StateRows, hash : 0 .. MaxRuns]
            BY <1>1, SnapshotAssumption DEF Init
      <2>2. job \in Jobs /\ job.pulled = {}
            BY IdleType DEF Init, Idle
      <2>3. objects \in Entries /\ manifest \in Manifests
            BY DEF Init, Entries, Manifests
      <2> QED BY <2>1, <2>2, <2>3, SnapshotAssumption DEF Init, TypeOK
<1>3. \A m \in Messages : message[m] # "applied"
      BY DEF Init
<1> QED BY <1>2, <1>3, SnapshotAssumption
        DEF Init, IInv, HashesAreOld, JobReadsState, StoredBeforeAck, EntriesTrue,
            Fresh, AckedAreRows, AckedIsKept, ManifestVouches, ObjectsRecorded, Idle

-----------------------------------------------------------------------------
(* Steps outside the job.                                                  *)
LEMMA OutsideStep ==
    ASSUME IInv,
           \/ \E m \in Messages : Ingest(m) \/ Redeliver(m)
           \/ CoreSnapshot
    PROVE  IInv'
<1>1. /\ UNCHANGED <<cache, state, objects, manifest, job, runs, forgotten, left>>
      /\ \A m \in Messages : message'[m] \in {message[m], "waiting"}
      BY DEF Ingest, Redeliver, CoreSnapshot, r2, IInv, TypeOK
<1>2. TypeOK'
      BY SnapshotAssumption
      DEF Ingest, Redeliver, CoreSnapshot, r2, IInv, TypeOK, Reconciling
<1>3. (HashesAreOld /\ JobReadsState /\ EntriesTrue /\ Fresh /\ ManifestVouches
       /\ ObjectsRecorded)'
      BY <1>1 DEF IInv, HashesAreOld, JobReadsState, EntriesTrue, Fresh,
                  ManifestVouches, ObjectsRecorded, Reconciling, Contents, Content
<1>4. StoredBeforeAck'
      BY <1>1 DEF IInv, StoredBeforeAck, Held, Eligible, Reconciling
<1>5. AckedIsKept' /\ AckedAreRows'
      BY <1>1 DEF IInv, AckedIsKept, AckedAreRows
<1> QED BY <1>2, <1>3, <1>4, <1>5 DEF IInv

(* The job ends without a trace: an exception or a kill.                   *)
LEMMA DiesStep ==
    ASSUME IInv, Dies, Fault, faults < MaxFaults,
           UNCHANGED <<message, core, cache, state, objects, manifest, runs,
                       forgotten, left>>
    PROVE  IInv'
<1>1. TypeOK'
      BY IdleType, SnapshotAssumption
      DEF IInv, TypeOK, Dies, Fault, Idle, Reconciling
<1> QED BY <1>1 DEF IInv, HashesAreOld, JobReadsState, StoredBeforeAck, EntriesTrue,
            Fresh, AckedAreRows, AckedIsKept, ManifestVouches, ObjectsRecorded,
            Dies, Idle, Contents, Content

LEMMA StartStep ==
    ASSUME IInv, NEW mode \in {"scheduler", "manual", "reconcile"},
           NEW candidate \in SUBSET Candidates,
           mode # "reconcile" => candidate = {}, StartRun(mode, candidate)
    PROVE  IInv'
<1>p. PICK prev \in {manifest, None}, read \in BOOLEAN :
        /\ mode = "reconcile" => read /\ state.hash # 0
        /\ faults' = faults + (IF prev # manifest THEN 1 ELSE 0)
                            + (IF read THEN 0 ELSE 1)
        /\ faults' <= MaxFaults
        /\ job' = [Idle EXCEPT
               !.pc = IF mode = "reconcile" THEN "store" ELSE "pull",
               !.mode = mode, !.prev = prev,
               !.rows = IF read THEN state.rows ELSE Nothing,
               !.hash = IF read THEN state.hash ELSE 0,
               !.known = core, !.fresh = (cache = core),
               !.pulled = candidate]
    BY DEF StartRun
<1>0. /\ cache' = core /\ runs' = runs + 1 /\ runs < MaxRuns
      /\ UNCHANGED <<message, core, state, objects, manifest, forgotten, left>>
      BY DEF StartRun
<1>1. Nothing \in StateRows
      BY DEF Nothing, StateRows
<1>2. job' \in Jobs
      <2>1. prev \in Manifests /\ state.rows \in StateRows /\ core \in SUBSET Series
            /\ state.hash \in 0 .. MaxRuns
            BY DEF IInv, TypeOK, Manifests
      <2>2. 0 \in 0 .. MaxRuns
            BY SnapshotAssumption
      <2>f. PICK fresh \in BOOLEAN : fresh = (cache = core)
          OBVIOUS
      <2>3. PICK pc \in Phases : pc = IF mode = "reconcile" THEN "store" ELSE "pull"
            BY DEF Phases
      <2>4. PICK rows \in StateRows : rows = IF read THEN state.rows ELSE Nothing
            BY <1>1, <2>1
      <2>5. PICK hash \in 0 .. MaxRuns : hash = IF read THEN state.hash ELSE 0
            BY <2>1, <2>2
      <2>6. mode \in Modes
            BY DEF Modes
      <2>7. job' = [pc |-> pc, mode |-> mode, prev |-> prev, rows |-> rows,
                    hash |-> hash, known |-> core, fresh |-> fresh,
                    pulled |-> candidate, moved |-> FALSE, todo |-> {},
                    entries |-> None, put |-> {}, ok |-> TRUE]
            BY <1>p, <2>3, <2>4, <2>5, <2>f DEF Idle
      <2>8. prev \in Manifests /\ core \in SUBSET Series
            BY <2>1
      <2> QED BY <2>6, <2>7, <2>8, StartedType
<1>3. TypeOK'
      <2>1. faults' \in 0 .. MaxFaults
            BY <1>p, SnapshotAssumption DEF IInv, TypeOK
      <2>2. runs' \in 0 .. MaxRuns
            BY <1>0, SnapshotAssumption DEF IInv, TypeOK
      <2> QED BY <1>p, <1>0, <1>2, <2>1, <2>2 DEF IInv, TypeOK, Reconciling, Idle
<1>4. HashesAreOld'
      BY <1>p, <1>0, SnapshotAssumption DEF IInv, HashesAreOld, TypeOK, Manifests
<1>5. JobReadsState' /\ StoredBeforeAck' /\ EntriesTrue' /\ Fresh'
      BY <1>p, <1>0 DEF JobReadsState, StoredBeforeAck, EntriesTrue, Fresh, Idle, Reconciling
<1>6. (AckedAreRows /\ AckedIsKept /\ ManifestVouches /\ ObjectsRecorded)'
      BY <1>p, <1>0 DEF IInv, AckedAreRows, AckedIsKept, ManifestVouches, ObjectsRecorded, Contents, Content
<1> QED BY <1>3, <1>4, <1>5, <1>6 DEF IInv

-----------------------------------------------------------------------------
(* Taking rows in.                                                         *)
LEMMA PullStep == IInv /\ Pull => IInv'
<1> SUFFICES ASSUME IInv, Pull PROVE IInv'
    OBVIOUS
<1>p. PICK some \in SUBSET {m \in Messages : message[m] = "waiting"} :
        LET bad == {m \in some : Observation[m] = Malformed}
        IN  /\ message' = [m \in Messages |->
                   IF m \in bad THEN "dropped" ELSE message[m]]
            /\ job' = [job EXCEPT !.pc = "store", !.pulled = some \ bad]
    BY DEF Pull
<1> DEFINE bad == {m \in some : Observation[m] = Malformed}
<1>0. /\ job.pc = "pull" /\ ~Reconciling
      /\ UNCHANGED <<core, cache, state, objects, manifest, runs, forgotten, left, faults>>
      BY DEF Pull, r2, IInv, JobReadsState
<1>1. job' \in Jobs /\ job'.pulled \subseteq Decodable
      <2>1. some \ bad \in SUBSET Decodable
            BY DEF Decodable
      <2> QED BY <1>p, <2>1 DEF IInv, TypeOK, Jobs, Phases
<1>2. /\ job'.pc = "store" /\ job'.mode = job.mode /\ job'.prev = job.prev
      /\ job'.hash = job.hash /\ job'.rows = job.rows
      /\ job'.put = job.put /\ job'.todo = job.todo /\ job'.ok = job.ok
      BY <1>p DEF IInv, TypeOK, Jobs
<1>3. TypeOK'
      BY <1>0, <1>1, <1>2, <1>p DEF IInv, TypeOK, Reconciling
<1>4. (HashesAreOld /\ JobReadsState /\ StoredBeforeAck /\ EntriesTrue /\ Fresh)'
      BY <1>0, <1>2 DEF IInv, HashesAreOld, JobReadsState, StoredBeforeAck,
                        EntriesTrue, Fresh
<1>5. (AckedAreRows /\ AckedIsKept /\ ManifestVouches /\ ObjectsRecorded)'
      BY <1>0, <1>p DEF IInv, AckedAreRows, AckedIsKept, ManifestVouches, ObjectsRecorded,
                        Contents, Content
<1> QED BY <1>3, <1>4, <1>5 DEF IInv

LEMMA NothingMovedStep == IInv /\ NothingMoved => IInv'
<1> SUFFICES ASSUME IInv, NothingMoved PROVE IInv'
    OBVIOUS
<1>0. /\ job.pc = "store" /\ Moving = {}
      /\ job' = [job EXCEPT !.pc = AfterStore]
      /\ UNCHANGED <<message, core, cache, state, objects, manifest, runs, forgotten,
                     left, faults>>
      BY DEF NothingMoved, r2
<1>1. job' \in Jobs
      BY <1>0 DEF IInv, TypeOK, Jobs, Phases, AfterStore
<1>2. /\ job'.pc = AfterStore /\ job'.mode = job.mode /\ job'.prev = job.prev
      /\ job'.hash = job.hash /\ job'.rows = job.rows /\ job'.known = job.known
      /\ job'.put = job.put /\ job'.todo = job.todo /\ job'.ok = job.ok
      /\ job'.pulled = job.pulled
      BY <1>0 DEF IInv, TypeOK, Jobs
<1>3. TypeOK'
      BY <1>0, <1>1, <1>2 DEF IInv, TypeOK, Reconciling
<1>4. (HashesAreOld /\ JobReadsState /\ EntriesTrue /\ Fresh)'
      BY <1>0, <1>2 DEF IInv, HashesAreOld, JobReadsState, EntriesTrue, Fresh,
                        AfterStore, Reconciling
<1>5. StoredBeforeAck'
      <2>1. ASSUME NEW row \in Eligible
            PROVE  state.rows[row.series] # None /\ state.rows[row.series].at >= row.at
            <3>1. row \in Rows /\ row.series \in Series
                  BY <2>1, EligibleRows DEF IInv, Rows
            <3>2. ~Supersedes(row, row.series)
                  BY <1>0, <2>1, <3>1 DEF Moving, Mine
            <3>3. job.rows[row.series] # None
                  BY <3>2 DEF Supersedes
            <3>4. job.rows = state.rows
                  BY <1>0, <3>1, <3>3 DEF IInv, JobReadsState, Nothing
            <3>5. job.rows[row.series].at \in Nat /\ row.at \in Nat
                  BY <3>1, <3>3, SnapshotAssumption DEF IInv, TypeOK, Jobs, StateRows, Rows
            <3> QED BY <3>2, <3>3, <3>4, <3>5 DEF Supersedes
      <2>2. Eligible' = Eligible
            BY <1>2 DEF Eligible, Reconciling
      <2> QED BY <1>0, <2>1, <2>2 DEF StoredBeforeAck, Held
<1>6. (AckedAreRows /\ AckedIsKept /\ ManifestVouches /\ ObjectsRecorded)'
      BY <1>0 DEF IInv, AckedAreRows, AckedIsKept, ManifestVouches, ObjectsRecorded, Contents, Content
<1> QED BY <1>3, <1>4, <1>5, <1>6 DEF IInv

-----------------------------------------------------------------------------
(* Writing the state: what was acknowledged stays, or is listed as         *)
(* forgotten, and no manifest vouches for the new hash yet.                *)
LEMMA WriteStateKeeps ==
    ASSUME IInv, job.pc = "store", NEW rows \in Applied, WriteState(rows),
           UNCHANGED <<message, core, cache, objects, manifest, runs, left>>
    PROVE  /\ state' = [rows |-> rows, hash |-> runs]
           /\ rows \in StateRows /\ runs # 0
           /\ state' \in [rows : StateRows, hash : 0 .. MaxRuns]
           /\ forgotten' \in SUBSET Series
           /\ AckedIsKept' /\ ManifestVouches' /\ ObjectsRecorded'
           /\ \A m \in Messages : Held(m) =>
                 Held(m)' \/ Observation[m] \notin Rows
<1>1. /\ state' = [rows |-> rows, hash |-> runs] /\ rows \in StateRows
      /\ runs \in 0 .. MaxRuns /\ state.hash < runs /\ state.hash \in 0 .. MaxRuns
      /\ state.rows \in StateRows
      BY AppliedRows DEF WriteState, IInv, HashesAreOld, TypeOK
<1>2. runs # 0
      BY <1>1, SnapshotAssumption
<1>3. forgotten' \in SUBSET Series /\ forgotten \subseteq forgotten'
      BY DEF WriteState, IInv, TypeOK
<1>4. ASSUME NEW m \in Messages, Held(m), Observation[m] \in Rows
      PROVE  Held(m)'
      <2> DEFINE s == Observation[m].series
      <2>1. s \in Series /\ Observation[m].at \in Nat
            BY <1>4, SnapshotAssumption DEF Rows
      <2>2. SUFFICES ASSUME s \notin forgotten'
                     PROVE  rows[s] # None /\ rows[s].at >= Observation[m].at
            BY <1>1 DEF Held
      <2>3. state.rows[s] # None /\ state.rows[s].at >= Observation[m].at
            BY <1>3, <1>4, <2>2 DEF Held
      <2>4. CASE job.hash = state.hash /\ job.rows = state.rows
            <3>1. CASE s \in Moving
                  <4>1. PICK row \in Mine(s) : Supersedes(row, s)
                        BY <3>1 DEF Moving
                  <4>2. rows[s] \in Mine(s) /\ row.at <= rows[s].at
                        BY <3>1, <4>1, AppliedRows DEF IInv, Newest
                  <4>3. rows[s] \in Rows /\ row \in Rows
                        BY <4>1, <4>2, EligibleRows DEF IInv, Mine
                  <4>4. state.rows[s] \in Rows
                        BY <1>1, <2>1, <2>3 DEF StateRows
                  <4>5. state.rows[s].at <= row.at
                        BY <2>3, <2>4, <4>1, <4>3, <4>4, SnapshotAssumption
                        DEF Supersedes, Rows
                  <4>6. /\ rows[s].at \in Nat /\ row.at \in Nat
                        /\ state.rows[s].at \in Nat
                        BY <4>3, <4>4, SnapshotAssumption DEF Rows
                  <4> QED BY <2>1, <2>3, <4>2, <4>3, <4>5, <4>6, SnapshotAssumption
            <3>2. CASE s \notin Moving
                  BY <2>1, <2>3, <2>4, <3>2, AppliedRows DEF IInv
            <3> QED BY <3>1, <3>2
      <2>5. CASE job.hash = 0 /\ job.hash # state.hash
            <3>1. ~(rows[s] = None \/ rows[s].at < state.rows[s].at)
                  BY <2>1, <2>2, <2>3, <2>5 DEF WriteState
            <3>2. rows[s] \in Rows /\ state.rows[s] \in Rows
                  BY <1>1, <2>1, <2>3, <3>1 DEF StateRows
            <3>3. rows[s].at \in Nat /\ state.rows[s].at \in Nat
                  BY <3>2, SnapshotAssumption DEF Rows
            <3> QED BY <2>1, <2>3, <3>1, <3>3
      <2>6. CASE job.hash = 0 /\ job.hash = state.hash
            BY <1>1, <2>1, <2>3, <2>6 DEF IInv, HashesAreOld, Nothing
      <2> QED BY <2>4, <2>5, <2>6 DEF IInv, JobReadsState
<1>5. AckedIsKept'
      <2> SUFFICES ASSUME NEW m \in Messages, message[m] = "applied"
                   PROVE  Held(m)'
          BY DEF AckedIsKept, Held
      <2>1. Held(m)
            BY DEF IInv, AckedIsKept, Held
      <2>2. Observation[m] \in Rows
            BY DEF IInv, AckedAreRows
      <2> QED BY <1>4, <2>1, <2>2
<1>6. ManifestVouches'
      <2>1. manifest # None => manifest.state < runs /\ manifest.state \in 0 .. MaxRuns
            BY DEF IInv, HashesAreOld, TypeOK, Manifests
      <2> QED BY <1>1, <2>1, SnapshotAssumption DEF ManifestVouches
<1>7. ObjectsRecorded'
      BY DEF IInv, ObjectsRecorded
<1> QED BY <1>1, <1>2, <1>3, <1>4, <1>5, <1>6, <1>7

LEMMA StoreStateStep == IInv /\ StoreState => IInv'
<1> SUFFICES ASSUME IInv, StoreState PROVE IInv'
    OBVIOUS
<1>p. PICK rows \in Applied :
        /\ WriteState(rows)
        /\ job' = [job EXCEPT !.pc = AfterStore, !.rows = rows,
                              !.hash = runs, !.moved = TRUE]
      BY DEF StoreState
<1>0. /\ job.pc = "store"
      /\ UNCHANGED <<message, core, cache, objects, manifest, runs, left, faults>>
      BY DEF StoreState
<1>1. /\ state' = [rows |-> rows, hash |-> runs] /\ rows \in StateRows /\ runs # 0
      /\ state' \in [rows : StateRows, hash : 0 .. MaxRuns]
      /\ forgotten' \in SUBSET Series
      /\ AckedIsKept' /\ ManifestVouches' /\ ObjectsRecorded'
      BY <1>0, <1>p, WriteStateKeeps
<1>2. job' \in Jobs
      BY <1>p, <1>1 DEF IInv, TypeOK, Jobs, Phases, AfterStore
<1>3. /\ job'.pc = AfterStore /\ job'.mode = job.mode /\ job'.prev = job.prev
      /\ job'.hash = runs /\ job'.rows = rows /\ job'.known = job.known
      /\ job'.put = job.put /\ job'.todo = job.todo /\ job'.ok = job.ok
      /\ job'.pulled = job.pulled
      BY <1>p DEF IInv, TypeOK, Jobs
<1>4. TypeOK'
      BY <1>0, <1>1, <1>2, <1>3 DEF IInv, TypeOK, Reconciling
<1>5. (HashesAreOld /\ JobReadsState /\ EntriesTrue /\ Fresh /\ AckedAreRows)'
      BY <1>0, <1>1, <1>3, SnapshotAssumption
      DEF IInv, TypeOK, HashesAreOld, JobReadsState, EntriesTrue, Fresh, AfterStore,
          Reconciling, AckedAreRows
<1>6. StoredBeforeAck'
      <2>1. Eligible' = Eligible
            BY <1>3 DEF Eligible, Reconciling
      <2> QED BY <1>0, <1>1, <1>p, <2>1, AppliedHolds
              DEF IInv, StoredBeforeAck, Held
<1> QED BY <1>1, <1>4, <1>5, <1>6 DEF IInv

LEMMA StoreFailsStep == IInv /\ StoreFails => IInv'
<1> SUFFICES ASSUME IInv, StoreFails PROVE IInv'
    OBVIOUS
<1>0. /\ job.pc = "store" /\ Dies /\ Fault /\ faults < MaxFaults
      /\ UNCHANGED <<message, core, cache, objects, manifest, runs, left>>
      BY DEF StoreFails
<1>1. CASE UNCHANGED <<state, forgotten>>
      BY <1>0, <1>1, DiesStep
<1>2. CASE \E rows \in Applied : WriteState(rows)
      <2>p. PICK rows \in Applied : WriteState(rows)
            BY <1>2
      <2>1. /\ state' = [rows |-> rows, hash |-> runs] /\ runs # 0
            /\ state' \in [rows : StateRows, hash : 0 .. MaxRuns]
            /\ forgotten' \in SUBSET Series
            /\ AckedIsKept' /\ ManifestVouches' /\ ObjectsRecorded'
            BY <1>0, <2>p, WriteStateKeeps
      <2>2. TypeOK'
            BY <1>0, <2>1, IdleType, SnapshotAssumption
            DEF IInv, TypeOK, Dies, Fault, Idle, Reconciling
      <2>3. (HashesAreOld /\ JobReadsState /\ StoredBeforeAck /\ EntriesTrue
             /\ Fresh /\ AckedAreRows)'
            BY <1>0, <2>1, SnapshotAssumption
            DEF IInv, TypeOK, HashesAreOld, JobReadsState, StoredBeforeAck,
                EntriesTrue, Fresh, AckedAreRows, Dies, Idle
      <2> QED BY <2>1, <2>2, <2>3 DEF IInv
<1> QED BY <1>1, <1>2 DEF StoreFails

-----------------------------------------------------------------------------
(* Acknowledging what the state holds.                                     *)
LEMMA AcknowledgedKeeps ==
    ASSUME IInv, job.pc = "ack", NEW some \in SUBSET job.pulled,
           Acknowledged(some), UNCHANGED <<state, forgotten>>
    PROVE  /\ message' \in [Messages -> {"absent", "waiting", "applied", "dropped"}]
           /\ AckedIsKept' /\ AckedAreRows'
<1>1. /\ message' \in [Messages -> {"absent", "waiting", "applied", "dropped"}]
      /\ \A m \in Messages : message'[m] = "applied" =>
            \/ message[m] = "applied"
            \/ m \in job.pulled /\ Observation[m] \in Eligible
      BY DEF IInv, TypeOK, Acknowledged
<1>2. Eligible \subseteq Rows
      BY EligibleRows DEF IInv
<1> QED BY <1>1, <1>2 DEF IInv, AckedIsKept, AckedAreRows, StoredBeforeAck, Held

LEMMA AckStep == IInv /\ (Ack \/ AckFails) => IInv'
<1> SUFFICES ASSUME IInv, Ack \/ AckFails PROVE IInv'
    OBVIOUS
<1>0. /\ job.pc = "ack"
      /\ UNCHANGED <<core, cache, state, objects, manifest, runs, forgotten, left>>
      /\ faults' \in 0 .. MaxFaults
      BY SnapshotAssumption DEF Ack, AckFails, r2, Fault, IInv, TypeOK
<1>1. /\ message' \in [Messages -> {"absent", "waiting", "applied", "dropped"}]
      /\ AckedIsKept' /\ AckedAreRows'
      BY <1>0, AcknowledgedKeeps DEF Ack, AckFails
<1>2. \/ job' = Idle
      \/ job' = [job EXCEPT !.pc = "build"]
      BY DEF Ack, AckFails, Dies
<1>3. /\ job' \in Jobs
      /\ job'.pulled \subseteq IF Reconciling' THEN Candidates ELSE Decodable
      <2>1. CASE job' = Idle
            BY <2>1, IdleType DEF Idle, Reconciling
      <2>2. CASE job' = [job EXCEPT !.pc = "build"]
            <3>1. job' \in Jobs
                  BY <2>2 DEF IInv, TypeOK, Jobs, Phases
            <3>2. job'.pulled = job.pulled /\ job'.mode = job.mode
                  BY <2>2 DEF IInv, TypeOK, Jobs
            <3> QED BY <3>1, <3>2 DEF IInv, TypeOK, Reconciling
      <2> QED BY <1>2, <2>1, <2>2
<1>4. TypeOK'
      BY <1>0, <1>1, <1>3 DEF IInv, TypeOK
<1>5. \/ job'.pc = "idle"
      \/ /\ job'.pc = "build" /\ job'.mode = job.mode /\ job'.prev = job.prev
         /\ job'.hash = job.hash /\ job'.rows = job.rows
         /\ job'.put = job.put /\ job'.todo = job.todo /\ job'.ok = job.ok
      BY <1>2 DEF IInv, TypeOK, Jobs, Idle
<1>6. (HashesAreOld /\ JobReadsState /\ StoredBeforeAck /\ EntriesTrue /\ Fresh)'
      BY <1>0, <1>5 DEF IInv, HashesAreOld, JobReadsState, StoredBeforeAck,
                        EntriesTrue, Fresh, Reconciling
<1>7. (ManifestVouches /\ ObjectsRecorded)'
      BY <1>0 DEF IInv, ManifestVouches, ObjectsRecorded, Contents, Content
<1> QED BY <1>1, <1>4, <1>6, <1>7 DEF IInv

-----------------------------------------------------------------------------
(* Publishing.                                                             *)
LEMMA BuildStep == IInv /\ Build => IInv'
<1> SUFFICES ASSUME IInv, Build PROVE IInv'
    OBVIOUS
<1>0. /\ job.pc = "build" /\ job.put = {} /\ job.todo = {} /\ job.ok
      /\ UNCHANGED <<message, core, cache, state, objects, manifest, runs, forgotten,
                     left, faults>>
      BY DEF Build, r2, IInv, Fresh
<1>1. (AckedAreRows /\ AckedIsKept /\ ManifestVouches /\ ObjectsRecorded)'
      BY <1>0 DEF IInv, AckedAreRows, AckedIsKept, ManifestVouches, ObjectsRecorded,
                  Contents, Content
<1>2. CASE Reusable
      <2>1. job' = [job EXCEPT !.pc = "manifest", !.entries = job.prev.entries]
            BY <1>2 DEF Build
      <2>2. /\ job.prev # None /\ job.prev = manifest /\ job.prev.ok
            /\ manifest.state = job.hash /\ job.hash # 0 /\ job.prev.core = job.known
            /\ job.hash = state.hash /\ job.rows = state.rows
            BY <1>0, <1>2 DEF Reusable, IInv, JobReadsState
      <2>3. job.prev.entries \in Entries
            BY <2>2 DEF IInv, TypeOK, Manifests
      <2>4. job.prev.entries = Contents(job.rows, job.known)
            BY <2>2 DEF IInv, ManifestVouches
      <2>5. job' \in Jobs
            BY <2>1, <2>3 DEF IInv, TypeOK, Jobs, Phases
      <2>6. /\ job'.pc = "manifest" /\ job'.mode = job.mode /\ job'.prev = job.prev
            /\ job'.hash = job.hash /\ job'.rows = job.rows /\ job'.known = job.known
            /\ job'.put = job.put /\ job'.todo = job.todo /\ job'.ok = job.ok
            /\ job'.pulled = job.pulled /\ job'.entries = job.prev.entries
            BY <2>1 DEF IInv, TypeOK, Jobs
      <2>7. TypeOK'
            BY <1>0, <2>5, <2>6 DEF IInv, TypeOK, Reconciling
      <2>8. (HashesAreOld /\ JobReadsState /\ StoredBeforeAck /\ Fresh)'
            BY <1>0, <2>6 DEF IInv, HashesAreOld, JobReadsState, StoredBeforeAck, Fresh
      <2>9. EntriesTrue'
            <3>1. \A p \in Products : job.prev.entries[p] = Content(p, job.rows, job.known)
                  BY <2>4 DEF Contents
            <3>2. \A p \in Products \ left : job.prev.entries[p] \in {objects[p], None}
                  BY <2>2 DEF IInv, ObjectsRecorded
            <3> QED BY <1>0, <2>3, <2>6, <3>1, <3>2 DEF EntriesTrue, Content
      <2> QED BY <1>1, <2>7, <2>8, <2>9 DEF IInv
<1>3. CASE ~Reusable
      <2> DEFINE none == [p \in Products |-> None]
      <2>1. job' = [job EXCEPT !.pc = "publish", !.todo = Products, !.entries = none]
            BY <1>3 DEF Build
      <2>2. none \in Entries
            BY DEF Entries
      <2>3. job' \in Jobs
            BY <2>1, <2>2 DEF IInv, TypeOK, Jobs, Phases
      <2>4. /\ job'.pc = "publish" /\ job'.mode = job.mode /\ job'.prev = job.prev
            /\ job'.hash = job.hash /\ job'.rows = job.rows
            /\ job'.put = job.put /\ job'.todo = Products
            /\ job'.pulled = job.pulled /\ job'.entries = none
            BY <2>1 DEF IInv, TypeOK, Jobs
      <2>5. TypeOK'
            BY <1>0, <2>3, <2>4 DEF IInv, TypeOK, Reconciling
      <2>6. (HashesAreOld /\ JobReadsState /\ StoredBeforeAck /\ Fresh /\ EntriesTrue)'
            BY <1>0, <2>2, <2>4
            DEF IInv, HashesAreOld, JobReadsState, StoredBeforeAck, Fresh, EntriesTrue
      <2> QED BY <1>1, <2>5, <2>6 DEF IInv
<1> QED BY <1>2, <1>3

(* What is kept of a product was said of it by the manifest.               *)
LEMMA PreviousRecorded ==
    ASSUME IInv, job.pc # "idle", NEW p \in Products
    PROVE  /\ Previous(p) \in (SUBSET Rows) \cup {None}
           /\ p \notin left => Previous(p) \in {objects[p], None}
<1>1. job.prev = None \/ (job.prev = manifest /\ manifest # None)
      BY DEF IInv, JobReadsState
<1>2. manifest # None => manifest.entries \in Entries
      BY DEF IInv, TypeOK, Manifests
<1> QED BY <1>1, <1>2 DEF Previous, Entries, IInv, ObjectsRecorded

(* The entry of a product is gathered.                                     *)
LEMMA EntryStep ==
    ASSUME IInv, job.pc = "publish", NEW p \in job.todo,
           NEW entry \in (SUBSET Rows) \cup {None},
           NEW put \in {job.put, job.put \cup {p}}, NEW ok \in BOOLEAN,
           job' = [Entered(p, entry) EXCEPT !.put = put, !.ok = ok],
           ok => job.ok /\ entry = Content(p, job.rows, job.known),
           UNCHANGED <<message, core, cache, state, manifest, runs, forgotten>>,
           faults' \in 0 .. MaxFaults,
           objects' \in Entries, left' \in {left, left \cup {p}},
           \A q \in Products \ {p} : objects'[q] = objects[q],
           p \in left' \/ objects' = objects,
           p \in left' \ put \/ entry \in {objects'[p], None}
    PROVE  IInv'
<1>0. /\ job.entries \in Entries /\ p \in Products /\ job.put \cap job.todo = {}
      /\ job.todo \subseteq Products /\ job.put \subseteq Products
      BY DEF IInv, TypeOK, Jobs, EntriesTrue
<1>1. /\ Entered(p, entry) \in Jobs
      /\ Entered(p, entry).entries = [job.entries EXCEPT ![p] = entry]
      /\ Entered(p, entry).entries \in Entries
      BY <1>0, EnteredType DEF IInv
<1>2. put \in SUBSET Products
      BY <1>0
<1>3. job' \in Jobs
      BY <1>1, <1>2 DEF Jobs
<1>4. /\ job'.put = put /\ job'.ok = ok
      /\ job'.pc = Entered(p, entry).pc /\ job'.todo = Entered(p, entry).todo
      /\ job'.entries = Entered(p, entry).entries
      /\ job'.mode = Entered(p, entry).mode /\ job'.prev = Entered(p, entry).prev
      /\ job'.hash = Entered(p, entry).hash /\ job'.rows = Entered(p, entry).rows
      /\ job'.known = Entered(p, entry).known
      /\ job'.pulled = Entered(p, entry).pulled
      BY <1>1 DEF Jobs
<1>pc. PICK pc \in {"manifest", "publish"} :
         pc = IF job.todo = {p} THEN "manifest" ELSE "publish"
      OBVIOUS
<1>5. /\ Entered(p, entry).pc = pc
      /\ Entered(p, entry).todo = job.todo \ {p}
      /\ Entered(p, entry).mode = job.mode /\ Entered(p, entry).prev = job.prev
      /\ Entered(p, entry).hash = job.hash /\ Entered(p, entry).rows = job.rows
      /\ Entered(p, entry).known = job.known
      /\ Entered(p, entry).pulled = job.pulled
      BY <1>pc DEF Entered, IInv, TypeOK, Jobs
<1>6. TypeOK'
      BY <1>0, <1>3, <1>4, <1>5 DEF IInv, TypeOK, Reconciling
<1>7. (HashesAreOld /\ JobReadsState /\ StoredBeforeAck /\ Fresh)'
      BY <1>4, <1>5 DEF IInv, HashesAreOld, JobReadsState, StoredBeforeAck, Fresh
<1>8. EntriesTrue'
      <2>1. job'.pc = "manifest" => job'.todo = {}
            BY <1>4, <1>5, <1>pc
      <2>2. job'.put \cap job'.todo = {}
            BY <1>0, <1>4, <1>5
      <2>3. ASSUME NEW q \in Products \ job'.todo
            PROVE  /\ job'.ok => job'.entries[q] = Content(q, job'.rows, job'.known)
                   /\ q \notin left' \ job'.put => job'.entries[q] \in {objects'[q], None}
            <3>1. CASE q = p
                  <4>1. job'.entries[q] = entry
                        BY <1>0, <1>1, <1>4, <3>1 DEF Entries
                  <4> QED BY <1>4, <1>5, <3>1, <4>1
            <3>2. CASE q # p
                  <4>1. job'.entries[q] = job.entries[q] /\ objects'[q] = objects[q]
                        BY <1>0, <1>1, <1>4, <3>2 DEF Entries
                  <4>2. q \in Products \ job.todo
                        BY <1>4, <1>5, <2>3, <3>2
                  <4>3. q \in left' \ job'.put <=> q \in left \ job.put
                        BY <1>4, <3>2
                  <4> QED BY <1>4, <1>5, <4>1, <4>2, <4>3 DEF IInv, EntriesTrue
            <3> QED BY <3>1, <3>2
      <2> QED BY <1>1, <1>4, <2>1, <2>2, <2>3 DEF EntriesTrue
<1>9. (AckedAreRows /\ AckedIsKept /\ ManifestVouches)'
      BY DEF IInv, AckedAreRows, AckedIsKept, ManifestVouches, Contents, Content
<1>10. ObjectsRecorded'
      BY <1>0 DEF IInv, ObjectsRecorded
<1> QED BY <1>6, <1>7, <1>8, <1>9, <1>10 DEF IInv

LEMMA ProductStep ==
    ASSUME IInv, NEW p \in Products,
           SkipUnchanged(p) \/ PublishProduct(p) \/ ProductFails(p)
    PROVE  IInv'
<1> DEFINE content == Content(p, job.rows, job.known)
<1>0. /\ job.pc = "publish" /\ p \in job.todo
      /\ UNCHANGED <<message, core, cache, state, manifest, runs, forgotten>>
      /\ faults' \in 0 .. MaxFaults
      BY SnapshotAssumption
      DEF SkipUnchanged, PublishProduct, ProductFails, r2, Fault, IInv, TypeOK
<1>1. content \in SUBSET Rows
      BY ContentType DEF IInv, TypeOK, Jobs
<1>2. /\ Previous(p) \in (SUBSET Rows) \cup {None}
      /\ p \notin left => Previous(p) \in {objects[p], None}
      BY <1>0, PreviousRecorded
<1>3. p \notin job.put /\ job.ok \in BOOLEAN /\ objects \in Entries
      /\ job.entries \in Entries
      BY <1>0 DEF IInv, EntriesTrue, TypeOK, Jobs
<1>4. ASSUME PutObject(p)
      PROVE  /\ objects' \in Entries /\ left' = left \cup {p}
             /\ objects'[p] = content
             /\ \A q \in Products \ {p} : objects'[q] = objects[q]
      BY <1>1, <1>3, <1>4 DEF PutObject, Entries
<1>5. CASE SkipUnchanged(p)
      <2>1. /\ content = Previous(p) /\ UNCHANGED <<objects, left>>
            /\ job' = Entered(p, content)
            BY <1>5 DEF SkipUnchanged, Changed, r2
      <2>2. Entered(p, content) \in Jobs
            BY <1>0, <1>1, <1>3, EnteredType DEF IInv
      <2>3. Entered(p, content).put = job.put /\ Entered(p, content).ok = job.ok
            BY DEF Entered, IInv, TypeOK, Jobs
      <2>4. job' = [Entered(p, content) EXCEPT !.put = job.put, !.ok = job.ok]
            BY <2>1, <2>2, <2>3 DEF Jobs
      <2>5. p \in left \ job.put \/ content \in {objects[p], None}
            BY <1>2, <1>3, <2>1
      <2> QED BY <1>0, <1>1, <1>3, <2>1, <2>4, <2>5, EntryStep
<1>6. CASE PublishProduct(p)
      <2>1. PutObject(p) /\ job' = [Entered(p, content) EXCEPT !.put = @ \cup {p}]
            BY <1>6 DEF PublishProduct
      <2>2. Entered(p, content) \in Jobs
            BY <1>0, <1>1, <1>3, EnteredType DEF IInv
      <2>3. Entered(p, content).put = job.put /\ Entered(p, content).ok = job.ok
            BY DEF Entered, IInv, TypeOK, Jobs
      <2>4. job' = [Entered(p, content) EXCEPT !.put = job.put \cup {p}, !.ok = job.ok]
            BY <2>1, <2>2, <2>3 DEF Jobs
      <2> QED BY <1>0, <1>1, <1>3, <1>4, <2>1, <2>4, EntryStep
<1>7. CASE ProductFails(p)
      <2>1. /\ PutObject(p) \/ UNCHANGED <<objects, left>>
            /\ job' = [Entered(p, Previous(p)) EXCEPT !.ok = FALSE]
            BY <1>7 DEF ProductFails
      <2>2. Entered(p, Previous(p)) \in Jobs
            BY <1>0, <1>2, <1>3, EnteredType DEF IInv
      <2>3. Entered(p, Previous(p)).put = job.put
            BY DEF Entered, IInv, TypeOK, Jobs
      <2>4. job' = [Entered(p, Previous(p)) EXCEPT !.put = job.put, !.ok = FALSE]
            BY <2>1, <2>2, <2>3 DEF Jobs
      <2>5. CASE PutObject(p)
            BY <1>0, <1>2, <1>3, <1>4, <2>4, <2>5, EntryStep
      <2>6. CASE UNCHANGED <<objects, left>>
            BY <1>0, <1>2, <1>3, <2>4, <2>6, EntryStep
      <2> QED BY <2>1, <2>5, <2>6
<1> QED BY <1>5, <1>6, <1>7

(* The manifest is written, whether or not the job learns of it.           *)
LEMMA ManifestStep == IInv /\ (WriteManifest \/ ManifestFails) => IInv'
<1> SUFFICES ASSUME IInv, WriteManifest \/ ManifestFails PROVE IInv'
    OBVIOUS
<1>0. /\ job.pc = "manifest" /\ job' = Idle
      /\ \/ PutManifest
         \/ Fault /\ faults < MaxFaults /\ UNCHANGED <<manifest, left>>
      /\ faults' \in 0 .. MaxFaults
      /\ UNCHANGED <<message, core, cache, state, objects, runs, forgotten>>
      BY SnapshotAssumption DEF WriteManifest, ManifestFails, Dies, Fault, IInv, TypeOK
<1>1. CASE Fault /\ faults < MaxFaults /\ UNCHANGED <<manifest, left>>
      BY <1>0, <1>1, DiesStep DEF Dies
<1>2. CASE PutManifest
      <2>1. /\ manifest' = [ok |-> job.ok, state |-> job.hash, core |-> job.known,
                            entries |-> job.entries]
            /\ left' = left \ job.put
            BY <1>2 DEF PutManifest
      <2>2. /\ job.entries \in Entries /\ job.todo = {}
            /\ \A p \in Products :
                  /\ job.ok => job.entries[p] = Content(p, job.rows, job.known)
                  /\ p \notin left \ job.put => job.entries[p] \in {objects[p], None}
            BY <1>0 DEF IInv, EntriesTrue
      <2>3. /\ job.ok \in BOOLEAN /\ job.hash \in 0 .. MaxRuns
            /\ job.known \in SUBSET Series
            BY DEF IInv, TypeOK, Jobs
      <2>4. manifest' \in Manifests
            BY <2>1, <2>2, <2>3 DEF Manifests
      <2>5. TypeOK'
            BY <1>0, <2>1, <2>4, IdleType DEF IInv, TypeOK, Idle, Reconciling
      <2>6. HashesAreOld'
            <3>1. job.hash <= runs
                  BY <1>0, SnapshotAssumption DEF IInv, JobReadsState, HashesAreOld, TypeOK
            <3> QED BY <1>0, <2>1, <3>1 DEF IInv, HashesAreOld, Idle
      <2>7. (JobReadsState /\ StoredBeforeAck /\ EntriesTrue /\ Fresh)'
            BY <1>0 DEF JobReadsState, StoredBeforeAck, EntriesTrue, Fresh, Idle
      <2>8. (AckedAreRows /\ AckedIsKept)'
            BY <1>0 DEF IInv, AckedAreRows, AckedIsKept
      <2>9. ManifestVouches'
            <3> SUFFICES ASSUME job.ok, job.hash = state.hash, state.hash # 0
                         PROVE  job.entries = Contents(state.rows, job.known)
                BY <1>0, <2>1 DEF ManifestVouches, Contents, Content
            <3>1. job.rows = state.rows
                  BY <1>0 DEF IInv, JobReadsState
            <3> QED BY <2>2, <3>1 DEF Entries, Contents
      <2>10. ObjectsRecorded'
            BY <1>0, <2>1, <2>2 DEF ObjectsRecorded
      <2> QED BY <2>5, <2>6, <2>7, <2>8, <2>9, <2>10 DEF IInv
<1> QED BY <1>0, <1>1, <1>2

-----------------------------------------------------------------------------
(* Every step keeps the invariant.                                         *)
LEMMA EveryStep == IInv /\ [Next]_vars => IInv'
<1> SUFFICES ASSUME IInv, [Next]_vars PROVE IInv'
    OBVIOUS
<1>1. CASE \/ \E m \in Messages : Ingest(m) \/ Redeliver(m)
           \/ CoreSnapshot
      BY <1>1, OutsideStep
<1>2. CASE Scheduled \/ Manual
      BY <1>2, StartStep DEF Scheduled, Manual
<1>3. CASE Reconcile
      BY <1>3, StartStep DEF Reconcile
<1>4. CASE Pull
      BY <1>4, PullStep
<1>5. CASE PullFails \/ Killed
      BY <1>5, DiesStep DEF PullFails, Killed, r2
<1>6. CASE NothingMoved \/ StoreState \/ StoreFails
      BY <1>6, NothingMovedStep, StoreStateStep, StoreFailsStep
<1>7. CASE Ack \/ AckFails
      BY <1>7, AckStep
<1>8. CASE Build
      BY <1>8, BuildStep
<1>9. CASE \E p \in Products : SkipUnchanged(p) \/ PublishProduct(p) \/ ProductFails(p)
      BY <1>9, ProductStep
<1>10. CASE WriteManifest \/ ManifestFails
      BY <1>10, ManifestStep
<1>11. CASE UNCHANGED vars
      <2>1. UNCHANGED <<message, core, cache, state, objects, manifest, job, runs,
                        forgotten, left, faults>>
            BY <1>11 DEF vars, r2
      <2>2. TypeOK'
            BY <2>1 DEF IInv, TypeOK, Reconciling
      <2>3. (HashesAreOld /\ JobReadsState /\ EntriesTrue /\ Fresh)'
            BY <2>1 DEF IInv, HashesAreOld, JobReadsState, EntriesTrue, Fresh,
                        Reconciling, Content
      <2>4. (StoredBeforeAck /\ AckedAreRows /\ AckedIsKept)'
            BY <2>1 DEF IInv, StoredBeforeAck, AckedAreRows, AckedIsKept, Held,
                        Eligible, Reconciling
      <2>5. (ManifestVouches /\ ObjectsRecorded)'
            BY <2>1 DEF IInv, ManifestVouches, ObjectsRecorded, Contents, Content
      <2> QED BY <2>2, <2>3, <2>4, <2>5 DEF IInv
<1> QED BY <1>1, <1>2, <1>3, <1>4, <1>5, <1>6, <1>7, <1>8, <1>9, <1>10, <1>11 DEF Next

(* What the job holds, what is stored and what is recorded stay in step    *)
(* through every order of calls, failures and kills of run_job.ts.         *)
THEOREM SnapshotInvariant == Spec => []IInv
<1>1. Init => IInv
      BY Start
<1>2. IInv /\ [Next]_vars => IInv'
      BY EveryStep
<1> QED BY <1>1, <1>2, PTL DEF Spec

(* Every variable of the builder keeps its type.                           *)
THEOREM SnapshotTypeCorrect == Spec => []TypeOK
<1>1. IInv => TypeOK
      BY DEF IInv
<1> QED BY <1>1, SnapshotInvariant, PTL

(* An acknowledged observation is in the durable state unless a job forgot *)
(* its series: ackPubsubMessages follows the PUT of the state.             *)
THEOREM AcknowledgedObservationsAreKept == Spec => []AckedIsKept
<1>1. IInv => AckedIsKept
      BY DEF IInv
<1> QED BY <1>1, SnapshotInvariant, PTL

(* The manifest a scheduled job may reuse shows what is in the state.      *)
THEOREM CompleteManifestsVouch == Spec => []ManifestVouches
<1>1. IInv => ManifestVouches
      BY DEF IInv
<1> QED BY <1>1, SnapshotInvariant, PTL

(* Objects no interrupted put left behind are what their entries say.      *)
THEOREM ObjectsAreRecorded == Spec => []ObjectsRecorded
<1>1. IInv => ObjectsRecorded
      BY DEF IInv
<1> QED BY <1>1, SnapshotInvariant, PTL
=============================================================================
