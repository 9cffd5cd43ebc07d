-------------------------- MODULE MaintenanceProofs --------------------------
(***************************************************************************)
(* Proofs that the advisory lock lets one process at a time do its work,   *)
(* and what follows from that for rows, objects and the bundle, for any    *)
(* number of processes and keys, any batch size and any bound on failures. *)
(***************************************************************************)
EXTENDS Maintenance, FiniteSetTheorems, TLAPS

\* Whoever is at work and has not lost its lease holds the lock.
LeaseInv ==
  /\ proc = [p \in Procs |-> proc[p]]
  /\ \A p \in Procs : AtWork(p) /\ p \notin lapsed => lock = p

\* A step of a process that is at work and leaves lock and lapses alone.
LEMMA Stays ==
  ASSUME LeaseInv, NEW p \in Procs, NEW s, AtWork(p), Become(p, s), LeaseUnchanged
  PROVE  LeaseInv'
BY DEF LeaseInv, AtWork, Become, LeaseUnchanged

\* Leaving ends the work and the lease at once, whatever the process was doing.
LEMMA Leaves ==
  ASSUME LeaseInv, NEW p \in Procs, Leave(p)
  PROVE  LeaseInv'
BY Zenon DEF LeaseInv, AtWork, Become, Leave, Unlock, Idle

\* A step that touches neither processes nor lock nor lapses.
LEMMA Rests ==
  ASSUME LeaseInv, UNCHANGED <<proc, lock, lapsed>>
  PROVE  LeaseInv'
BY DEF LeaseInv, AtWork

\* The lock and the work of a process change together: entering, losing the session
\* and passing the shutdown deadline.
LEMMA LeaseSteps ==
  ASSUME LeaseInv, NEW p \in Procs
  PROVE  /\ OpenStore(p) => LeaseInv'
         /\ \A role : Acquire(p, role) => LeaseInv'
         /\ Refused(p) => LeaseInv'
         /\ LoseSession(p) => LeaseInv'
         /\ Deadline(p) => LeaseInv'
<1>1. OpenStore(p) => LeaseInv'
  BY DEF OpenStore, Goto, Become, history, LeaseInv, AtWork
<1>2. ASSUME NEW role, Acquire(p, role)
      PROVE  LeaseInv'
  <2>1. \A q \in Procs : AtWork(q) => q \in lapsed
    BY <1>2, MaintenanceAssumption DEF Acquire, LeaseInv
  <2>2. lock' = p /\ lapsed' = lapsed
    BY <1>2 DEF Acquire, Enter, history
  <2>3. /\ proc' = [q \in Procs |-> proc'[q]]
        /\ \A q \in Procs \ {p} : proc'[q] = proc[q]
    BY <1>2 DEF Acquire, Enter, Become, LeaseInv
  <2>4. \A q \in Procs : AtWork(q)' /\ q \notin lapsed' => lock' = q
    BY <2>1, <2>2, <2>3 DEF AtWork
  <2> QED
    BY <2>3, <2>4 DEF LeaseInv
<1>3. ASSUME Refused(p)
      PROVE  LeaseInv'
  <2>1. Idle.at = "idle"
    BY DEF Idle
  <2>2. proc' = [proc EXCEPT ![p] = Idle] /\ lock' = lock /\ lapsed' = lapsed
    BY <1>3 DEF Refused, Become
  <2> QED
    BY <2>1, <2>2 DEF LeaseInv, AtWork
<1>4. LoseSession(p) => LeaseInv'
  BY DEF LoseSession, LeaseInv, AtWork
<1>5. Deadline(p) => LeaseInv'
  BY DEF Deadline, Become, LeaseInv, AtWork
<1> QED
  BY <1>1, <1>2, <1>3, <1>4, <1>5

\* What serve and cleanup do with the lease in hand.
LEMMA ServeSteps ==
  ASSUME LeaseInv, NEW p \in Procs
  PROVE  /\ Work(p) => LeaseInv'
         /\ ListTasks(p) \/ Hang(p) => LeaseInv'
         /\ Crash(p) \/ CleanupEnds(p) \/ StopComplete(p) \/ Exit(p) => LeaseInv'
<1> USE DEF ServeOnly, Goto
<1>1. ASSUME NEW k \in Keys, PutObject(p, k) \/ RecheckTask(p, k)
      PROVE  LeaseInv'
  BY <1>1, Stays DEF PutObject, RecheckTask, AtWork
<1>2. ASSUME NEW k \in Keys, DeleteRow(p, k)
      PROVE  LeaseInv'
  BY <1>2, Rests DEF DeleteRow, LeaseUnchanged
<1>3. CommitRow(p) \/ RemoveTask(p) => LeaseInv'
  BY Stays DEF CommitRow, RemoveTask, Running, AtWork
<1>4. Stop(p) \/ Hang(p) => LeaseInv'
  BY Stays DEF Stop, Hang, AtWork
<1>5. ListTasks(p) => LeaseInv'
  BY Stays DEF ListTasks, AtWork
<1>6. Crash(p) \/ CleanupEnds(p) \/ StopComplete(p) \/ Exit(p) => LeaseInv'
  BY Leaves DEF Crash, CleanupEnds, StopComplete, Exit
<1> QED
  BY <1>1, <1>2, <1>3, <1>4, <1>5, <1>6 DEF Work

\* Reconciliation, backup and restore.
LEMMA CommandSteps ==
  ASSUME LeaseInv, NEW p \in Procs
  PROVE  /\ FetchRows(p) \/ VerifyRow(p) \/ ScanFiles(p) \/ QueryKeys(p) \/ HandleOrphan(p) => LeaseInv'
         /\ Dump(p) \/ WriteArchive(p) \/ WriteManifest(p) \/ Publish(p) => LeaseInv'
         /\ VerifyBundle(p) \/ Install(p) \/ RestoreDatabase(p) => LeaseInv'
         /\ \A k \in Keys : Extract(p, k) => LeaseInv'
         /\ ScanEnds(p) \/ DestinationTaken(p) \/ BackupEnds(p) \/ BackupFails(p) \/ PublishFails(p) => LeaseInv'
         /\ RestoreRefused(p) \/ RestoreFails(p) \/ DatabaseFails(p) => LeaseInv'
<1> USE DEF ScanOnly, BackupOnly, RestoreOnly, Goto
<1>1. FetchRows(p) \/ VerifyRow(p) \/ ScanFiles(p) => LeaseInv'
  BY Stays DEF FetchRows, VerifyRow, ScanFiles, AtWork
<1>2. QueryKeys(p) \/ HandleOrphan(p) => LeaseInv'
  BY Stays DEF QueryKeys, HandleOrphan, AtWork
<1>3. Dump(p) \/ WriteArchive(p) \/ WriteManifest(p) \/ Publish(p) => LeaseInv'
  BY Stays DEF Dump, WriteArchive, WriteManifest, Publish, AtWork
<1>4. VerifyBundle(p) \/ Install(p) \/ RestoreDatabase(p) => LeaseInv'
  BY Stays DEF VerifyBundle, Install, RestoreDatabase, AtWork
<1>5. ASSUME NEW k \in Keys, Extract(p, k)
      PROVE  LeaseInv'
  BY <1>5, Stays DEF Extract, AtWork
<1>6. ScanEnds(p) \/ DestinationTaken(p) \/ BackupEnds(p) \/ BackupFails(p) \/ PublishFails(p) => LeaseInv'
  BY Leaves DEF ScanEnds, DestinationTaken, BackupEnds, BackupFails, PublishFails
<1>7. RestoreRefused(p) \/ RestoreFails(p) \/ DatabaseFails(p) => LeaseInv'
  BY Leaves DEF RestoreRefused, RestoreFails, DatabaseFails
<1> QED
  BY <1>1, <1>2, <1>3, <1>4, <1>5, <1>6, <1>7

\* No step of any process breaks it.
LEMMA LeaseStep == LeaseInv /\ [Next]_vars => LeaseInv'
<1> SUFFICES ASSUME LeaseInv, [Next]_vars
             PROVE  LeaseInv'
  OBVIOUS
<1>1. CASE UNCHANGED vars
  BY <1>1, Rests DEF vars, history
<1>2. CASE Migrate \/ Wipe \/ Damage
  BY <1>2, Rests DEF Migrate, Wipe, Damage, history
<1>3. ASSUME NEW p \in Procs, Work(p) \/ Hang(p) \/ Crash(p)
      PROVE  LeaseInv'
  BY <1>3, ServeSteps
<1>4. ASSUME NEW p \in Procs, Proceed(p)
      PROVE  LeaseInv'
  BY <1>4, LeaseSteps, ServeSteps, CommandSteps DEF Proceed
<1>5. ASSUME NEW p \in Procs,
             LoseSession(p) \/ OpenStore(p) \/ (\E role \in Roles : Acquire(p, role))
      PROVE  LeaseInv'
  BY <1>5, LeaseSteps
<1>6. ASSUME NEW p \in Procs, PublishFails(p)
      PROVE  LeaseInv'
  BY <1>6, CommandSteps
<1> QED
  BY <1>1, <1>2, <1>3, <1>4, <1>5, <1>6 DEF Next

\* Two processes are at work together only if one of them has lost its session or
\* has outlived its shutdown deadline (AcquireServiceLease, TryAcquireMaintenanceLease
\* and Release), however serve, cleanup, reconcile, backup and restore are combined.
THEOREM LeaseHolds == Spec => []LeaseExcludes
<1>1. Init => LeaseInv
  BY DEF Init, LeaseInv, AtWork, Idle
<1>2. LeaseInv => LeaseExcludes
  BY DEF LeaseInv, LeaseExcludes
<1> QED
  BY <1>1, <1>2, LeaseStep, PTL DEF Spec

-----------------------------------------------------------------------------
(* Pages of keys.                                                          *)

LEMMA Least ==
  ASSUME NEW T, T \subseteq Nat, T # {}
  PROVE  \E m \in T : \A n \in T : m <= n
<1> DEFINE R == {p \in Nat \X Nat : p[1] < p[2]}
<1>1. IsWellFoundedOn(R, Nat)
  BY NatLessThanWellFounded DEF OpToRel
<1> HIDE DEF R
<1>2. PICK m \in T : \A n \in T : <<n, m>> \notin R
  BY <1>1, WFMin, Zenon
<1>3. \A n \in T : ~(n < m)
  BY <1>2, Zenon DEF R
<1> QED
  BY <1>3

\* The page of a set is everything above the mark, unless it is full.
LEMMA ShortPage ==
  ASSUME NEW s \in SUBSET Keys, NEW after \in Nat, Cardinality(Page(s, after)) < Batch
  PROVE  \A k \in s : k > after => k \in Page(s, after)
<1> DEFINE P == Page(s, after)
           T == {k \in s : k > after} \ P
<1>1. s \subseteq Nat /\ IsFiniteSet(s) /\ Batch \in Nat
  BY MaintenanceAssumption, FS_Subset, Zenon
<1>2. P \subseteq s /\ IsFiniteSet(P) /\ Cardinality(P) \in Nat
  BY <1>1, FS_Subset, FS_CardinalityType, Zenon DEF Page
<1>3. SUFFICES ASSUME T # {} PROVE FALSE
  OBVIOUS
<1>4. PICK m \in T : \A n \in T : m <= n
  BY <1>1, <1>3, Least, Zenon
<1>5. {j \in s : j > after /\ j <= m} \subseteq P \union {m}
  <2>1. ASSUME NEW j \in s, j > after, j <= m, j \notin P
        PROVE  j = m
    <3>1. j \in Nat /\ m \in Nat /\ j \in T
      BY <1>1, <2>1
    <3> QED
      BY <1>4, <2>1, <3>1
  <2> QED
    BY <2>1
<1>6. m \notin P /\ IsFiniteSet(P \union {m}) /\ Cardinality(P \union {m}) = Cardinality(P) + 1
  BY <1>2, FS_AddElement
<1>7. Cardinality({j \in s : j > after /\ j <= m}) <= Cardinality(P) + 1
  BY <1>5, <1>6, FS_Subset
<1>8. Cardinality({j \in s : j > after /\ j <= m}) \in Nat
  BY <1>5, <1>6, FS_Subset, FS_CardinalityType
<1>9. Cardinality({j \in s : j > after /\ j <= m}) <= Batch
  BY <1>1, <1>2, <1>7, <1>8
<1>10. m \in P
  BY <1>9 DEF Page
<1> QED
  BY <1>6, <1>10

\* A page has no gaps, and an empty one means that nothing is left.
LEMMA PageFacts ==
  ASSUME NEW s \in SUBSET Keys, NEW after \in Nat
  PROVE  /\ Page(s, after) \subseteq s /\ IsFiniteSet(Page(s, after))
         /\ \A k \in Page(s, after) : k > after
         /\ \A k \in Page(s, after), j \in s : j > after /\ j <= k => j \in Page(s, after)
         /\ Page(s, after) = {} => \A k \in s : ~(k > after)
<1>1. s \subseteq Nat /\ IsFiniteSet(s) /\ Batch \in Nat /\ 0 < Batch
  <2>1. Keys \subseteq Nat /\ IsFiniteSet(Keys) /\ Batch \in Nat /\ Batch # 0
    BY MaintenanceAssumption
  <2>2. IsFiniteSet(s)
    BY <2>1, FS_Subset, Zenon
  <2>3. 0 < Batch
    BY <2>1
  <2> QED
    BY <2>1, <2>2, <2>3
<1>2. Page(s, after) \subseteq s /\ \A k \in Page(s, after) : k > after
  BY DEF Page
<1>3. ASSUME NEW k \in Page(s, after), NEW j \in s, j > after, j <= k
      PROVE  j \in Page(s, after)
  <2> DEFINE A == {i \in s : i > after /\ i <= j}
             B == {i \in s : i > after /\ i <= k}
  <2>1. A \subseteq B /\ B \subseteq s
    <3>1. k \in Nat /\ j \in Nat
      BY <1>1, <1>2, Zenon
    <3>2. ASSUME NEW i \in s, i <= j
          PROVE  i <= k
      <4>1. i \in Nat
        BY <1>1
      <4> QED
        BY <1>3, <3>1, <3>2, <4>1
    <3> QED
      BY <3>2
  <2>2. IsFiniteSet(B) /\ IsFiniteSet(A) /\ Cardinality(A) <= Cardinality(B)
    BY <1>1, <2>1, FS_Subset
  <2>3. Cardinality(A) \in Nat /\ Cardinality(B) \in Nat
    BY <2>2, FS_CardinalityType
  <2>4. Cardinality(B) <= Batch
    BY <1>2 DEF Page
  <2>5. Cardinality(A) <= Batch
    BY <1>1, <2>2, <2>3, <2>4
  <2> QED
    BY <1>3, <2>5 DEF Page
<1>4. Page(s, after) = {} => \A k \in s : ~(k > after)
  BY <1>1, ShortPage, FS_EmptySet
<1> QED
  BY <1>1, <1>2, <1>3, <1>4, FS_Subset

LEMMA MinOfPage ==
  ASSUME NEW T \in SUBSET Keys, T # {}
  PROVE  Min(T) \in T /\ \A k \in T : Min(T) <= k
<1>1. T \subseteq Nat
  BY MaintenanceAssumption
<1> QED
  BY <1>1, Least, Zenon DEF Min

LEMMA MaxOfPage ==
  ASSUME NEW T \in SUBSET Keys, T # {}
  PROVE  Max(T) \in T /\ \A k \in T : k <= Max(T)
<1> DEFINE Up(k) == {j \in T : j > k}
           D == {Cardinality(Up(k)) : k \in T}
<1>1. T \subseteq Nat /\ IsFiniteSet(T)
  BY MaintenanceAssumption, FS_Subset, Zenon
<1>2. \A k \in T : IsFiniteSet(Up(k)) /\ Cardinality(Up(k)) \in Nat
  BY <1>1, FS_Subset, FS_CardinalityType
<1>3. PICK d \in D : \A e \in D : d <= e
  <2>1. D \subseteq Nat /\ D # {}
    BY <1>2, Zenon
  <2> QED
    BY <2>1, Least, Zenon
<1>4. PICK m \in T : d = Cardinality(Up(m))
  OBVIOUS
<1>5. ASSUME NEW n \in T, ~(n <= m)
      PROVE  FALSE
  <2>1. Up(n) \subseteq Up(m) /\ n \in Up(m) /\ n \notin Up(n)
    <3>1. n \in Nat /\ m \in Nat /\ m < n
      BY <1>1, <1>5
    <3>2. ASSUME NEW i \in T, i > n
          PROVE  i > m
      <4>1. i \in Nat
        BY <1>1
      <4> QED
        BY <3>1, <3>2, <4>1
    <3>3. n > m /\ ~(n > n)
      BY <3>1
    <3> QED
      BY <3>2, <3>3
  <2>2. Cardinality(Up(n)) <= Cardinality(Up(m)) /\ Cardinality(Up(n)) # Cardinality(Up(m))
    BY <1>2, <2>1, FS_Subset, Zenon
  <2>3. Cardinality(Up(m)) <= Cardinality(Up(n))
    BY <1>3, <1>4, Zenon
  <2> QED
    BY <1>2, <2>2, <2>3
<1> QED
  BY <1>5 DEF Max

-----------------------------------------------------------------------------
(* What a process at work knows about the stores.                          *)

BundleRecord ==
  [rows: SUBSET Keys, queued: SUBSET Keys, keys: SUBSET Keys, manifest: BOOLEAN, intact: BOOLEAN]
Stages ==
  {"idle", "start", "serving", "stopping", "late", "cleaning", "sweeping",
   "rows", "files", "flush", "orphans", "scanned",
   "archive", "manifest", "publish", "published", "verify", "extract", "database"}
ProcRecord ==
  [role: Roles \union {"none"}, at: Stages, after: Nat, page: SUBSET Keys, last: BOOLEAN,
   unresolved: BOOLEAN, put: Keys \union {0}, sweep: Keys \union {0}, hung: BOOLEAN,
   part: BundleRecord, direct: BOOLEAN]

StoreTypes ==
  /\ rows \subseteq Keys /\ queued \subseteq Keys
  /\ files \in [Keys -> {"none", "good", "bad"}]
  /\ bundle \in BundleRecord

\* A delivery has its object, and a removal has seen that there is no row.
Serves(s) == s.at \in {"serving", "stopping", "late"}
ServiceKnows(s, rs, fs) ==
  /\ s.put # 0 => Serves(s) /\ fs[s.put] # "none"
  /\ s.sweep # 0 => s.at \in {"serving", "stopping", "late", "sweeping"} /\ s.sweep \notin rs
  /\ s.put = 0 \/ s.sweep = 0

\* The rows up to the mark are verified; the page follows the mark without a gap, and
\* the last page is all that is left.
RowScanKnows(s, rs, fs) ==
  s.at = "rows" =>
    /\ \A k \in rs : k <= s.after => fs[k] = "good" \/ s.unresolved
    /\ s.page \subseteq rs
    /\ \A k \in s.page : k > s.after
    /\ \A k \in s.page, j \in rs : j > s.after /\ j <= k => j \in s.page
    /\ s.page # {} /\ s.last => \A j \in rs : j > s.after => j \in s.page

\* All rows are verified; the objects up to the mark have rows, are counted or are
\* on the page still to be handled.
FileScanKnows(s, rs, fs) ==
  /\ s.at \in {"files", "flush", "orphans", "scanned"} =>
       \A k \in rs : fs[k] = "good" \/ s.unresolved
  /\ s.at = "files" =>
       \A k \in Keys : fs[k] # "none" /\ k <= s.after => k \in rs \/ s.unresolved
  /\ s.at \in {"flush", "orphans"} =>
       \A k \in Keys : fs[k] # "none" /\ k <= s.after => k \in rs \/ s.unresolved \/ k \in s.page
  /\ s.at = "orphans" => s.page \intersect rs = {}
  /\ s.at = "scanned" => \A k \in Keys : fs[k] # "none" => k \in rs \/ s.unresolved

\* The dump has the rows, and the archive has their objects.
BackupKnows(s, rs, fs) ==
  /\ s.at = "archive" => s.part.rows = rs /\ \A k \in rs : fs[k] = "good"
  /\ s.at \in {"manifest", "publish"} => s.part.rows \subseteq s.part.keys

\* There are no rows until the objects of the bundle are in place.
RestoreKnows(s, rs, fs, b) ==
  /\ s.at \in {"extract", "database"} => rs = {}
  /\ s.at \in {"verify", "extract", "database"} => s.after = 0
  /\ s.at = "extract" /\ s.direct => \A k \in s.part.keys : fs[k] # "none"
  /\ s.at = "database" => \A k \in b.keys : fs[k] # "none"

Knows(s, rs, fs, b) ==
  /\ ServiceKnows(s, rs, fs) /\ RowScanKnows(s, rs, fs) /\ FileScanKnows(s, rs, fs)
  /\ BackupKnows(s, rs, fs) /\ RestoreKnows(s, rs, fs, b)

Backed(rs, fs, d) == \A k \in rs : fs[k] # "none" \/ k \in d

\* The inductive invariant: what holds always, and what holds while every process
\* that worked had the lock.
MaintenanceInv ==
  /\ StoreTypes /\ proc \in [Procs -> ProcRecord]
  /\ ~schema => rows = {}
  /\ \A p \in Procs : Serves(proc[p]) => schema
  /\ bundle # NoBundle => bundle.manifest
  /\ \A p \in Procs : proc[p].at = "publish" => proc[p].part.manifest
  /\ ~breached =>
       /\ lapsed = {}
       /\ Backed(rows, files, damaged)
       /\ bundle.rows \subseteq bundle.keys
       /\ \A p \in Procs : Knows(proc[p], rows, files, bundle)

LEMMA IdleFacts ==
  /\ NoBundle \in BundleRecord
  /\ Idle \in ProcRecord
  /\ \A rs, fs, b : Knows(Idle, rs, fs, b)
<1>1. NoBundle \in BundleRecord
  BY DEF NoBundle, BundleRecord
<1>2. Idle \in ProcRecord
  BY <1>1 DEF Idle, ProcRecord, Stages
<1>3. /\ Idle.at = "idle" /\ Idle.put = 0 /\ Idle.sweep = 0
  BY DEF Idle
<1> QED
  BY <1>1, <1>2, <1>3
  DEF Knows, ServiceKnows, Serves, RowScanKnows, FileScanKnows, BackupKnows, RestoreKnows

\* A process that is not at work relies on nothing.
LEMMA Quiet ==
  ASSUME NEW s, NEW rs, NEW fs, NEW b, NEW rs2, NEW fs2, NEW b2,
         Knows(s, rs, fs, b), s.at \in {"idle", "start"}
  PROVE  Knows(s, rs2, fs2, b2)
BY DEF Knows, ServiceKnows, Serves, RowScanKnows, FileScanKnows, BackupKnows, RestoreKnows

\* A step of a process that changes none of the stores.
LEMMA Moved ==
  ASSUME MaintenanceInv, NEW p \in Procs, NEW s \in ProcRecord, Become(p, s),
         UNCHANGED <<database, files, bundle, damaged, breached>>, lapsed' \subseteq lapsed,
         s.at = "publish" => s.part.manifest, Serves(s) => schema,
         ~breached => Knows(s, rows, files, bundle)
  PROVE  MaintenanceInv'
<1>1. proc' \in [Procs -> ProcRecord] /\ proc' = [proc EXCEPT ![p] = s]
  BY DEF MaintenanceInv, Become
<1>2. /\ rows' = rows /\ queued' = queued /\ schema' = schema
      /\ files' = files /\ bundle' = bundle /\ damaged' = damaged /\ breached' = breached
  BY DEF database
<1>3. StoreTypes'
  BY <1>2 DEF MaintenanceInv, StoreTypes
<1>4. \A q \in Procs : /\ proc'[q].at = "publish" => proc'[q].part.manifest
                       /\ Serves(proc'[q]) => schema'
  BY <1>1, <1>2 DEF MaintenanceInv
<1>5. ASSUME ~breached
      PROVE  \A q \in Procs : Knows(proc'[q], rows', files', bundle')
  BY <1>1, <1>2, <1>5 DEF MaintenanceInv
<1> QED
  BY <1>1, <1>2, <1>3, <1>4, <1>5 DEF MaintenanceInv

\* While no lease is breached a process at work is the only one, so that a step of it
\* has to answer for itself and for the stores and for nobody else.
LEMMA Worked ==
  ASSUME MaintenanceInv, LeaseInv, NEW p \in Procs, AtWork(p), NEW s \in ProcRecord,
         Become(p, s), UNCHANGED breached, lapsed' \subseteq lapsed, schema => schema',
         StoreTypes', ~schema' => rows' = {},
         bundle' # NoBundle => bundle'.manifest,
         s.at = "publish" => s.part.manifest, Serves(s) => schema',
         ~breached => /\ Backed(rows', files', damaged')
                      /\ bundle'.rows \subseteq bundle'.keys
                      /\ Knows(s, rows', files', bundle')
  PROVE  MaintenanceInv'
<1>1. proc' \in [Procs -> ProcRecord] /\ proc' = [proc EXCEPT ![p] = s]
  BY DEF MaintenanceInv, Become
<1>2. \A q \in Procs : /\ proc'[q].at = "publish" => proc'[q].part.manifest
                       /\ Serves(proc'[q]) => schema'
  BY <1>1 DEF MaintenanceInv
<1>3. ASSUME ~breached, NEW q \in Procs
      PROVE  Knows(proc'[q], rows', files', bundle')
  <2>1. CASE q = p
    BY <1>1, <1>3, <2>1
  <2>2. CASE q # p
    <3>1. proc'[q] = proc[q] /\ Knows(proc[q], rows, files, bundle) /\ lapsed = {}
      BY <1>1, <1>3, <2>2 DEF MaintenanceInv
    <3>2. proc[q].at \in {"idle", "start"}
      BY <2>2, <3>1 DEF LeaseInv, AtWork
    <3> QED
      BY <3>1, <3>2, Quiet
  <2> QED
    BY <2>1, <2>2
<1> QED
  BY <1>1, <1>2, <1>3 DEF MaintenanceInv

\* Ending is always safe for what the process leaves behind.
LEMMA Gone ==
  ASSUME MaintenanceInv, NEW p \in Procs, Leave(p), StoresUnchanged
  PROVE  MaintenanceInv'
<1>1. Become(p, Idle) /\ lapsed' \subseteq lapsed /\ breached' = breached
  BY DEF Leave, Unlock
<1>2. Idle.at # "publish" /\ ~Serves(Idle)
  BY DEF Idle, Serves
<1> QED
  BY <1>1, <1>2, IdleFacts, Moved DEF StoresUnchanged, store

LEMMA Endings ==
  ASSUME MaintenanceInv, NEW p \in Procs
  PROVE  /\ Crash(p) \/ CleanupEnds(p) \/ StopComplete(p) \/ Exit(p) => MaintenanceInv'
         /\ ScanEnds(p) \/ DestinationTaken(p) \/ BackupEnds(p) \/ BackupFails(p) => MaintenanceInv'
         /\ RestoreRefused(p) \/ DatabaseFails(p) => MaintenanceInv'
<1>1. Crash(p) \/ CleanupEnds(p) \/ StopComplete(p) \/ Exit(p) => Leave(p) /\ StoresUnchanged
  BY DEF Crash, CleanupEnds, StopComplete, Exit
<1>2. ScanEnds(p) \/ DestinationTaken(p) \/ BackupEnds(p) \/ BackupFails(p) => Leave(p) /\ StoresUnchanged
  BY DEF ScanEnds, DestinationTaken, BackupEnds, BackupFails
<1>3. RestoreRefused(p) \/ DatabaseFails(p) => Leave(p) /\ StoresUnchanged
  BY DEF RestoreRefused, DatabaseFails
<1> QED
  BY <1>1, <1>2, <1>3, Gone

\* A command begins with nothing read and nothing under way.
LEMMA Beginnings ==
  ASSUME MaintenanceInv, NEW p \in Procs
  PROVE  /\ OpenStore(p) => MaintenanceInv'
         /\ \A role \in Roles : Acquire(p, role) => MaintenanceInv'
         /\ Refused(p) => MaintenanceInv'
<1>1. ASSUME OpenStore(p)
      PROVE  MaintenanceInv'
  <2> DEFINE r == proc[p]
             s == [r EXCEPT !.at = "start"]
  <2>1. r \in ProcRecord /\ r.at = "idle"
    BY <1>1 DEF MaintenanceInv, OpenStore
  <2>2. s \in ProcRecord /\ s.at = "start" /\ s.put = r.put /\ s.sweep = r.sweep
    BY <2>1 DEF ProcRecord, Stages
  <2>3. ~breached => Knows(r, rows, files, bundle)
    BY DEF MaintenanceInv
  <2>4. ~breached => Knows(s, rows, files, bundle)
    <3> HIDE DEF r, s
    <3> QED
      BY <2>1, <2>2, <2>3
      DEF Knows, ServiceKnows, Serves, RowScanKnows, FileScanKnows, BackupKnows, RestoreKnows
  <2>5. Become(p, s)
    BY <1>1 DEF OpenStore, Goto
  <2>6. UNCHANGED <<database, files, bundle, damaged, breached>> /\ lapsed' \subseteq lapsed
    BY <1>1 DEF OpenStore, history
  <2> HIDE DEF s
  <2> QED
    BY <2>2, <2>4, <2>5, <2>6, Moved DEF Serves
<1>2. ASSUME NEW role \in Roles, Acquire(p, role)
      PROVE  MaintenanceInv'
  <2> DEFINE s == [Idle EXCEPT !.role = role, !.at = FirstStep(role)]
  <2>1. FirstStep(role) \in {"serving", "cleaning", "verify", "rows"}
    BY DEF FirstStep, Roles
  <2>2. s \in ProcRecord
    BY <2>1, IdleFacts, Zenon DEF ProcRecord, Stages
  <2>3. /\ s.at = FirstStep(role) /\ s.put = 0 /\ s.sweep = 0 /\ s.after = 0 /\ s.page = {}
    BY DEF Idle
  <2> HIDE DEF s
  <2>4. ~breached => Knows(s, rows, files, bundle)
    <3>1. ASSUME NEW k \in rows
          PROVE  ~(k <= 0)
      <4>1. rows \subseteq Keys
        BY DEF MaintenanceInv, StoreTypes
      <4>2. k \in Nat /\ k # 0
        BY <4>1, MaintenanceAssumption
      <4> QED
        BY <4>2
    <3> QED
      BY <2>1, <2>3, <3>1
      DEF Knows, ServiceKnows, Serves, RowScanKnows, FileScanKnows, BackupKnows, RestoreKnows
  <2>5. Become(p, s)
    BY <1>2 DEF Acquire, Enter, s
  <2>6. UNCHANGED <<database, files, bundle, damaged, breached>> /\ lapsed' \subseteq lapsed
    BY <1>2 DEF Acquire, Enter, history
  <2>7. Serves(s) => schema
    BY <1>2, <2>3 DEF Acquire, Enter, FirstStep, Serves
  <2> QED
    BY <2>1, <2>2, <2>3, <2>4, <2>5, <2>6, <2>7, Moved, Zenon
<1>3. ASSUME Refused(p)
      PROVE  MaintenanceInv'
  <2>1. Become(p, Idle) /\ lapsed' \subseteq lapsed /\ breached' = breached
    BY <1>3 DEF Refused
  <2>2. Idle.at # "publish" /\ ~Serves(Idle)
    BY DEF Idle, Serves
  <2> QED
    BY <1>3, <2>1, <2>2, IdleFacts, Moved DEF Refused, StoresUnchanged, store
<1> QED
  BY <1>1, <1>2, <1>3

\* Losing the session or the deadline gives up what the lease protected.
LEMMA Breaches ==
  ASSUME MaintenanceInv, NEW p \in Procs
  PROVE  LoseSession(p) \/ Deadline(p) => MaintenanceInv'
<1>1. ASSUME LoseSession(p)
      PROVE  MaintenanceInv'
  BY <1>1 DEF LoseSession, MaintenanceInv, StoreTypes, database, store
<1>2. ASSUME Deadline(p)
      PROVE  MaintenanceInv'
  <2> DEFINE s == [proc[p] EXCEPT !.at = "late", !.hung = FALSE]
  <2>1. proc[p] \in ProcRecord
    BY DEF MaintenanceInv
  <2>2. s \in ProcRecord /\ s.at = "late"
    BY <2>1, Zenon DEF ProcRecord, Stages
  <2>3. proc' = [proc EXCEPT ![p] = s] /\ breached' = TRUE
    BY <1>2 DEF Deadline, Become
  <2> HIDE DEF s
  <2>4. /\ proc' \in [Procs -> ProcRecord]
        /\ \A q \in Procs : /\ proc'[q].at = "publish" => proc'[q].part.manifest
                            /\ Serves(proc'[q]) => schema
    BY <1>2, <2>2, <2>3 DEF MaintenanceInv, Deadline, Serves
  <2> QED
    BY <1>2, <2>3, <2>4 DEF Deadline, StoresUnchanged, database, store, MaintenanceInv, StoreTypes
<1> QED
  BY <1>1, <1>2

\* The surroundings change the stores only when nobody is at work.
LEMMA Surroundings ==
  ASSUME MaintenanceInv
  PROVE  Migrate \/ Wipe \/ Damage => MaintenanceInv'
<1>1. ASSUME Migrate
      PROVE  MaintenanceInv'
  BY <1>1 DEF Migrate, store, history, MaintenanceInv, StoreTypes
<1>2. ASSUME AtRest, UNCHANGED proc
      PROVE  ~breached => \A p \in Procs : Knows(proc'[p], rows', files', bundle')
  <2>1. \A p \in Procs : proc'[p] = proc[p] /\ proc[p].at \in {"idle", "start"}
    BY <1>2 DEF AtRest
  <2>2. ~breached => \A p \in Procs : Knows(proc[p], rows, files, bundle)
    BY DEF MaintenanceInv
  <2> QED
    BY <2>1, <2>2, Quiet
<1>3. ASSUME Wipe
      PROVE  MaintenanceInv'
  <2>1. /\ rows' = {} /\ queued' = {} /\ files' = [k \in Keys |-> "none"]
        /\ UNCHANGED <<proc, bundle, breached, lapsed>> /\ AtRest
    BY <1>3 DEF Wipe
  <2>4. \A p \in Procs : ~Serves(proc[p])
    BY <2>1 DEF AtRest, Serves
  <2>2. StoreTypes'
    BY <2>1 DEF MaintenanceInv, StoreTypes
  <2>3. Backed(rows', files', damaged')
    BY <2>1 DEF Backed
  <2> QED
    BY <1>2, <2>1, <2>2, <2>3, <2>4 DEF MaintenanceInv
<1>4. ASSUME Damage
      PROVE  MaintenanceInv'
  <2>1. UNCHANGED <<schema, rows, queued, proc, breached, lapsed>> /\ AtRest
    BY <1>4 DEF Damage, database
  <2>2. CASE \E k \in Stored, to \in {"none", "bad"} :
               /\ files' = [files EXCEPT ![k] = to]
               /\ damaged' = damaged \union {k}
               /\ UNCHANGED bundle
    <3>1. StoreTypes'
      BY <2>1, <2>2, Zenon DEF MaintenanceInv, StoreTypes
    <3>2. ~breached => Backed(rows', files', damaged')
      BY <2>1, <2>2 DEF MaintenanceInv, StoreTypes, Backed, Stored
    <3> QED
      BY <1>2, <2>1, <2>2, <3>1, <3>2, Zenon DEF MaintenanceInv
  <2>3. CASE /\ bundle # NoBundle /\ bundle' = [bundle EXCEPT !.intact = FALSE]
             /\ UNCHANGED <<files, damaged>>
    <3>1. /\ bundle' \in BundleRecord /\ bundle'.manifest = bundle.manifest
          /\ bundle'.rows = bundle.rows /\ bundle'.keys = bundle.keys
      BY <2>3, Zenon DEF MaintenanceInv, StoreTypes, BundleRecord
    <3>2. StoreTypes'
      BY <2>1, <2>3, <3>1 DEF MaintenanceInv, StoreTypes
    <3> QED
      BY <1>2, <2>1, <2>3, <3>1, <3>2, Zenon DEF MaintenanceInv
  <2> QED
    BY <1>4, <2>2, <2>3 DEF Damage
<1> QED
  BY <1>1, <1>3, <1>4

\* What a process has to know depends on what it is doing.
LEMMA InService ==
  ASSUME NEW s, NEW rs, NEW fs, NEW b, ServiceKnows(s, rs, fs),
         s.at \in {"serving", "stopping", "late", "cleaning", "sweeping"}
  PROVE  Knows(s, rs, fs, b)
BY DEF Knows, RowScanKnows, FileScanKnows, BackupKnows, RestoreKnows

LEMMA InScan ==
  ASSUME NEW s, NEW rs, NEW fs, NEW b, s.put = 0, s.sweep = 0,
         RowScanKnows(s, rs, fs), FileScanKnows(s, rs, fs),
         s.at \in {"rows", "files", "flush", "orphans", "scanned"}
  PROVE  Knows(s, rs, fs, b)
BY DEF Knows, ServiceKnows, BackupKnows, RestoreKnows

LEMMA InBackup ==
  ASSUME NEW s, NEW rs, NEW fs, NEW b, s.put = 0, s.sweep = 0, BackupKnows(s, rs, fs),
         s.at \in {"archive", "manifest", "publish", "published"}
  PROVE  Knows(s, rs, fs, b)
BY DEF Knows, ServiceKnows, RowScanKnows, FileScanKnows, RestoreKnows

LEMMA InRestore ==
  ASSUME NEW s, NEW rs, NEW fs, NEW b, s.put = 0, s.sweep = 0, RestoreKnows(s, rs, fs, b),
         s.at \in {"verify", "extract", "database"}
  PROVE  Knows(s, rs, fs, b)
BY DEF Knows, ServiceKnows, RowScanKnows, FileScanKnows, BackupKnows

\* Only a service has a delivery or a removal under way.
LEMMA NotInService ==
  ASSUME NEW s, NEW rs, NEW fs, NEW b, Knows(s, rs, fs, b),
         s.at \notin {"serving", "stopping", "late", "sweeping"}
  PROVE  s.put = 0 /\ s.sweep = 0
BY DEF Knows, ServiceKnows, Serves

\* serve and cleanup: deliveries, deletions and the removal of objects.
LEMMA Serving ==
  ASSUME MaintenanceInv, LeaseInv, NEW p \in Procs
  PROVE  /\ \A k \in Keys : PutObject(p, k) \/ DeleteRow(p, k) \/ RecheckTask(p, k) => MaintenanceInv'
         /\ CommitRow(p) \/ RemoveTask(p) => MaintenanceInv'
         /\ ListTasks(p) \/ Stop(p) \/ Hang(p) => MaintenanceInv'
<1> DEFINE r == proc[p]
<1>1. r \in ProcRecord /\ (~breached => ServiceKnows(r, rows, files) /\ Backed(rows, files, damaged))
  BY DEF MaintenanceInv, Knows
<1>2. StoreTypes /\ (~schema => rows = {}) /\ (bundle # NoBundle => bundle.manifest)
      /\ (Serves(r) => schema) /\ (~breached => bundle.rows \subseteq bundle.keys)
  BY DEF MaintenanceInv
<1>3. 0 \notin Keys
  BY MaintenanceAssumption
<1>4. ASSUME NEW k \in Keys, PutObject(p, k)
      PROVE  MaintenanceInv'
  <2> DEFINE s == [r EXCEPT !.put = k]
  <2>1. /\ r.at = "serving" /\ r.sweep = 0 /\ Become(p, s) /\ AtWork(p)
        /\ files' = [files EXCEPT ![k] = "good"]
        /\ UNCHANGED <<schema, rows, queued, bundle, damaged, breached, lapsed>>
    BY <1>4 DEF PutObject, ServeOnly, LeaseUnchanged, AtWork
  <2>2. s \in ProcRecord /\ s.at = "serving" /\ s.sweep = 0 /\ s.put = k
    BY <1>1, <2>1 DEF ProcRecord
  <2> HIDE DEF s
  <2>3. StoreTypes' /\ files'[k] = "good"
    BY <1>2, <2>1 DEF StoreTypes
  <2>4. ~breached => Backed(rows', files', damaged')
    BY <1>1, <1>2, <2>1 DEF Backed, StoreTypes
  <2>5. ServiceKnows(s, rows', files')
    BY <2>2, <2>3 DEF ServiceKnows, Serves
  <2> QED
    BY <1>2, <2>1, <2>2, <2>3, <2>4, <2>5, InService, Worked, Zenon DEF Serves
<1>5. ASSUME NEW k \in Keys, DeleteRow(p, k)
      PROVE  MaintenanceInv'
  <2>1. /\ r.at \in {"serving", "cleaning"} /\ Become(p, r) /\ AtWork(p) /\ k \in rows
        /\ rows' = rows \ {k} /\ queued' = queued \union {k}
        /\ UNCHANGED <<schema, files, bundle, damaged, breached, lapsed>>
    BY <1>5 DEF DeleteRow, ServeOnly, LeaseUnchanged, AtWork, Become, LeaseInv
  <2> HIDE DEF r
  <2>2. StoreTypes' /\ schema
    BY <1>2, <2>1 DEF StoreTypes
  <2>3. ~breached => Backed(rows', files', damaged')
    BY <1>1, <2>1 DEF Backed
  <2>4. ~breached => ServiceKnows(r, rows', files')
    BY <1>1, <2>1 DEF ServiceKnows
  <2> QED
    BY <1>1, <1>2, <2>1, <2>2, <2>3, <2>4, InService, Worked DEF Serves
<1>6. ASSUME NEW k \in Keys, RecheckTask(p, k)
      PROVE  MaintenanceInv'
  <2> DEFINE s == [r EXCEPT !.sweep = IF k \in rows THEN 0 ELSE k, !.page = @ \ {k}]
  <2>1. /\ r.at \in {"serving", "sweeping"} /\ r.put = 0 /\ Become(p, s) /\ AtWork(p)
        /\ queued' \subseteq queued
        /\ UNCHANGED <<schema, rows, files, bundle, damaged, breached, lapsed>>
    BY <1>6 DEF RecheckTask, ServeOnly, LeaseUnchanged, AtWork
  <2>2. /\ s \in ProcRecord /\ s.at = r.at /\ s.put = 0
        /\ s.sweep # 0 => s.sweep \notin rows
    BY <1>1, <2>1, Zenon DEF ProcRecord
  <2> HIDE DEF s
  <2>3. StoreTypes'
    BY <1>2, <2>1 DEF StoreTypes
  <2>4. ServiceKnows(s, rows', files')
    BY <2>1, <2>2 DEF ServiceKnows, Serves
  <2> QED
    BY <1>1, <1>2, <2>1, <2>2, <2>3, <2>4, InService, Worked, Zenon DEF Serves
<1>7. ASSUME CommitRow(p)
      PROVE  MaintenanceInv'
  <2> DEFINE s == [r EXCEPT !.put = 0]
  <2>1. /\ r.at \in {"serving", "stopping", "late"} /\ r.put # 0 /\ Become(p, s) /\ AtWork(p)
        /\ rows' \in {rows, rows \union {r.put}}
        /\ UNCHANGED <<schema, queued, files, bundle, damaged, breached, lapsed>>
    BY <1>7 DEF CommitRow, Running, ServeOnly, LeaseUnchanged, AtWork
  <2>2. s \in ProcRecord /\ s.at = r.at /\ s.put = 0 /\ s.sweep = r.sweep /\ r.put \in Keys
    BY <1>1, <2>1 DEF ProcRecord
  <2> HIDE DEF s, r
  <2>3. StoreTypes'
    BY <1>2, <2>1, <2>2 DEF StoreTypes
  <2>4. ~breached => Backed(rows', files', damaged') /\ ServiceKnows(s, rows', files')
    BY <1>1, <2>1, <2>2 DEF ServiceKnows, Serves, Backed
  <2>5. schema
    BY <2>1 DEF MaintenanceInv, Serves, r
  <2> QED
    BY <1>1, <1>2, <2>1, <2>2, <2>3, <2>4, <2>5, InService, Worked, Zenon DEF Serves

<1>8. ASSUME RemoveTask(p)
      PROVE  MaintenanceInv'
  <2> DEFINE s == [r EXCEPT !.sweep = 0]
  <2>1. /\ r.at \in {"serving", "stopping", "late", "sweeping"} /\ r.sweep # 0
        /\ Become(p, s) /\ AtWork(p)
        /\ files' = [files EXCEPT ![r.sweep] = "none"] /\ queued' \subseteq queued
        /\ UNCHANGED <<schema, rows, bundle, damaged, breached, lapsed>>
    BY <1>8 DEF RemoveTask, Running, ServeOnly, LeaseUnchanged, AtWork
  <2>2. s \in ProcRecord /\ s.at = r.at /\ s.put = r.put /\ s.sweep = 0 /\ r.sweep \in Keys
    BY <1>1, <2>1 DEF ProcRecord
  <2> HIDE DEF s, r
  <2>3. StoreTypes'
    BY <1>2, <2>1, <2>2 DEF StoreTypes
  <2>4. ~breached => Backed(rows', files', damaged') /\ ServiceKnows(s, rows', files')
    BY <1>1, <1>2, <2>1, <2>2 DEF ServiceKnows, Serves, Backed, StoreTypes
  <2> QED
    BY <1>1, <1>2, <2>1, <2>2, <2>3, <2>4, InService, Worked, Zenon DEF Serves
<1>9. ASSUME ListTasks(p)
      PROVE  MaintenanceInv'
  <2>1. PICK page \in SUBSET queued : Become(p, [r EXCEPT !.at = "sweeping", !.page = page])
    BY <1>9, Zenon DEF ListTasks
  <2> DEFINE s == [r EXCEPT !.at = "sweeping", !.page = page]
  <2>2. r.at = "cleaning" /\ UNCHANGED <<schema, rows, queued, files, bundle, damaged, breached, lapsed>>
    BY <1>9 DEF ListTasks, ServeOnly, LeaseUnchanged
  <2>3. page \in SUBSET Keys
    BY <1>2 DEF StoreTypes
  <2>4. s \in ProcRecord /\ s.at = "sweeping" /\ s.put = r.put /\ s.sweep = r.sweep
    BY <1>1, <2>3, Zenon DEF ProcRecord, Stages
  <2> HIDE DEF s, r
  <2>5. ~breached => ServiceKnows(s, rows, files)
    BY <1>1, <2>2, <2>4 DEF ServiceKnows, Serves
  <2> QED
    BY <2>1, <2>2, <2>4, <2>5, InService, Moved, Zenon DEF s, database, Serves
<1>10. ASSUME Stop(p) \/ Hang(p)
       PROVE  MaintenanceInv'
  <2> DEFINE s == IF Stop(p) THEN [r EXCEPT !.at = "stopping"] ELSE [r EXCEPT !.hung = TRUE]
  <2>1. /\ r.at \in {"serving", "stopping"} /\ Become(p, s) /\ StoresUnchanged /\ LeaseUnchanged
        /\ ~Stop(p) => r.at = "stopping"
    BY <1>10 DEF Stop, Hang, Goto
  <2>2. s \in ProcRecord /\ s.at = "stopping" /\ s.put = r.put /\ s.sweep = r.sweep
    BY <1>1, <2>1, Zenon DEF ProcRecord, Stages
  <2> HIDE DEF s, r
  <2>3. ~breached => ServiceKnows(s, rows, files)
    BY <1>1, <2>1, <2>2 DEF ServiceKnows, Serves
  <2>4. Serves(s) => schema
    BY <1>2, <2>1 DEF Serves
  <2> QED
    BY <2>1, <2>2, <2>3, <2>4, InService, Moved DEF StoresUnchanged, LeaseUnchanged, store
<1> QED
  BY <1>4, <1>5, <1>6, <1>7, <1>8, <1>9, <1>10

\* Verifying the rows, page by page.
LEMMA RowScan ==
  ASSUME MaintenanceInv, NEW p \in Procs
  PROVE  FetchRows(p) \/ VerifyRow(p) => MaintenanceInv'
<1> DEFINE r == proc[p]
<1>1. r \in ProcRecord /\ (~breached => Knows(r, rows, files, bundle)) /\ StoreTypes
  BY DEF MaintenanceInv
<1>2. r.after \in Nat /\ r.page \in SUBSET Keys /\ r.at \in Stages /\ rows \in SUBSET Keys
  BY <1>1 DEF ProcRecord, StoreTypes
<1>3. Keys \subseteq Nat /\ 0 \notin Keys
  BY MaintenanceAssumption
<1>4. ASSUME FetchRows(p)
      PROVE  MaintenanceInv'
  <2> DEFINE page == Page(rows, r.after)
             u == AfterRows(r)
             short == Cardinality(page) < Batch
             v == [r EXCEPT !.page = page, !.last = short]
  <2>1. /\ r.at = "rows" /\ r.page = {} /\ Become(p, IF page = {} THEN u ELSE v)
        /\ UNCHANGED <<database, files, bundle, damaged, breached, lapsed>>
    BY <1>4 DEF FetchRows, ScanOnly, LeaseUnchanged, database
  <2>2. ~breached => r.put = 0 /\ r.sweep = 0 /\ RowScanKnows(r, rows, files)
    BY <1>1, <2>1, NotInService DEF Knows
  <2>3. /\ page \subseteq rows /\ \A k \in page : k > r.after
        /\ \A k \in page, j \in rows : j > r.after /\ j <= k => j \in page
        /\ page = {} => \A k \in rows : ~(k > r.after)
        /\ short => \A k \in rows : k > r.after => k \in page
        /\ short \in BOOLEAN
    BY <1>2, PageFacts, ShortPage
  <2> HIDE DEF page, short
  <2>4. /\ u \in ProcRecord /\ u.at = "files" /\ u.after = 0
        /\ u.put = r.put /\ u.sweep = r.sweep /\ u.unresolved = r.unresolved
    BY <1>1, Zenon DEF AfterRows, ProcRecord, Stages
  <2>5. /\ v \in ProcRecord /\ v.at = "rows" /\ v.after = r.after
        /\ v.page = page /\ v.last = short
        /\ v.put = r.put /\ v.sweep = r.sweep /\ v.unresolved = r.unresolved
    BY <1>1, <1>2, <2>1, <2>3, Zenon DEF ProcRecord
  <2> HIDE DEF u, v, r
  <2>6. CASE page = {}
    <3>1. ASSUME NEW k \in rows
          PROVE  k <= r.after
      <4>1. k \in Nat /\ ~(k > r.after)
        BY <1>2, <1>3, <2>3, <2>6
      <4> QED
        BY <1>2, <4>1
    <3>2. \A k \in Keys : ~(k <= 0)
      BY <1>3
    <3>3. ~breached => RowScanKnows(u, rows, files) /\ FileScanKnows(u, rows, files)
      BY <2>1, <2>2, <2>4, <3>1, <3>2 DEF RowScanKnows, FileScanKnows
    <3>4. ~breached => Knows(u, rows, files, bundle)
      BY <2>2, <2>4, <3>3, InScan
    <3> QED
      BY <2>1, <2>4, <2>6, <3>4, Moved DEF Serves
  <2>7. CASE page # {}
    <3>1. ~breached => RowScanKnows(v, rows, files) /\ FileScanKnows(v, rows, files)
      BY <2>1, <2>2, <2>3, <2>5 DEF RowScanKnows, FileScanKnows
    <3>2. ~breached => Knows(v, rows, files, bundle)
      BY <2>2, <2>5, <3>1, InScan
    <3> QED
      BY <2>1, <2>5, <2>7, <3>2, Moved DEF Serves
  <2> QED
    BY <2>6, <2>7
<1>5. ASSUME VerifyRow(p)
      PROVE  MaintenanceInv'
  <2> DEFINE k == Min(r.page)
             t == [r EXCEPT !.page = @ \ {k}, !.after = k,
                            !.unresolved = @ \/ files[k] # "good"]
             u == AfterRows(t)
  <2>1. /\ r.at = "rows" /\ r.page # {} /\ Become(p, IF t.page = {} /\ r.last THEN u ELSE t)
        /\ UNCHANGED <<database, files, bundle, damaged, breached, lapsed>>
    BY <1>5 DEF VerifyRow, ScanOnly, LeaseUnchanged, database
  <2>2. ~breached => r.put = 0 /\ r.sweep = 0 /\ RowScanKnows(r, rows, files)
    BY <1>1, <2>1, NotInService DEF Knows
  <2>3. k \in r.page /\ \A j \in r.page : k <= j
    BY <1>2, <2>1, MinOfPage
  <2>4. k \in Keys /\ k \in Nat
    BY <1>2, <1>3, <2>3, Zenon
  <2> HIDE DEF k
  <2>5. /\ t \in ProcRecord /\ t.at = "rows" /\ t.after = k /\ t.page = r.page \ {k}
        /\ t.unresolved = (r.unresolved \/ files[k] # "good")
        /\ t.put = r.put /\ t.sweep = r.sweep /\ t.last = r.last
    BY <1>1, <1>2, <2>1, <2>4, Zenon DEF ProcRecord
  <2> HIDE DEF t
  <2>6. /\ u \in ProcRecord /\ u.at = "files" /\ u.after = 0
        /\ u.put = r.put /\ u.sweep = r.sweep /\ u.unresolved = t.unresolved
    BY <2>5, Zenon DEF AfterRows, ProcRecord, Stages
  <2> HIDE DEF u, r
  <2>7. ASSUME ~breached, NEW j \in rows, j <= k
        PROVE  files[j] = "good" \/ t.unresolved
    <3>1. j \in Nat
      BY <1>2, <1>3, Zenon
    <3>2. j <= r.after \/ j > r.after
      BY <1>2, <3>1
    <3>3. CASE j <= r.after
      BY <2>1, <2>2, <2>5, <2>7, <3>3, Zenon DEF RowScanKnows
    <3>4. CASE j > r.after
      <4>1. j \in r.page
        BY <2>1, <2>2, <2>3, <2>7, <3>4 DEF RowScanKnows
      <4>2. j = k
        BY <2>3, <2>4, <2>7, <3>1, <4>1
      <4> QED
        BY <2>5, <4>2, Zenon
    <3> QED
      BY <3>2, <3>3, <3>4
  <2>8. CASE t.page = {} /\ r.last
    <3>1. ASSUME ~breached, NEW j \in rows
          PROVE  j <= k
      <4>1. j \in Nat
        BY <1>2, <1>3, Zenon
      <4>2. CASE j > r.after
        BY <2>1, <2>2, <2>4, <2>5, <2>8, <3>1, <4>1, <4>2 DEF RowScanKnows
      <4>3. CASE ~(j > r.after)
        <5>1. ~breached => k > r.after
          BY <2>1, <2>2, <2>3 DEF RowScanKnows
        <5> QED
          BY <1>2, <2>4, <3>1, <4>1, <4>3, <5>1
      <4> QED
        BY <4>2, <4>3
    <3>2. \A j \in Keys : ~(j <= 0)
      BY <1>3
    <3>3. ~breached => RowScanKnows(u, rows, files) /\ FileScanKnows(u, rows, files)
      BY <2>6, <2>7, <3>1, <3>2 DEF RowScanKnows, FileScanKnows
    <3>4. ~breached => Knows(u, rows, files, bundle)
      BY <2>2, <2>6, <3>3, InScan
    <3> QED
      BY <2>1, <2>6, <2>8, <3>4, Moved DEF Serves
  <2>9. CASE ~(t.page = {} /\ r.last)
    <3>1. ASSUME ~breached
          PROVE  RowScanKnows(t, rows, files)
      <4>1. RowScanKnows(r, rows, files)
        BY <2>2, <3>1
      <4>2. \A i \in t.page : i > k
        <5>1. ASSUME NEW i \in t.page
              PROVE  i > k
          <6>1. i \in Nat /\ i \in r.page /\ i # k
            BY <1>2, <1>3, <2>5, Zenon
          <6> QED
            BY <2>3, <2>4, <6>1
        <5> QED
          BY <5>1
      <4>3. ASSUME NEW j \in rows, j > k
            PROVE  j > r.after
        <5>1. j \in Nat
          BY <1>2, <1>3, Zenon
        <5>2. k > r.after
          BY <2>1, <2>3, <4>1 DEF RowScanKnows
        <5> QED
          BY <1>2, <2>4, <4>3, <5>1, <5>2
      <4>4. \A i \in t.page, j \in rows : j > k /\ j <= i => j \in t.page
        <5>1. \A j \in rows : j > k => j # k
          BY <2>4
        <5> QED
          BY <2>1, <2>5, <4>1, <4>3, <5>1 DEF RowScanKnows
      <4>5. t.page # {} /\ t.last => \A j \in rows : j > k => j \in t.page
        <5>1. \A j \in rows : j > k => j # k
          BY <2>4
        <5> QED
          BY <2>1, <2>5, <4>1, <4>3, <5>1 DEF RowScanKnows
      <4> QED
        BY <2>1, <2>5, <2>7, <3>1, <4>1, <4>2, <4>4, <4>5 DEF RowScanKnows
    <3>2. ~breached => Knows(t, rows, files, bundle)
      BY <2>2, <2>5, <3>1, InScan DEF FileScanKnows
    <3> QED
      BY <2>1, <2>5, <2>9, <3>2, Moved DEF Serves
  <2> QED
    BY <2>8, <2>9
<1> QED
  BY <1>4, <1>5

\* Looking for the rows of the objects, page by page, and deleting on the way.
LEMMA FileScan ==
  ASSUME MaintenanceInv, LeaseInv, NEW p \in Procs
  PROVE  ScanFiles(p) \/ QueryKeys(p) \/ HandleOrphan(p) => MaintenanceInv'
<1> DEFINE r == proc[p]
<1>1. r \in ProcRecord /\ (~breached => Knows(r, rows, files, bundle)) /\ StoreTypes
  BY Zenon DEF MaintenanceInv
<1>2. r.after \in Nat /\ r.page \in SUBSET Keys /\ r.at \in Stages /\ rows \in SUBSET Keys
  BY <1>1 DEF ProcRecord, StoreTypes
<1>3. Keys \subseteq Nat /\ 0 \notin Keys
  BY MaintenanceAssumption
<1>4. r.at \in {"files", "flush", "orphans"} /\ ~breached =>
        r.put = 0 /\ r.sweep = 0 /\ FileScanKnows(r, rows, files)
  BY <1>1, NotInService DEF Knows
<1>5. ASSUME ScanFiles(p)
      PROVE  MaintenanceInv'
  <2> DEFINE page == Page(Stored, r.after)
             m == Max(page)
             u == [r EXCEPT !.at = "scanned"]
             v == [r EXCEPT !.at = "flush", !.page = page, !.after = m]
  <2>1. /\ r.at = "files" /\ Become(p, IF page = {} THEN u ELSE v)
        /\ UNCHANGED <<database, files, bundle, damaged, breached, lapsed>>
    BY <1>5 DEF ScanFiles, ScanOnly, LeaseUnchanged, database
  <2>2. /\ page \subseteq Stored /\ \A k \in page : k > r.after
        /\ \A k \in page, j \in Stored : j > r.after /\ j <= k => j \in page
        /\ page = {} => \A k \in Stored : ~(k > r.after)
    BY <1>2, PageFacts, Zenon DEF Stored
  <2>3. page \in SUBSET Keys
    BY <2>2 DEF Stored
  <2>4. page # {} => m \in page /\ m \in Nat
    BY <1>3, <2>3, MaxOfPage, Zenon
  <2> HIDE DEF page, m
  <2>5. /\ u \in ProcRecord /\ u.at = "scanned"
        /\ u.put = r.put /\ u.sweep = r.sweep /\ u.unresolved = r.unresolved
    BY <1>1 DEF ProcRecord, Stages
  <2>6. page # {} => v \in ProcRecord
    BY <1>1, <2>3, <2>4, Zenon DEF ProcRecord, Stages
  <2>7. /\ v.at = "flush" /\ v.page = page /\ v.after = m
        /\ v.put = r.put /\ v.sweep = r.sweep /\ v.unresolved = r.unresolved
    BY <1>1 DEF ProcRecord
  <2> HIDE DEF u, v, r
  <2>8. CASE page = {}
    <3>1. ASSUME NEW k \in Keys, files[k] # "none"
          PROVE  k <= r.after
      <4>1. k \in Nat /\ ~(k > r.after)
        BY <1>3, <2>2, <2>8, <3>1 DEF Stored
      <4> QED
        BY <1>2, <4>1
    <3>2. ~breached => RowScanKnows(u, rows, files) /\ FileScanKnows(u, rows, files)
      BY <1>4, <2>1, <2>5, <3>1 DEF RowScanKnows, FileScanKnows
    <3>3. ~breached => Knows(u, rows, files, bundle)
      BY <1>4, <2>1, <2>5, <3>2, InScan
    <3> QED
      BY <2>1, <2>5, <2>8, <3>3, Moved DEF Serves
  <2>9. CASE page # {}
    <3>1. ASSUME NEW k \in Keys, files[k] # "none", k <= m, k \notin page
          PROVE  k <= r.after
      <4>1. k \in Nat /\ k \in Stored
        BY <1>3, <3>1 DEF Stored
      <4>2. ~(k > r.after)
        BY <2>2, <2>4, <2>9, <3>1, <4>1
      <4> QED
        BY <1>2, <4>1, <4>2
    <3>2. ~breached => RowScanKnows(v, rows, files) /\ FileScanKnows(v, rows, files)
      BY <1>4, <2>1, <2>7, <3>1 DEF RowScanKnows, FileScanKnows
    <3>3. ~breached => Knows(v, rows, files, bundle)
      BY <1>4, <2>1, <2>7, <3>2, InScan
    <3> QED
      BY <2>1, <2>6, <2>7, <2>9, <3>3, Moved DEF Serves
  <2> QED
    BY <2>8, <2>9
<1>6. ASSUME QueryKeys(p)
      PROVE  MaintenanceInv'
  <2> DEFINE s == [r EXCEPT !.at = "orphans", !.page = @ \ rows]
  <2>1. /\ r.at = "flush" /\ Become(p, s)
        /\ UNCHANGED <<database, files, bundle, damaged, breached, lapsed>>
    BY <1>6 DEF QueryKeys, ScanOnly, LeaseUnchanged, database
  <2>2. /\ s \in ProcRecord /\ s.at = "orphans" /\ s.page = r.page \ rows /\ s.after = r.after
        /\ s.put = r.put /\ s.sweep = r.sweep /\ s.unresolved = r.unresolved
    BY <1>1, Zenon DEF ProcRecord, Stages
  <2> HIDE DEF s, r
  <2>3. ~breached => RowScanKnows(s, rows, files) /\ FileScanKnows(s, rows, files)
    BY <1>4, <2>1, <2>2 DEF RowScanKnows, FileScanKnows
  <2>4. ~breached => Knows(s, rows, files, bundle)
    BY <1>4, <2>1, <2>2, <2>3, InScan
  <2> QED
    BY <2>1, <2>2, <2>4, Moved, Zenon DEF Serves
<1>7. ASSUME HandleOrphan(p)
      PROVE  MaintenanceInv'
  <2> DEFINE k == Min(r.page)
             u == [r EXCEPT !.at = "files"]
             v == [r EXCEPT !.page = @ \ {k}]
             w == [r EXCEPT !.page = @ \ {k}, !.unresolved = TRUE]
  <2>1. /\ r.at = "orphans" /\ AtWork(p)
        /\ UNCHANGED <<schema, rows, queued, bundle, damaged, breached, lapsed>>
    BY <1>7 DEF HandleOrphan, ScanOnly, LeaseUnchanged, database, AtWork
  <2>2. \/ r.page = {} /\ Become(p, u) /\ files' = files
        \/ r.page # {} /\ Become(p, v) /\ files' = [files EXCEPT ![k] = "none"]
        \/ r.page # {} /\ Become(p, w) /\ files' = files
    BY <1>7 DEF HandleOrphan, Goto
  <2>3. r.page # {} => k \in r.page /\ k \in Keys
    BY <1>2, MinOfPage
  <2> HIDE DEF k
  <2>4. /\ u \in ProcRecord /\ u.at = "files" /\ u.after = r.after
        /\ u.put = r.put /\ u.sweep = r.sweep /\ u.unresolved = r.unresolved
    BY <1>1 DEF ProcRecord, Stages
  <2>5. /\ v \in ProcRecord /\ v.at = r.at /\ v.page = r.page \ {k} /\ v.after = r.after
        /\ v.put = r.put /\ v.sweep = r.sweep /\ v.unresolved = r.unresolved
    BY <1>1 DEF ProcRecord
  <2>6. /\ w \in ProcRecord /\ w.at = r.at /\ w.page = r.page \ {k} /\ w.after = r.after
        /\ w.put = r.put /\ w.sweep = r.sweep /\ w.unresolved = TRUE
    BY <1>1, Zenon DEF ProcRecord
  <2> HIDE DEF u, v, w, r
  <2>7. CASE r.page = {} /\ Become(p, u) /\ files' = files
    <3>1. ~breached => RowScanKnows(u, rows, files) /\ FileScanKnows(u, rows, files)
      BY <1>4, <2>1, <2>4, <2>7 DEF RowScanKnows, FileScanKnows
    <3>2. ~breached => Knows(u, rows, files, bundle)
      BY <1>4, <2>1, <2>4, <3>1, InScan
    <3> QED
      BY <2>1, <2>4, <2>7, <3>2, Moved DEF Serves, database
  <2>8. CASE r.page # {} /\ Become(p, w) /\ files' = files
    <3>1. ~breached => RowScanKnows(w, rows, files) /\ FileScanKnows(w, rows, files)
      BY <1>4, <2>1, <2>6 DEF RowScanKnows, FileScanKnows
    <3>2. ~breached => Knows(w, rows, files, bundle)
      BY <1>4, <2>1, <2>6, <3>1, InScan, Zenon
    <3> QED
      BY <2>1, <2>6, <2>8, <3>2, Moved DEF Serves, database
  <2>9. CASE r.page # {} /\ Become(p, v) /\ files' = [files EXCEPT ![k] = "none"]
    <3>1. /\ StoreTypes'
          /\ \A j \in Keys : files'[j] = IF j = k THEN "none" ELSE files[j]
      BY <1>1, <2>1, <2>3, <2>9, Zenon DEF StoreTypes
    <3>2. ~breached => k \notin rows
      BY <1>4, <2>1, <2>3, <2>9, Zenon DEF FileScanKnows
    <3>3. ~breached => Backed(rows', files', damaged')
      BY <1>2, <2>1, <3>1, <3>2 DEF MaintenanceInv, Backed
    <3>4. ~breached => RowScanKnows(v, rows', files') /\ FileScanKnows(v, rows', files')
      BY <1>2, <1>4, <2>1, <2>5, <3>1, <3>2 DEF RowScanKnows, FileScanKnows
    <3>5. ~breached => Knows(v, rows', files', bundle')
      BY <1>4, <2>1, <2>5, <3>4, InScan
    <3>6. /\ ~schema' => rows' = {} 
          /\ bundle' # NoBundle => bundle'.manifest
          /\ ~breached => bundle'.rows \subseteq bundle'.keys
      BY <2>1 DEF MaintenanceInv
    <3> QED
      BY <2>1, <2>5, <2>9, <3>1, <3>3, <3>5, <3>6, Worked, Zenon DEF Serves
  <2> QED
    BY <2>2, <2>7, <2>8, <2>9, Zenon
<1> QED
  BY <1>5, <1>6, <1>7

\* A backup dumps rows that were found complete and archives their objects.
LEMMA BackingUp ==
  ASSUME MaintenanceInv, LeaseInv, NEW p \in Procs
  PROVE  /\ Dump(p) \/ WriteArchive(p) \/ WriteManifest(p) \/ Publish(p) => MaintenanceInv'
         /\ PublishFails(p) => MaintenanceInv'
<1> DEFINE r == proc[p]
<1>1. r \in ProcRecord /\ (~breached => Knows(r, rows, files, bundle)) /\ StoreTypes
  BY DEF MaintenanceInv
<1>2. r.at \in {"scanned", "archive", "manifest", "publish"} /\ ~breached =>
        r.put = 0 /\ r.sweep = 0 /\ FileScanKnows(r, rows, files) /\ BackupKnows(r, rows, files)
  BY <1>1, NotInService DEF Knows
<1>3. r.part \in BundleRecord
  BY <1>1 DEF ProcRecord
<1>4. ASSUME Dump(p)
      PROVE  MaintenanceInv'
  <2> DEFINE part == [NoBundle EXCEPT !.rows = rows, !.queued = queued, !.intact = TRUE]
             s == [r EXCEPT !.at = "archive", !.part = part]
  <2>1. /\ r.at = "scanned" /\ ~r.unresolved /\ Become(p, s)
        /\ UNCHANGED <<database, files, bundle, damaged, breached, lapsed>>
    BY <1>4 DEF Dump, BackupOnly, LeaseUnchanged, database, store
  <2>2. part \in BundleRecord /\ part.rows = rows
    BY <1>1, Zenon DEF NoBundle, BundleRecord, StoreTypes
  <2> HIDE DEF part
  <2>3. s \in ProcRecord /\ s.at = "archive" /\ s.part = part /\ s.put = r.put /\ s.sweep = r.sweep
    BY <1>1, <2>2, Zenon DEF ProcRecord, Stages
  <2> HIDE DEF s, r
  <2>4. ~breached => BackupKnows(s, rows, files)
    BY <1>2, <2>1, <2>2, <2>3 DEF FileScanKnows, BackupKnows
  <2>5. ~breached => Knows(s, rows, files, bundle)
    BY <1>2, <2>1, <2>3, <2>4, InBackup
  <2> QED
    BY <2>1, <2>3, <2>5, Moved DEF Serves
<1>5. ASSUME WriteArchive(p)
      PROVE  MaintenanceInv'
  <2> DEFINE part == [r.part EXCEPT !.keys = Stored]
             s == [r EXCEPT !.at = "manifest", !.part = part]
  <2>1. /\ r.at = "archive" /\ Become(p, [r EXCEPT !.at = "manifest", !.part.keys = Stored])
        /\ UNCHANGED <<database, files, bundle, damaged, breached, lapsed>>
    BY <1>5 DEF WriteArchive, BackupOnly, LeaseUnchanged, database, store
  <2>2. Become(p, s)
    BY <2>1
  <2>3. part \in BundleRecord /\ part.rows = r.part.rows /\ part.keys = Stored
    BY <1>3 DEF BundleRecord, Stored
  <2> HIDE DEF part
  <2>4. s \in ProcRecord /\ s.at = "manifest" /\ s.part = part /\ s.put = r.put /\ s.sweep = r.sweep
    BY <1>1, <2>3, Zenon DEF ProcRecord, Stages
  <2> HIDE DEF s, r
  <2>5. ~breached => BackupKnows(s, rows, files)
    BY <1>1, <1>2, <2>1, <2>3, <2>4 DEF BackupKnows, Stored, StoreTypes
  <2>6. ~breached => Knows(s, rows, files, bundle)
    BY <1>2, <2>1, <2>4, <2>5, InBackup
  <2> QED
    BY <2>1, <2>2, <2>4, <2>6, Moved DEF Serves
<1>6. ASSUME WriteManifest(p)
      PROVE  MaintenanceInv'
  <2> DEFINE part == [r.part EXCEPT !.manifest = TRUE]
             s == [r EXCEPT !.at = "publish", !.part = part]
  <2>1. /\ r.at = "manifest" /\ Become(p, [r EXCEPT !.at = "publish", !.part.manifest = TRUE])
        /\ UNCHANGED <<database, files, bundle, damaged, breached, lapsed>>
    BY <1>6 DEF WriteManifest, BackupOnly, LeaseUnchanged, database, store
  <2>2. Become(p, s)
    BY <2>1
  <2>3. part \in BundleRecord /\ part.rows = r.part.rows /\ part.keys = r.part.keys /\ part.manifest
    BY <1>3, Zenon DEF BundleRecord
  <2> HIDE DEF part
  <2>4. s \in ProcRecord /\ s.at = "publish" /\ s.part = part /\ s.put = r.put /\ s.sweep = r.sweep
    BY <1>1, <2>3, Zenon DEF ProcRecord, Stages
  <2> HIDE DEF s, r
  <2>5. ~breached => BackupKnows(s, rows, files)
    BY <1>2, <2>1, <2>3, <2>4 DEF BackupKnows
  <2>6. ~breached => Knows(s, rows, files, bundle)
    BY <1>2, <2>1, <2>4, <2>5, InBackup
  <2> QED
    BY <2>1, <2>2, <2>3, <2>4, <2>6, Moved DEF Serves
<1>7. ASSUME Publish(p)
      PROVE  MaintenanceInv'
  <2> DEFINE s == [r EXCEPT !.at = "published"]
  <2>1. /\ r.at = "publish" /\ bundle' = r.part /\ Become(p, s) /\ AtWork(p)
        /\ UNCHANGED <<schema, rows, queued, files, damaged, breached, lapsed>>
    BY <1>7 DEF Publish, Goto, BackupOnly, LeaseUnchanged, database, store, AtWork
  <2>2. s \in ProcRecord /\ s.at = "published" /\ s.put = r.put /\ s.sweep = r.sweep
    BY <1>1 DEF ProcRecord, Stages
  <2>3. StoreTypes' /\ r.part.manifest
    BY <1>1, <1>3, <2>1 DEF StoreTypes, MaintenanceInv
  <2> HIDE DEF s, r
  <2>4. ~breached => r.part.rows \subseteq r.part.keys
    BY <1>2, <2>1, Zenon DEF BackupKnows
  <2>5. ~breached => Knows(s, rows', files', bundle')
    BY <1>2, <2>1, <2>2, InBackup, Zenon DEF BackupKnows
  <2>6. (~schema' => rows' = {}) /\ (~breached => Backed(rows', files', damaged'))
    BY <2>1, Zenon DEF MaintenanceInv
  <2> QED
    BY <2>1, <2>2, <2>3, <2>4, <2>5, <2>6, Worked DEF Serves
<1>8. ASSUME PublishFails(p)
      PROVE  MaintenanceInv'
  <2>1. /\ Become(p, Idle) /\ AtWork(p) /\ lapsed' \subseteq lapsed
        /\ bundle' \in {NoBundle, bundle}
        /\ UNCHANGED <<schema, rows, queued, files, damaged, breached>>
    BY <1>8, Zenon DEF PublishFails, Leave, Unlock, database, store, AtWork
  <2>2. StoreTypes'
    BY <1>1, <2>1, IdleFacts DEF StoreTypes
  <2>3. NoBundle.rows = {} /\ NoBundle.keys = {}
    BY DEF NoBundle
  <2>4. /\ bundle' # NoBundle => bundle'.manifest
        /\ ~breached => bundle'.rows \subseteq bundle'.keys
    BY <2>1, <2>3 DEF MaintenanceInv
  <2>5. (~schema' => rows' = {}) /\ (~breached => Backed(rows', files', damaged'))
    BY <2>1 DEF MaintenanceInv
  <2>6. Idle.at # "publish" /\ ~Serves(Idle)
    BY DEF Idle, Serves
  <2> QED
    BY <2>1, <2>2, <2>4, <2>5, <2>6, IdleFacts, Worked, Zenon
<1> QED
  BY <1>4, <1>5, <1>6, <1>7, <1>8

\* A restore puts the objects in place before the rows that need them.
LEMMA Restoring ==
  ASSUME MaintenanceInv, LeaseInv, NEW p \in Procs
  PROVE  /\ VerifyBundle(p) \/ Install(p) \/ RestoreFails(p) \/ RestoreDatabase(p) => MaintenanceInv'
         /\ \A k \in Keys : Extract(p, k) => MaintenanceInv'
<1> DEFINE r == proc[p]
<1>1. r \in ProcRecord /\ (~breached => Knows(r, rows, files, bundle)) /\ StoreTypes
  BY DEF MaintenanceInv
<1>2. r.at \in {"verify", "extract", "database"} /\ ~breached =>
        r.put = 0 /\ r.sweep = 0 /\ RestoreKnows(r, rows, files, bundle)
  BY <1>1, NotInService, Zenon DEF Knows
<1>3. r.part \in BundleRecord
  BY <1>1 DEF ProcRecord
<1>4. /\ ~schema => rows = {}
      /\ bundle # NoBundle => bundle.manifest
      /\ ~breached => bundle.rows \subseteq bundle.keys
  BY Zenon DEF MaintenanceInv
<1>5. bundle.keys \subseteq Keys /\ bundle.rows \subseteq Keys /\ bundle.queued \subseteq Keys
  BY <1>1 DEF StoreTypes, BundleRecord
<1>6. ASSUME VerifyBundle(p)
      PROVE  MaintenanceInv'
  <2> DEFINE d == (root = "empty")
             s == [r EXCEPT !.at = "extract", !.page = {}, !.part = NoBundle, !.direct = d]
  <2>1. /\ r.at = "verify" /\ ~schema /\ Become(p, s)
        /\ UNCHANGED <<database, files, bundle, damaged, breached, lapsed>>
    BY <1>6 DEF VerifyBundle, RestoreOnly, LeaseUnchanged, database, store
  <2>2. d \in BOOLEAN
    OBVIOUS
  <2> HIDE DEF d
  <2>3. /\ s \in ProcRecord /\ s.at = "extract" /\ s.part = NoBundle /\ s.after = r.after
        /\ s.put = r.put /\ s.sweep = r.sweep
    BY <1>1, <2>2, IdleFacts, Zenon DEF ProcRecord, Stages
  <2> HIDE DEF s, r
  <2>4. NoBundle.keys = {}
    BY DEF NoBundle
  <2>5. ~breached => RestoreKnows(s, rows, files, bundle)
    BY <1>2, <1>4, <2>1, <2>3, <2>4 DEF RestoreKnows
  <2>6. ~breached => Knows(s, rows, files, bundle)
    BY <1>2, <2>1, <2>3, <2>5, InRestore
  <2> QED
    BY <2>1, <2>3, <2>6, Moved DEF Serves
<1>7. ASSUME NEW k \in Keys, Extract(p, k)
      PROVE  MaintenanceInv'
  <2> DEFINE part == [r.part EXCEPT !.keys = @ \union {k}]
             s == [r EXCEPT !.part = part]
  <2>1. /\ r.at = "extract" /\ Become(p, [r EXCEPT !.part.keys = @ \union {k}]) /\ AtWork(p)
        /\ files' = IF r.direct THEN [files EXCEPT ![k] = "good"] ELSE files
        /\ UNCHANGED <<schema, rows, queued, bundle, damaged, breached, lapsed>>
    BY <1>7 DEF Extract, RestoreOnly, LeaseUnchanged, database, store, AtWork
  <2>2. Become(p, s)
    BY <2>1
  <2>3. part \in BundleRecord /\ part.keys = r.part.keys \union {k} /\ r.part.keys \subseteq Keys
    BY <1>3 DEF BundleRecord
  <2> HIDE DEF part
  <2>4. /\ s \in ProcRecord /\ s.at = "extract" /\ s.part = part /\ s.after = r.after
        /\ s.put = r.put /\ s.sweep = r.sweep /\ s.direct = r.direct
    BY <1>1, <2>1, <2>3 DEF ProcRecord
  <2> HIDE DEF s, r
  <2>5. /\ StoreTypes'
        /\ r.direct => \A j \in Keys : files'[j] = IF j = k THEN "good" ELSE files[j]
    BY <1>1, <2>1 DEF StoreTypes
  <2>6. ~breached => RestoreKnows(s, rows', files', bundle') /\ Backed(rows', files', damaged')
    BY <1>2, <2>1, <2>3, <2>4, <2>5 DEF RestoreKnows, Backed
  <2>7. ~breached => Knows(s, rows', files', bundle')
    BY <1>2, <2>1, <2>4, <2>6, InRestore
  <2> QED
    BY <1>4, <2>1, <2>2, <2>4, <2>5, <2>6, <2>7, Worked, Zenon DEF Serves
<1>8. ASSUME Install(p)
      PROVE  MaintenanceInv'
  <2> DEFINE s == [r EXCEPT !.at = "database"]
  <2>1. /\ r.at = "extract" /\ r.part.keys = bundle.keys /\ Become(p, s) /\ AtWork(p)
        /\ files' = IF r.direct THEN files
                    ELSE [k \in Keys |-> IF k \in bundle.keys THEN "good" ELSE "none"]
        /\ UNCHANGED <<schema, rows, queued, bundle, damaged, breached, lapsed>>
    BY <1>8 DEF Install, Goto, RestoreOnly, LeaseUnchanged, database, store, AtWork
  <2>2. /\ s \in ProcRecord /\ s.at = "database" /\ s.after = r.after
        /\ s.put = r.put /\ s.sweep = r.sweep
    BY <1>1 DEF ProcRecord, Stages
  <2> HIDE DEF s, r
  <2>3. StoreTypes'
    BY <1>1, <2>1, Zenon DEF StoreTypes
  <2>4. ~breached => RestoreKnows(s, rows', files', bundle') /\ Backed(rows', files', damaged')
    BY <1>2, <1>5, <2>1, <2>2, Zenon DEF RestoreKnows, Backed
  <2>5. ~breached => Knows(s, rows', files', bundle')
    BY <1>2, <2>1, <2>2, <2>4, InRestore, Zenon
  <2> QED
    BY <1>4, <2>1, <2>2, <2>3, <2>4, <2>5, Worked, Zenon DEF Serves
<1>9. ASSUME RestoreFails(p)
      PROVE  MaintenanceInv'
  <2>1. /\ r.at = "extract" /\ Become(p, Idle) /\ AtWork(p) /\ lapsed' \subseteq lapsed
        /\ files' = IF r.direct THEN [k \in Keys |-> "none"] ELSE files
        /\ UNCHANGED <<schema, rows, queued, bundle, damaged, breached>>
    BY <1>9 DEF RestoreFails, Leave, Unlock, database, store, AtWork
  <2>2. StoreTypes'
    BY <1>1, <2>1 DEF StoreTypes
  <2>3. ~breached => Backed(rows', files', damaged')
    BY <1>2, <2>1 DEF RestoreKnows, Backed
  <2>4. Idle.at # "publish" /\ ~Serves(Idle)
    BY DEF Idle, Serves
  <2> QED
    BY <1>4, <2>1, <2>2, <2>3, <2>4, IdleFacts, Worked, Zenon
<1>10. ASSUME RestoreDatabase(p)
       PROVE  MaintenanceInv'
  <2> DEFINE s == [r EXCEPT !.at = "rows", !.page = {}]
  <2>1. /\ r.at = "database" /\ schema' = TRUE /\ rows' = bundle.rows /\ queued' = bundle.queued
        /\ Become(p, s) /\ AtWork(p)
        /\ UNCHANGED <<files, bundle, damaged, breached, lapsed>>
    BY <1>10 DEF RestoreDatabase, RestoreOnly, LeaseUnchanged, store, AtWork
  <2>2. /\ s \in ProcRecord /\ s.at = "rows" /\ s.page = {} /\ s.after = r.after
        /\ s.put = r.put /\ s.sweep = r.sweep
    BY <1>1, Zenon DEF ProcRecord, Stages
  <2> HIDE DEF s, r
  <2>3. StoreTypes'
    BY <1>1, <1>5, <2>1, Zenon DEF StoreTypes
  <2>4. ~breached => Backed(rows', files', damaged')
    BY <1>2, <1>4, <2>1 DEF RestoreKnows, Backed
  <2>5. \A k \in Keys : ~(k <= 0)
    BY MaintenanceAssumption
  <2>6. ~breached => RowScanKnows(s, rows', files') /\ FileScanKnows(s, rows', files')
    BY <1>2, <1>5, <2>1, <2>2, <2>5 DEF RestoreKnows, RowScanKnows, FileScanKnows
  <2>7. ~breached => Knows(s, rows', files', bundle')
    BY <1>2, <2>1, <2>2, <2>6, InScan, Zenon
  <2> QED
    BY <1>4, <2>1, <2>2, <2>3, <2>4, <2>7, Worked, Zenon DEF Serves
<1> QED
  BY <1>6, <1>7, <1>8, <1>9, <1>10

LEMMA MaintenanceInit == Init => LeaseInv /\ MaintenanceInv
<1> SUFFICES ASSUME Init
             PROVE  LeaseInv /\ MaintenanceInv
  OBVIOUS
<1>1. LeaseInv
  BY DEF Init, LeaseInv, AtWork, Idle
<1>2. \A p \in Procs : proc[p] = Idle
  BY DEF Init
<1>3. Idle.at # "publish" /\ ~Serves(Idle) /\ NoBundle.rows = {}
  BY DEF Idle, Serves, NoBundle
<1>4. StoreTypes
  BY IdleFacts DEF Init, StoreTypes
<1>5. proc \in [Procs -> ProcRecord]
  BY IdleFacts DEF Init
<1>6. MaintenanceInv
  BY <1>2, <1>3, <1>4, <1>5, IdleFacts DEF Init, MaintenanceInv, Backed
<1> QED
  BY <1>1, <1>6

LEMMA MaintenanceStep ==
  LeaseInv /\ MaintenanceInv /\ [Next]_vars => LeaseInv' /\ MaintenanceInv'
<1> SUFFICES ASSUME LeaseInv, MaintenanceInv, [Next]_vars
             PROVE  MaintenanceInv'
  BY LeaseStep
<1>1. CASE UNCHANGED vars
  BY <1>1, Zenon DEF vars, database, store, history, MaintenanceInv, StoreTypes
<1>2. CASE Migrate \/ Wipe \/ Damage
  BY <1>2, Surroundings
<1>3. ASSUME NEW p \in Procs, Work(p) \/ Hang(p) \/ Crash(p)
      PROVE  MaintenanceInv'
  BY <1>3, Serving, Endings DEF Work
<1>4. ASSUME NEW p \in Procs, Proceed(p)
      PROVE  MaintenanceInv'
  <2>1. "serve" \in Roles
    BY DEF Roles
  <2>2. CASE Acquire(p, "serve") \/ Refused(p) \/ ListTasks(p) \/ CleanupEnds(p)
             \/ StopComplete(p) \/ Deadline(p) \/ Exit(p)
    BY <2>1, <2>2, Beginnings, Serving, Endings, Breaches
  <2>3. CASE FetchRows(p) \/ VerifyRow(p) \/ ScanFiles(p) \/ QueryKeys(p) \/ HandleOrphan(p) \/ ScanEnds(p)
    BY <2>3, RowScan, FileScan, Endings
  <2>4. CASE Dump(p) \/ DestinationTaken(p) \/ WriteArchive(p) \/ WriteManifest(p) \/ Publish(p)
             \/ BackupEnds(p) \/ BackupFails(p)
    BY <2>4, BackingUp, Endings
  <2>5. CASE VerifyBundle(p) \/ RestoreRefused(p) \/ Install(p) \/ RestoreFails(p)
             \/ RestoreDatabase(p) \/ DatabaseFails(p) \/ (\E k \in Keys : Extract(p, k))
    BY <2>5, Restoring, Endings
  <2> QED
    BY <1>4, <2>2, <2>3, <2>4, <2>5 DEF Proceed
<1>5. ASSUME NEW p \in Procs,
             LoseSession(p) \/ PublishFails(p) \/ OpenStore(p) \/ (\E role \in Roles : Acquire(p, role))
      PROVE  MaintenanceInv'
  BY <1>5, Breaches, BackingUp, Beginnings
<1> QED
  BY <1>1, <1>2, <1>3, <1>4, <1>5 DEF Next

\* As long as the lease was kept, no order of serving (deliveries, DeleteUnreferenced),
\* cleaning, repairing (Reconcile), backing up, losing everything and restoring leaves a
\* row without its object, for any number of processes and contents.
THEOREM RowsStayBacked == Spec => []RowsBacked
<1>1. MaintenanceInv => RowsBacked
  BY DEF MaintenanceInv, RowsBacked, Backed
<1> QED
  BY <1>1, MaintenanceInit, MaintenanceStep, PTL DEF Spec

\* A bundle that can be seen has its manifest, and every row of its dump has its object
\* in its archive (Backup writes a partial directory and renames it), whatever fails or
\* is killed while it is written.
THEOREM BundleIsSound == Spec => []BundleSound
<1>1. MaintenanceInv => BundleSound
  BY DEF MaintenanceInv, BundleSound
<1> QED
  BY <1>1, MaintenanceInit, MaintenanceStep, PTL DEF Spec

\* A scan (Reconcile) that ends without a finding tells the truth about rows and objects,
\* for any batch size, although it read them page by page and deleted on the way.
THEOREM CleanScanIsTrue == Spec => []CleanScanTells
<1>1. ASSUME MaintenanceInv, NEW p \in Procs, proc[p].at = "scanned", ~proc[p].unresolved, ~breached
      PROVE  Stored = rows /\ \A k \in rows : files[k] = "good"
  <2>1. FileScanKnows(proc[p], rows, files) /\ rows \subseteq Keys
    BY <1>1, Zenon DEF MaintenanceInv, Knows, StoreTypes
  <2>2. \A k \in rows : files[k] = "good"
    BY <1>1, <2>1 DEF FileScanKnows
  <2>3. \A k \in Keys : files[k] # "none" => k \in rows
    BY <1>1, <2>1 DEF FileScanKnows
  <2> QED
    BY <2>1, <2>2, <2>3 DEF Stored
<1>2. MaintenanceInv => CleanScanTells
  BY <1>1 DEF CleanScanTells
<1> QED
  BY <1>2, MaintenanceInit, MaintenanceStep, PTL DEF Spec
=============================================================================
