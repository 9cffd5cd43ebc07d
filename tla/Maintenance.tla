----------------------------- MODULE Maintenance -----------------------------
(***************************************************************************)
(* The processes of one installation: serve and the commands cleanup,      *)
(* reconcile, backup and restore, the advisory lock that lets one of them  *)
(* in at a time, and the stores they work on: mail_contents rows, object   *)
(* files and one backup bundle.                                            *)
(*                                                                         *)
(* MailLifecycle has the details of deliveries and deletions inside one    *)
(* serve process.  Here a delivery is two steps (object, row), a deletion  *)
(* is the row and later the object, and the point is what other processes  *)
(* may do in between.                                                      *)
(***************************************************************************)
EXTENDS Integers, FiniteSets, FiniteSetsExt

CONSTANTS
  Procs,     \* operating system processes
  Keys,      \* content keys, numbers in the order of the catalog
  Commands,  \* commands an operator runs as a process
  Batch,     \* ReconcileOptions.BatchSize
  MaxFaults  \* bound on crashes, failing calls, lost sessions and damage

Roles == {"serve", "cleanup", "reconcile", "repair", "backup", "restore"}

ASSUME MaintenanceAssumption ==
  /\ "free" \notin Procs
  /\ Commands \in [Procs -> SUBSET Roles]
  /\ Keys \subseteq Nat \ {0} /\ IsFiniteSet(Keys)
  /\ Batch \in Nat \ {0} /\ MaxFaults \in Nat

VARIABLES
  schema,    \* the database is migrated
  rows,      \* keys of mail_contents
  queued,    \* keys of content_deletion_queue
  root,      \* the content root: "absent", "empty" or "used"
  files,     \* object files: "none", "good" or "bad"
  lock,      \* the process whose session holds the advisory lock, or "free"
  proc,      \* one record per process
  bundle,    \* the published backup, or NoBundle
  faults,
  lapsed,    \* history: processes at work without the lock
  breached,  \* history: some process was
  damaged    \* history: objects lost or corrupted on disk

database == <<schema, rows, queued>>
store == <<root, files>>
history == <<lapsed, breached, damaged>>
vars == <<database, store, lock, proc, bundle, faults, history>>

NoBundle == [rows |-> {}, queued |-> {}, keys |-> {}, manifest |-> FALSE, intact |-> FALSE]
Idle == [role |-> "none", at |-> "idle", after |-> 0, page |-> {}, last |-> FALSE,
         unresolved |-> FALSE, put |-> 0, sweep |-> 0, hung |-> FALSE, part |-> NoBundle, direct |-> FALSE]

\* A process is at work from the moment it has the lease until its last access.
AtWork(p) == proc[p].at \notin {"idle", "start"}
Stored == {k \in Keys : files[k] # "none"}

\* Types, and a delivery and a removal of one process exclude each other.
TypeOK ==
  /\ rows \subseteq Keys /\ queued \subseteq Keys
  /\ root \in {"absent", "empty", "used"}
  /\ files \in [Keys -> {"none", "good", "bad"}]
  /\ Stored # {} => root = "used"
  /\ lock \in Procs \union {"free"}
  /\ \A p \in Procs :
       /\ proc[p].role \in Roles \union {"none"}
       /\ proc[p].put = 0 \/ proc[p].sweep = 0
       /\ proc[p].page \subseteq Keys /\ Cardinality(proc[p].page) <= Batch
  /\ ~schema => rows = {} /\ queued = {}
  /\ lapsed \subseteq Procs /\ damaged \subseteq Keys

Init ==
  /\ schema = FALSE /\ rows = {} /\ queued = {}
  /\ root = "absent" /\ files = [k \in Keys |-> "none"]
  /\ lock = "free"
  /\ proc = [p \in Procs |-> Idle]
  /\ bundle = NoBundle
  /\ faults = 0
  /\ lapsed = {} /\ breached = FALSE /\ damaged = {}

Fault == faults < MaxFaults /\ faults' = faults + 1
Become(p, s) == proc' = [proc EXCEPT ![p] = s]
Goto(p, at) == Become(p, [proc[p] EXCEPT !.at = at])
StoresUnchanged == UNCHANGED <<database, store, bundle, damaged>>
LeaseUnchanged == UNCHANGED <<lock, lapsed, breached>>

-----------------------------------------------------------------------------
(* The lease and the beginning and end of every command.                   *)

\* migrate takes no lease.
Migrate ==
  /\ ~schema /\ schema' = TRUE
  /\ UNCHANGED <<rows, queued, store, lock, proc, bundle, faults, history>>

\* serve opens the content store, which creates its directories, before it asks
\* for the lease; the other commands open it afterwards.
OpenStore(p) ==
  /\ proc[p].at = "idle" /\ "serve" \in Commands[p]
  /\ Goto(p, "start")
  /\ root' = "used"
  /\ UNCHANGED <<database, files, lock, bundle, faults, history>>

FirstStep(role) ==
  CASE role = "serve" -> "serving"
    [] role = "cleanup" -> "cleaning"
    [] role = "restore" -> "verify"
    [] OTHER -> "rows"

\* The process becomes a command that has its lease.
Enter(p, role) ==
  /\ role \in Commands[p]
  /\ proc[p].at = IF role = "serve" THEN "start" ELSE "idle"
  /\ role # "restore" => schema
  /\ Become(p, [Idle EXCEPT !.role = role, !.at = FirstStep(role)])
  /\ root' = IF role = "restore" THEN root ELSE "used"
  /\ UNCHANGED <<database, files, bundle, faults, history>>

\* Mutant: pg_try_advisory_lock is called and its answer ignored.
AcquireUnchecked(p, role) == Enter(p, role) /\ lock' = IF lock = "free" THEN p ELSE lock

\* Ready (not for restore) and pg_try_advisory_lock on a session of its own.  A
\* command other than serve that is refused has changed nothing.
Acquire(p, role) == Enter(p, role) /\ lock = "free" /\ lock' = p

\* serve finds the lock taken or the schema missing and ends at once.
Refused(p) ==
  /\ proc[p].at = "start"
  /\ lock # "free" \/ ~schema
  /\ Become(p, Idle)
  /\ UNCHANGED <<lock, lapsed, breached, faults>> /\ StoresUnchanged

\* Mutant: a command returns without the deferred Release.
UnlockForgotten(p) ==
  /\ lock' = IF lock = p /\ proc[p].role = "serve" THEN "free" ELSE lock
  /\ lapsed' = lapsed \ {p}

\* The deferred Release: the session is closed, so its lock is gone.
Unlock(p) ==
  /\ lock' = IF lock = p THEN "free" ELSE lock
  /\ lapsed' = lapsed \ {p}
Leave(p) == Become(p, Idle) /\ Unlock(p) /\ UNCHANGED breached

\* The session that holds the lock ends; no process watches it.
LoseSession(p) ==
  /\ lock = p /\ lock' = "free"
  /\ Fault
  /\ lapsed' = lapsed \union {p} /\ breached' = TRUE
  /\ UNCHANGED <<database, store, proc, bundle, damaged>>

\* The process is killed; what it has written stays.
Crash(p) ==
  /\ proc[p].at # "idle"
  /\ Fault /\ Leave(p) /\ StoresUnchanged

-----------------------------------------------------------------------------
(* serve and cleanup.                                                      *)

Running(p) == proc[p].at \in {"serving", "stopping", "late"} /\ ~proc[p].hung
InFlight(p) == proc[p].put # 0 \/ proc[p].sweep # 0
ServeOnly == LeaseUnchanged /\ UNCHANGED <<schema, root, bundle, faults, damaged>>

\* A delivery stores its object under the lifecycle lease of this process.
PutObject(p, k) ==
  /\ proc[p].at = "serving" /\ proc[p].put = 0 /\ proc[p].sweep = 0
  /\ files[k] \in {"none", "good"}
  /\ files' = [files EXCEPT ![k] = "good"]
  /\ Become(p, [proc[p] EXCEPT !.put = k])
  /\ ServeOnly /\ UNCHANGED <<rows, queued>>

\* ... and commits its row, or fails and leaves the object behind.
CommitRow(p) ==
  /\ Running(p) /\ proc[p].put # 0
  /\ rows' \in {rows, rows \union {proc[p].put}}
  /\ Become(p, [proc[p] EXCEPT !.put = 0])
  /\ ServeOnly /\ UNCHANGED <<queued, files>>

\* The last message of a content goes, by the API or by a cleanup.
DeleteRow(p, k) ==
  /\ proc[p].at \in {"serving", "cleaning"} /\ k \in rows
  /\ rows' = rows \ {k} /\ queued' = queued \union {k}
  /\ ServeOnly /\ UNCHANGED <<files, proc>>

\* DeleteUnreferenced: the recheck behind the fence of this process ...
RecheckTask(p, k) ==
  /\ \/ proc[p].at = "serving" /\ k \in queued
     \/ proc[p].at = "sweeping" /\ k \in proc[p].page
  /\ proc[p].put = 0 /\ proc[p].sweep = 0
  /\ Become(p, [proc[p] EXCEPT !.sweep = IF k \in rows THEN 0 ELSE k, !.page = @ \ {k}])
  /\ queued' = IF k \in rows THEN queued \ {k} ELSE queued
  /\ ServeOnly /\ UNCHANGED <<rows, files>>

\* ... and the removal.
RemoveTask(p) ==
  /\ Running(p) \/ proc[p].at = "sweeping"
  /\ proc[p].sweep # 0
  /\ files' = [files EXCEPT ![proc[p].sweep] = "none"]
  /\ queued' = queued \ {proc[p].sweep}
  /\ Become(p, [proc[p] EXCEPT !.sweep = 0])
  /\ ServeOnly /\ UNCHANGED rows

\* The command lists one page of tasks, works it off and ends.
ListTasks(p) ==
  /\ proc[p].at = "cleaning"
  /\ \E page \in SUBSET queued :
       /\ Cardinality(page) = IF Cardinality(queued) < Batch THEN Cardinality(queued) ELSE Batch
       /\ Become(p, [proc[p] EXCEPT !.at = "sweeping", !.page = page])
  /\ ServeOnly /\ UNCHANGED <<rows, queued, files>>

CleanupEnds(p) ==
  /\ proc[p].at = "sweeping" /\ proc[p].sweep = 0 /\ proc[p].page = {}
  /\ Leave(p) /\ StoresUnchanged /\ UNCHANGED faults

\* A signal, or a service that ended by itself: ready is withdrawn, services are
\* cancelled and no connection is accepted any more.
Stop(p) ==
  /\ proc[p].at = "serving"
  /\ Goto(p, "stopping")
  /\ LeaseUnchanged /\ UNCHANGED faults /\ StoresUnchanged

\* A call of a delivery or a removal blocks for as long as it likes.
Hang(p) ==
  /\ proc[p].at = "stopping" /\ InFlight(p) /\ ~proc[p].hung
  /\ Become(p, [proc[p] EXCEPT !.hung = TRUE])
  /\ Fault /\ LeaseUnchanged /\ StoresUnchanged

\* All results are in.
StopComplete(p) ==
  /\ proc[p].at = "stopping" /\ ~InFlight(p)
  /\ Leave(p) /\ StoresUnchanged /\ UNCHANGED faults

\* The shutdown deadline: Run returns and releases the lease while a delivery or a
\* removal is still under way, and it may go on: closing the pool even waits for it.
Deadline(p) ==
  /\ proc[p].at = "stopping" /\ proc[p].hung
  /\ Become(p, [proc[p] EXCEPT !.at = "late", !.hung = FALSE])
  /\ lock' = IF lock = p THEN "free" ELSE lock
  /\ lapsed' = lapsed \union {p} /\ breached' = TRUE
  /\ StoresUnchanged /\ UNCHANGED faults

Exit(p) ==
  /\ proc[p].at = "late"
  /\ Leave(p) /\ StoresUnchanged /\ UNCHANGED faults

-----------------------------------------------------------------------------
(* Reconcile: first the rows, then the files, in bounded batches.          *)

ScanOnly == LeaseUnchanged /\ UNCHANGED <<database, root, bundle, faults, damaged>>

\* Mutant: the next page starts at the last key instead of after it, and stops there.
PageFrom(s, after) ==
  {k \in s : k > after + 1 /\ Cardinality({j \in s : j > after + 1 /\ j <= k}) <= Batch}

\* The next page of a set in key order, WHERE content_key > after ... LIMIT.
Page(s, after) ==
  {k \in s : k > after /\ Cardinality({j \in s : j > after /\ j <= k}) <= Batch}

AfterRows(s) == [s EXCEPT !.at = "files", !.after = 0]

FetchRows(p) ==
  LET s == proc[p]
      page == Page(rows, s.after)
  IN /\ s.at = "rows" /\ s.page = {}
     /\ Become(p, IF page = {} THEN AfterRows(s)
                  ELSE [s EXCEPT !.page = page, !.last = Cardinality(page) < Batch])
     /\ ScanOnly /\ UNCHANGED files

\* Verify one row of the page: a missing or corrupt object is unresolved.
VerifyRow(p) ==
  LET s == proc[p]
      k == Min(s.page)
      t == [s EXCEPT !.page = @ \ {k}, !.after = k,
                     !.unresolved = @ \/ files[k] # "good"]
  IN /\ s.at = "rows" /\ s.page # {}
     /\ Become(p, IF t.page = {} /\ s.last THEN AfterRows(t) ELSE t)
     /\ ScanOnly /\ UNCHANGED files

ScanFiles(p) ==
  LET s == proc[p]
      page == Page(Stored, s.after)
  IN /\ s.at = "files"
     /\ Become(p, IF page = {} THEN [s EXCEPT !.at = "scanned"]
                  ELSE [s EXCEPT !.at = "flush", !.page = page, !.after = Max(page)])
     /\ ScanOnly /\ UNCHANGED files

\* flush: ExistingContentKeys of the batch; the rest are orphans.
QueryKeys(p) ==
  /\ proc[p].at = "flush"
  /\ Become(p, [proc[p] EXCEPT !.at = "orphans", !.page = @ \ rows])
  /\ ScanOnly /\ UNCHANGED files

\* An orphan is deleted if orphans are to be repaired, and counted otherwise.
HandleOrphan(p) ==
  LET s == proc[p]
      k == Min(s.page)
  IN /\ s.at = "orphans"
     /\ IF s.page = {} THEN Goto(p, "files") /\ UNCHANGED files
        ELSE IF s.role = "repair"
        THEN /\ files' = [files EXCEPT ![k] = "none"]
             /\ Become(p, [s EXCEPT !.page = @ \ {k}])
        ELSE /\ Become(p, [s EXCEPT !.page = @ \ {k}, !.unresolved = TRUE])
             /\ UNCHANGED files
     /\ ScanOnly

\* Commands end here, successfully or with ErrInconsistentContent.
ScanEnds(p) ==
  /\ proc[p].at = "scanned"
  /\ proc[p].role = "backup" => proc[p].unresolved
  /\ Leave(p) /\ StoresUnchanged /\ UNCHANGED faults

-----------------------------------------------------------------------------
(* Backup.                                                                 *)

BackupOnly == LeaseUnchanged /\ UNCHANGED <<database, store, faults, damaged>>

\* Mutant: the bundle is written whatever the reconciliation found.
DumpAnyway(p) ==
  /\ proc[p].at = "scanned" /\ proc[p].role = "backup" /\ bundle = NoBundle
  /\ Become(p, [proc[p] EXCEPT !.at = "archive", !.part = [NoBundle EXCEPT
                                 !.rows = rows, !.queued = queued, !.intact = TRUE]])
  /\ BackupOnly /\ UNCHANGED bundle

\* With nothing unresolved and a free destination pg_dump writes into the partial
\* directory.
Dump(p) ==
  /\ proc[p].at = "scanned" /\ proc[p].role = "backup" /\ bundle = NoBundle
  /\ ~proc[p].unresolved
  /\ Become(p, [proc[p] EXCEPT !.at = "archive", !.part = [NoBundle EXCEPT
                                 !.rows = rows, !.queued = queued, !.intact = TRUE]])
  /\ BackupOnly /\ UNCHANGED bundle

DestinationTaken(p) ==
  /\ proc[p].at = "scanned" /\ proc[p].role = "backup" /\ bundle # NoBundle
  /\ ~proc[p].unresolved
  /\ Leave(p) /\ StoresUnchanged /\ UNCHANGED faults

\* WriteArchive copies every object and checks its digest on the way.
WriteArchive(p) ==
  /\ proc[p].at = "archive"
  /\ \A k \in Stored : files[k] = "good"
  /\ Become(p, [proc[p] EXCEPT !.at = "manifest", !.part.keys = Stored])
  /\ BackupOnly /\ UNCHANGED bundle

WriteManifest(p) ==
  /\ proc[p].at = "manifest"
  /\ Become(p, [proc[p] EXCEPT !.at = "publish", !.part.manifest = TRUE])
  /\ BackupOnly /\ UNCHANGED bundle

\* One rename makes the bundle visible; it fails if the name is taken by now.
Publish(p) ==
  /\ proc[p].at = "publish" /\ bundle = NoBundle
  /\ bundle' = proc[p].part
  /\ Goto(p, "published")
  /\ BackupOnly

BackupEnds(p) ==
  /\ proc[p].at = "published"
  /\ Leave(p) /\ StoresUnchanged /\ UNCHANGED faults

\* A write, a sync or the rename fails: the partial directory is removed.
BackupFails(p) ==
  /\ proc[p].at \in {"archive", "manifest", "publish"}
  /\ \/ Fault
     \/ proc[p].at = "archive" /\ (\E k \in Stored : files[k] = "bad") /\ UNCHANGED faults
     \/ proc[p].at = "publish" /\ bundle # NoBundle /\ UNCHANGED faults
  /\ Leave(p) /\ StoresUnchanged

\* The parent cannot be synced: the bundle is renamed back, if that works.
PublishFails(p) ==
  /\ proc[p].at = "published"
  /\ bundle' \in {NoBundle, bundle}
  /\ Fault /\ Leave(p)
  /\ UNCHANGED <<database, store, damaged>>

-----------------------------------------------------------------------------
(* Restore.                                                                *)

RestoreOnly == LeaseUnchanged /\ UNCHANGED <<bundle, faults, damaged>>

\* openVerifiedBundle: three entries, manifest, sizes and digests.
Verified == bundle.manifest /\ bundle.intact

VerifyBundle(p) ==
  /\ proc[p].at = "verify" /\ Verified
  /\ ~schema /\ root # "used"
  /\ Become(p, [proc[p] EXCEPT !.at = "extract", !.page = {}, !.part = NoBundle,
                               !.direct = (root = "empty")])
  /\ RestoreOnly /\ UNCHANGED <<database, store>>

RestoreRefused(p) ==
  /\ proc[p].at = "verify"
  /\ ~Verified \/ schema \/ root = "used"
  /\ Leave(p) /\ StoresUnchanged /\ UNCHANGED faults

\* RestoreArchive, object by object: into the empty root itself, or into a staging
\* directory beside it.
Extract(p, k) ==
  LET s == proc[p]
  IN /\ s.at = "extract" /\ k \in bundle.keys \ s.part.keys
     /\ Become(p, [s EXCEPT !.part.keys = @ \union {k}])
     /\ IF s.direct
          THEN files' = [files EXCEPT ![k] = "good"] /\ root' = "used"
          ELSE UNCHANGED store
     /\ RestoreOnly /\ UNCHANGED database

\* The archive is complete; staged content is renamed into place, if the place is
\* still free.
Install(p) ==
  LET s == proc[p]
  IN /\ s.at = "extract" /\ s.part.keys = bundle.keys
     /\ IF s.direct THEN UNCHANGED store
        ELSE /\ root = "absent"
             /\ root' = "used"
             /\ files' = [k \in Keys |-> IF k \in bundle.keys THEN "good" ELSE "none"]
     /\ Goto(p, "database")
     /\ RestoreOnly /\ UNCHANGED database

\* Extraction fails: what it wrote is removed, in place or with the staging root.
RestoreFails(p) ==
  LET s == proc[p]
  IN /\ s.at = "extract"
     /\ \/ Fault
        \/ ~s.direct /\ root # "absent" /\ s.part.keys = bundle.keys /\ UNCHANGED faults
     /\ IF s.direct
          THEN files' = [k \in Keys |-> "none"] /\ root' = "empty"
          ELSE UNCHANGED store
     /\ Leave(p)
     /\ UNCHANGED <<database, bundle, damaged>>

\* Mutant: the database is restored while the content is still being extracted.
RestoreDatabaseEarly(p) ==
  /\ proc[p].at \in {"extract", "database"} /\ ~schema
  /\ schema' = TRUE /\ rows' = bundle.rows /\ queued' = bundle.queued
  /\ Become(p, [proc[p] EXCEPT !.at = "rows", !.page = {}])
  /\ RestoreOnly /\ UNCHANGED store

\* Empty is asked again, then pg_restore runs in one transaction.  Reconcile follows.
RestoreDatabase(p) ==
  /\ proc[p].at = "database" /\ ~schema
  /\ schema' = TRUE /\ rows' = bundle.rows /\ queued' = bundle.queued
  /\ Become(p, [proc[p] EXCEPT !.at = "rows", !.page = {}])
  /\ RestoreOnly /\ UNCHANGED store

\* The database is not empty any more, or pg_restore fails: the content stays.
DatabaseFails(p) ==
  /\ proc[p].at = "database"
  /\ (schema /\ UNCHANGED faults) \/ Fault
  /\ Leave(p) /\ StoresUnchanged

-----------------------------------------------------------------------------
(* The surroundings.                                                       *)

AtRest == \A p \in Procs : proc[p].at = "idle"

\* An installation is lost; the operator starts over with an empty database and a
\* content root that is absent or an empty mount point.
Wipe ==
  /\ AtRest /\ bundle # NoBundle
  /\ schema' = FALSE /\ rows' = {} /\ queued' = {}
  /\ root' \in {"absent", "empty"} /\ files' = [k \in Keys |-> "none"]
  /\ damaged' = {}
  /\ UNCHANGED <<lock, proc, bundle, faults, lapsed, breached>>

\* An object is lost or corrupted, or the bundle is, while nothing runs.
Damage ==
  /\ AtRest /\ Fault
  /\ \/ \E k \in Stored, to \in {"none", "bad"} :
          /\ files' = [files EXCEPT ![k] = to]
          /\ damaged' = damaged \union {k}
          /\ UNCHANGED bundle
     \/ /\ bundle # NoBundle /\ bundle' = [bundle EXCEPT !.intact = FALSE]
        /\ UNCHANGED <<files, damaged>>
  /\ UNCHANGED <<database, root, lock, proc, lapsed, breached>>

Work(p) ==
  \/ \E k \in Keys : PutObject(p, k) \/ DeleteRow(p, k) \/ RecheckTask(p, k)
  \/ CommitRow(p) \/ RemoveTask(p) \/ Stop(p)

\* What a command or a stopping service does by itself.
Proceed(p) ==
  \/ Acquire(p, "serve") \/ Refused(p) \/ ListTasks(p) \/ CleanupEnds(p) \/ StopComplete(p) \/ Deadline(p) \/ Exit(p)
  \/ FetchRows(p) \/ VerifyRow(p) \/ ScanFiles(p) \/ QueryKeys(p) \/ HandleOrphan(p) \/ ScanEnds(p)
  \/ Dump(p) \/ DestinationTaken(p) \/ WriteArchive(p) \/ WriteManifest(p) \/ Publish(p) \/ BackupEnds(p)
  \/ BackupFails(p) \/ VerifyBundle(p) \/ RestoreRefused(p) \/ Install(p)
  \/ RestoreFails(p) \/ RestoreDatabase(p) \/ DatabaseFails(p)
  \/ \E k \in Keys : Extract(p, k)

Next ==
  \/ Migrate \/ Wipe \/ Damage
  \/ \E p \in Procs :
       \/ Work(p) \/ Proceed(p) \/ Hang(p) \/ Crash(p) \/ LoseSession(p) \/ PublishFails(p)
       \/ OpenStore(p) \/ \E role \in Roles : Acquire(p, role)

\* Commands run to their end, and so does what a service has begun unless it hangs.
Finish(p) ==
  \/ proc[p].at \in {"sweeping", "stopping"} /\ (CommitRow(p) \/ RemoveTask(p))
  \/ proc[p].at = "sweeping" /\ \E k \in Keys : RecheckTask(p, k)
Fairness == \A p \in Procs : WF_vars(Proceed(p) \/ Finish(p))
Spec == Init /\ [][Next]_vars /\ Fairness

-----------------------------------------------------------------------------
(* Properties.                                                             *)

\* Two processes are at work together only if one of them has lost its session or
\* has outlived its shutdown deadline: the advisory lock excludes all others.
LeaseExcludes ==
  \A p, q \in Procs : p # q /\ AtWork(p) /\ AtWork(q) => p \in lapsed \/ q \in lapsed

\* As long as the lease was kept, no order of serving, cleaning, repairing, backing
\* up, losing everything and restoring leaves a row without its object.
RowsBacked ==
  breached \/ \A k \in rows : files[k] # "none" \/ k \in damaged

\* A bundle that can be seen is complete, and every row in its dump has its object in
\* its archive, whatever failed or was killed while it was written.
BundleSound ==
  bundle # NoBundle => bundle.manifest /\ (breached \/ bundle.rows \subseteq bundle.keys)

\* When a scan ends without an unresolved finding, rows and objects correspond,
\* although it read them page by page and deleted on the way.
CleanScanTells ==
  \A p \in Procs :
    proc[p].at = "scanned" /\ ~proc[p].unresolved /\ ~breached
      => /\ Stored = rows
         /\ \A k \in rows : files[k] = "good"

\* A command, and a service that was told to stop, gives the lock back, even if a
\* delivery it waits for never ends.
LeaseComesFree ==
  \A p \in Procs : (lock = p /\ proc[p].at # "serving") ~> (lock # p)

\* The lease is held for the complete lifetime of a process's work.
LeaseForLifetime == \A p \in Procs : AtWork(p) => lock = p
=============================================================================
