---------------------------- MODULE ContentStore ----------------------------
(***************************************************************************)
(* The content-addressed file store: concurrent puts that stage, sync and  *)
(* link an object, the deletion that unlinks it behind the lifecycle lock, *)
(* the reservation of free space, killed processes and lost power.         *)
(*                                                                         *)
(* A directory is modelled twice: the entries the running system shows     *)
(* (names) and the entries that are on disk (disk).  Syncing a directory   *)
(* makes them agree; after a power loss an entry on which they differ is   *)
(* there or not.  Objects lie in directories of their own, as the fan-out  *)
(* of 65536 directories makes nearly certain.                              *)
(***************************************************************************)
EXTENDS Integers, FiniteSets, FiniteSetsExt

CONSTANTS
  Keys,          \* content keys a source may turn out to have
  TooLarge,      \* stands for a source of more than MaxBytes bytes
  Writers,       \* deliveries that call PutLeased
  SizeOf,        \* bytes of the object behind a key
  MaxBytes,      \* Options.MaxBytes
  MinFreeBytes,  \* Options.MinFreeBytes
  Capacity,      \* free bytes of the empty store
  MaxFaults,     \* bound on failing system calls and killed processes
  MaxOutages     \* bound on power losses

ASSUME StoreAssumption ==
  /\ TooLarge \notin Keys /\ "idle" \notin Keys
  /\ MaxBytes \in Nat \ {0}
  /\ SizeOf \in [Keys -> 0..MaxBytes]
  /\ MinFreeBytes \in Nat
  /\ Capacity \in Nat /\ Capacity >= MinFreeBytes
  /\ MaxFaults \in Nat /\ MaxOutages \in Nat

VARIABLES
  names,     \* objects the running system shows
  disk,      \* objects whose directory entry is on disk
  cached,    \* objects linked before their bytes were synced
  writer,    \* one record per delivery
  reserved,  \* Store.reservedBytes
  deleter,   \* the key whose removal is not synced yet, or "idle"
  pinned,    \* objects that still have a staging link
  leaked,    \* bytes of staging files nobody will remove
  faults, outages,
  gone,      \* history: the last deletion of the key returned nil, no put since
  unsynced,  \* history: the last removal of the key was not followed by its sync
  overshot,  \* history: staging files left behind that were one byte too large
  returned   \* history: <<k, own>>, a put of k returned and k was not removed since

history == <<gone, unsynced, overshot, returned>>
bounds == <<faults, outages>>
vars == <<names, disk, cached, writer, reserved, deleter, pinned, leaked, bounds, history>>

\* Progress of put.  A writer holds the lifecycle read lease unless it is idle;
\* at "stored" put has returned and the delivery goes on to its transaction.
ActivePoints ==
  {"reserved", "written", "synced", "ready", "linked", "exists", "installed"}
NoPut == [pc |-> "idle", key |-> TooLarge, whole |-> FALSE, own |-> FALSE]

\* Every part of the store keeps its shape, and reservations never go negative.
TypeOK ==
  /\ names \subseteq Keys /\ disk \subseteq Keys /\ cached \subseteq Keys
  /\ writer \in [Writers -> [pc : ActivePoints \union {"idle", "stored"},
                             key : Keys \union {TooLarge}, whole : BOOLEAN, own : BOOLEAN]]
  /\ reserved \in Nat
  /\ deleter \in Keys \union {"idle"}
  /\ pinned \subseteq Keys
  /\ leaked \in Nat
  /\ faults \in 0..MaxFaults /\ outages \in 0..MaxOutages
  /\ gone \subseteq Keys /\ unsynced \subseteq Keys
  /\ overshot \in Nat
  /\ returned \subseteq Keys \X BOOLEAN

Init ==
  /\ names = {} /\ disk = {} /\ cached = {}
  /\ writer = [w \in Writers |-> NoPut]
  /\ reserved = 0
  /\ deleter = "idle"
  /\ pinned = {}
  /\ leaked = 0
  /\ faults = 0 /\ outages = 0
  /\ gone = {} /\ unsynced = {} /\ overshot = 0 /\ returned = {}

-----------------------------------------------------------------------------
(* Free space.                                                             *)

\* The copy stops one byte after the limit.
Written(k) == IF k = TooLarge THEN MaxBytes + 1 ELSE SizeOf[k]

\* Writers whose staging file does not share its bytes with an object.
Staging ==
  {w \in Writers : \/ writer[w].pc \in {"written", "synced", "ready", "exists"}
                   \/ writer[w].pc = "installed" /\ ~writer[w].own}

\* Sources that were cut off one byte after the limit.
Overshooting == {w \in Staging : writer[w].key = TooLarge}

StagedBytes == MapThenSumSet(LAMBDA w : Written(writer[w].key), Staging)
ObjectBytes == MapThenSumSet(LAMBDA k : SizeOf[k], names)
Available == Capacity - ObjectBytes - StagedBytes - leaked

-----------------------------------------------------------------------------
(* PutLeased and put.                                                      *)

Become(w, state) == writer' = [writer EXCEPT ![w] = state]
Advance(w, pc) == Become(w, [writer[w] EXCEPT !.pc = pc])
SyncDirectory(k) == disk' = IF k \in names THEN disk \union {k} ELSE disk \ {k}

\* The deferred calls of a put that fails: the reservation is given back and the
\* lease released.
Abort(w) ==
  /\ Become(w, NoPut)
  /\ reserved' = reserved - MaxBytes

\* Mutant: the check forgets what other puts have reserved.
HasRoomAlone == Available - MinFreeBytes >= MaxBytes

\* checkCapacityLocked for one write of maximal size.
HasRoom == Available - MinFreeBytes - reserved >= MaxBytes

\* RLock, which a pending or running deletion blocks, then reserve.
Reserve(w) ==
  /\ writer[w].pc = "idle"
  /\ deleter = "idle"
  /\ HasRoom
  /\ reserved' = reserved + MaxBytes
  /\ \E k \in Keys \union {TooLarge} : Become(w, [NoPut EXCEPT !.pc = "reserved", !.key = k])
  /\ UNCHANGED <<names, disk, cached, deleter, pinned, leaked, bounds, history>>

\* The source is copied into the staging file while it is hashed.
Copy(w) ==
  /\ writer[w].pc = "reserved"
  /\ Advance(w, "written")
  /\ UNCHANGED <<names, disk, cached, reserved, deleter, pinned, leaked, bounds, history>>

\* written > maxBytes: ErrContentTooLarge, the staging file is removed.
RejectTooLarge(w) ==
  /\ writer[w].pc = "written"
  /\ writer[w].key = TooLarge
  /\ Abort(w)
  /\ UNCHANGED <<names, disk, cached, deleter, pinned, leaked, bounds, history>>

\* Mutant: the staging file is closed without Sync.
SyncFileSkipped(w) ==
  /\ writer[w].pc = "written"
  /\ writer[w].key # TooLarge
  /\ Advance(w, "synced")
  /\ UNCHANGED <<names, disk, cached, reserved, deleter, pinned, leaked, bounds, history>>

SyncFile(w) ==
  /\ writer[w].pc = "written"
  /\ writer[w].key # TooLarge
  /\ Become(w, [writer[w] EXCEPT !.pc = "synced", !.whole = TRUE])
  /\ UNCHANGED <<names, disk, cached, reserved, deleter, pinned, leaked, bounds, history>>

\* MkdirAll and syncDirectoryTree: the object's directory is synced before the link.
SyncTree(w) ==
  /\ writer[w].pc = "synced"
  /\ SyncDirectory(writer[w].key)
  /\ Advance(w, "ready")
  /\ UNCHANGED <<names, cached, reserved, deleter, pinned, leaked, bounds, history>>

\* os.Link succeeds, or finds the object.
Link(w) ==
  LET k == writer[w].key IN
  /\ writer[w].pc = "ready"
  /\ \/ /\ k \notin names
        /\ names' = names \union {k}
        /\ cached' = IF writer[w].whole THEN cached ELSE cached \union {k}
        /\ Become(w, [writer[w] EXCEPT !.pc = "linked", !.own = TRUE])
        /\ gone' = gone \ {k}
        /\ unsynced' = unsynced \ {k}
     \/ /\ k \in names
        /\ Advance(w, "exists")
        /\ UNCHANGED <<names, cached, gone, unsynced>>
  /\ UNCHANGED <<disk, reserved, deleter, pinned, leaked, bounds, overshot, returned>>

\* Mutant: the directory is not synced after the link.
SyncLinkSkipped(w) ==
  /\ writer[w].pc = "linked"
  /\ Advance(w, "installed")
  /\ UNCHANGED <<names, disk, cached, reserved, deleter, pinned, leaked, bounds, history>>

SyncLink(w) ==
  /\ writer[w].pc = "linked"
  /\ SyncDirectory(writer[w].key)
  /\ Advance(w, "installed")
  /\ UNCHANGED <<names, cached, reserved, deleter, pinned, leaked, bounds, history>>

\* Stat and Verify of the object that was there.
VerifyExisting(w) ==
  /\ writer[w].pc = "exists"
  /\ Advance(w, "installed")
  /\ UNCHANGED <<names, disk, cached, reserved, deleter, pinned, leaked, bounds, history>>

\* The staging link is removed, put returns the reference and its reservation.
Unstage(w) ==
  /\ writer[w].pc = "installed"
  /\ Advance(w, "stored")
  /\ reserved' = reserved - MaxBytes
  /\ returned' = returned \union {<<writer[w].key, writer[w].own>>}
  /\ UNCHANGED <<names, disk, cached, deleter, pinned, leaked, bounds, gone, unsynced, overshot>>

\* The delivery has ended its transaction.
Release(w) ==
  /\ writer[w].pc = "stored"
  /\ Become(w, NoPut)
  /\ UNCHANGED <<names, disk, cached, reserved, deleter, pinned, leaked, bounds, history>>

\* What stays behind when staging files are not removed: bytes nobody uses, and
\* second links to objects.
LeftBytes(W) == MapThenSumSet(LAMBDA w : Written(writer[w].key), W \intersect Staging)
LeftLinks(W) ==
  {writer[w].key : w \in {v \in W : writer[v].pc \in {"linked", "installed"} /\ writer[v].own}}

\* A system call fails or the context ends.  The staging file is removed, except
\* after a failed sync of the object's directory or a failed removal.
PutFails(w) ==
  /\ writer[w].pc \in ActivePoints
  /\ faults < MaxFaults
  /\ faults' = faults + 1
  /\ Abort(w)
  /\ \/ /\ writer[w].pc # "linked"
        /\ UNCHANGED <<leaked, pinned>>
     \/ /\ writer[w].pc \in {"linked", "installed"}
        /\ leaked' = leaked + LeftBytes({w})
        /\ pinned' = pinned \union LeftLinks({w})
  /\ UNCHANGED <<names, disk, cached, deleter, outages, history>>

-----------------------------------------------------------------------------
(* Delete and DeleteUnreferenced, once the object may go.                  *)

\* The write lock waits for every lease.
Unleased == \A w \in Writers : writer[w].pc = "idle"

\* deleteLocked up to its directory sync: a missing object is no error.
Remove(k) ==
  /\ deleter = "idle"
  /\ Unleased
  /\ \/ /\ k \notin names
        /\ gone' = gone \union {k}
        /\ UNCHANGED <<names, cached, deleter, pinned, leaked, unsynced, returned>>
     \/ /\ k \in names
        /\ names' = names \ {k}
        /\ cached' = cached \ {k}
        /\ deleter' = k
        /\ pinned' = pinned \ {k}
        /\ leaked' = IF k \in pinned THEN leaked + SizeOf[k] ELSE leaked
        /\ unsynced' = unsynced \ {k}
        /\ returned' = returned \ ({k} \X BOOLEAN)
        /\ UNCHANGED gone
  /\ UNCHANGED <<disk, writer, reserved, bounds, overshot>>

\* Mutant: deleteLocked returns without syncing the directory.
SyncRemovalSkipped ==
  /\ deleter # "idle"
  /\ deleter' = "idle"
  /\ gone' = gone \union {deleter}
  /\ UNCHANGED <<names, disk, cached, writer, reserved, pinned, leaked, bounds,
                 unsynced, overshot, returned>>

SyncRemoval ==
  /\ deleter # "idle"
  /\ SyncDirectory(deleter)
  /\ deleter' = "idle"
  /\ gone' = gone \union {deleter}
  /\ UNCHANGED <<names, cached, writer, reserved, pinned, leaked, bounds,
                 unsynced, overshot, returned>>

\* The sync fails: the caller keeps its task, and the object is already unlinked.
SyncRemovalFails ==
  /\ deleter # "idle"
  /\ faults < MaxFaults
  /\ faults' = faults + 1
  /\ deleter' = "idle"
  /\ unsynced' = unsynced \union {deleter}
  /\ UNCHANGED <<names, disk, cached, writer, reserved, pinned, leaked, outages, gone,
                 overshot, returned>>

-----------------------------------------------------------------------------
(* The process ends: whatever it held in memory is gone, its staging files *)
(* stay.  Open does not look at them.                                      *)

Halt ==
  /\ writer' = [w \in Writers |-> NoPut]
  /\ reserved' = 0
  /\ deleter' = "idle"
  /\ unsynced' = unsynced \union ({deleter} \intersect Keys)
  /\ overshot' = overshot + Cardinality(Overshooting)
  /\ UNCHANGED <<gone, returned>>

Kill ==
  /\ faults < MaxFaults
  /\ faults' = faults + 1
  /\ Halt
  /\ leaked' = leaked + LeftBytes(Writers)
  /\ pinned' = pinned \union LeftLinks(Writers)
  /\ UNCHANGED <<names, disk, cached, outages>>

\* An entry that is not on disk yet, or not off it, may go either way.  Staging
\* files are taken to stay, the worst case for free space.
PowerLoss ==
  /\ outages < MaxOutages
  /\ outages' = outages + 1
  /\ \E left \in SUBSET (names \union disk) :
        /\ names \intersect disk \subseteq left
        /\ names' = left
        /\ disk' = left
        /\ cached' = cached \intersect left
        /\ LET links == pinned \union LeftLinks(Writers) IN
           /\ pinned' = links \intersect left
           /\ leaked' = leaked + LeftBytes(Writers)
                       + MapThenSumSet(LAMBDA k : SizeOf[k], links \ left)
  /\ Halt
  /\ UNCHANGED faults

WriterStep(w) ==
  \/ Reserve(w) \/ Copy(w) \/ RejectTooLarge(w) \/ SyncFile(w) \/ SyncTree(w) \/ Link(w)
  \/ SyncLink(w) \/ VerifyExisting(w) \/ Unstage(w) \/ Release(w) \/ PutFails(w)

Next ==
  \/ \E w \in Writers : WriterStep(w)
  \/ \E k \in Keys : Remove(k)
  \/ SyncRemoval \/ SyncRemovalFails
  \/ Kill \/ PowerLoss

Spec == Init /\ [][Next]_vars

-----------------------------------------------------------------------------
(* Properties.                                                             *)

\* An object file appears under its key only after its bytes were synced
\* (staging.Sync before os.Link), whichever of several puts links it.
ObjectsWhole == cached = {}

\* An object that a put linked itself and returned is there, through killed
\* processes and power losses, until a deletion removes it.
InstalledSurvives == \A k \in Keys : <<k, TRUE>> \in returned => k \in names

\* The same for every put that returned, also one that found the object linked
\* by another put: what the comments on Put and put promise.
PutIsDurable == \A r \in returned : r[1] \in names

\* An object whose deletion returned nil does not come back with a power loss,
\* unless an earlier try had unlinked it and then failed to sync.
DeletionSticks == \A k \in gone \ unsynced : k \notin names

\* Concurrent puts leave MinFreeBytes free, up to the one byte by which each
\* source that turns out too large overshoots its reservation.  A power loss ends
\* the guarantee: it may bring back a file whose space was counted as free.
FloorHolds ==
  outages = 0 => Available + Cardinality(Overshooting) + overshot >= MinFreeBytes
=============================================================================
