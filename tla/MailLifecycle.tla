--------------------------- MODULE MailLifecycle ---------------------------
(***************************************************************************)
(* The life of a Raw MIME object: LMTP deliveries that store the object    *)
(* first and commit metadata second, API requests that delete Messages and *)
(* Inboxes, and the retention sweeper that removes expired Inboxes and     *)
(* physically deletes objects from a durable queue.                        *)
(*                                                                         *)
(* PostgreSQL (READ COMMITTED) is modelled one statement per step.  A      *)
(* transaction's writes live in its own process record until it commits;   *)
(* its row locks follow from the record's pc, and a statement that would   *)
(* wait for a lock is simply not enabled.  The object files survive a      *)
(* crash of the process; transactions and the in-process fence do not.     *)
(***************************************************************************)
EXTENDS Naturals, FiniteSets, FiniteSetsExt

CONSTANTS
  Inboxes,               \* Inbox rows that exist at the start
  Contents,              \* content keys, numbers so that they have an order
  Deliveries,            \* LMTP transactions that reach Receiver.Receive
  Requests,              \* API requests that delete an Inbox or a Message
  Sweeper,               \* the retention job
  SizeBytes,             \* size of the object behind a content key
  MaxInboxMessages,      \* DeliveryLimits.MaxInboxMessages
  MaxInboxStorageBytes,  \* DeliveryLimits.MaxInboxStorageBytes
  BatchSize,             \* RetentionOptions.BatchSize
  MaxFaults,             \* bound on injected failures and crashes
  LateCommits            \* may a COMMIT take effect after its caller gave up?

ASSUME LifecycleAssumption ==
  /\ Contents \subseteq Nat
  /\ SizeBytes \in [Contents -> Nat]
  /\ MaxInboxMessages \in Nat \ {0}
  /\ MaxInboxStorageBytes \in Nat \ {0}
  /\ BatchSize \in Nat \ {0}
  /\ MaxFaults \in Nat
  /\ LateCommits \in BOOLEAN
  /\ Sweeper \notin Requests
  /\ Deliveries \intersect (Requests \union {Sweeper}) = {}

VARIABLES
  inboxes,                 \* row of each Inbox: active, expired or deleted
  mail_contents,           \* keys with a committed mail_contents row
  messages,                \* committed messages rows
  content_deletion_queue,  \* committed generation per key, 0 for no row
  objects,                 \* keys with a file below objects/
  delivery,                \* one record per LMTP transaction
  deletion,                \* one record per deleting transaction
  sweep,                   \* progress of Retention.Sweep
  faults,                  \* failures injected so far
  orphaned                 \* history: keys a failed delivery left without a row

db == <<inboxes, mail_contents, messages, content_deletion_queue>>
vars == <<inboxes, mail_contents, messages, content_deletion_queue, objects,
          delivery, deletion, sweep, faults, orphaned>>

Message == [by : Deliveries, inbox : Inboxes, key : Contents]
Deleters == Requests \union {Sweeper}

\* Program points of a delivery.  It holds the lifecycle read lease from "put"
\* to "committed"; its Inbox rows are locked from "locked" to "inserted".  In
\* "limbo" the server decides about a COMMIT whose caller gave up, and a delivery
\* that it committed then stays "late".
LeasePoints == {"put", "begun", "locked", "reuse", "insert", "inserted", "committed"}
StoredPoints == LeasePoints \ {"put", "committed"}
DeliveryLocks == {"locked", "reuse", "insert", "inserted", "limbo"}
DeliveryPoints == LeasePoints \union {"idle", "limbo", "late", "done"}
\* Reply classes: 452 counts as 451 (try again), 554 as 552 (the mail is refused).
Replies == {"none", "250", "550", "552", "451", "lost"}

DeletionLocks == {"locked", "removed", "pruning"}
DeletionPoints == DeletionLocks \union {"idle", "begun", "done"}
SweepPoints == {"cleanup", "list", "next", "fence", "remove", "ack"}
Task == [key : Contents, generation : Nat]
NoItem == [key |-> 0, generation |-> 0]

NoDelivery ==
  [pc |-> "idle", key |-> 0, rcpt |-> {}, fresh |-> FALSE, reply |-> "none"]
NoDeletion ==
  [pc |-> "idle", inboxes |-> {}, msgs |-> {}, refs |-> {}, gone |-> {}, dropped |-> {}]

DeliveryRecord ==
  [pc : DeliveryPoints, key : Contents \union {0}, rcpt : SUBSET Inboxes,
   fresh : BOOLEAN, reply : Replies]
DeletionRecord ==
  [pc : DeletionPoints, inboxes : SUBSET Inboxes, msgs : SUBSET Message,
   refs : SUBSET Contents, gone : SUBSET Message, dropped : SUBSET Contents]
SweepRecord ==
  [pc : SweepPoints, page : SUBSET Task, item : Task \union {NoItem}]

\* Tables, process records and the sweep keep their shape: a content reference
\* is never a message, a generation never negative, a program point never lost.
TypeOK ==
  /\ inboxes \in [Inboxes -> {"active", "expired", "deleted"}]
  /\ mail_contents \subseteq Contents
  /\ messages \subseteq Message
  /\ content_deletion_queue \in [Contents -> Nat]
  /\ objects \subseteq Contents
  /\ delivery \in [Deliveries -> DeliveryRecord]
  /\ deletion \in [Deleters -> DeletionRecord]
  /\ sweep \in SweepRecord
  /\ faults \in Nat
  /\ orphaned \subseteq Contents

Init ==
  /\ inboxes = [i \in Inboxes |-> "active"]
  /\ mail_contents = {}
  /\ messages = {}
  /\ content_deletion_queue = [c \in Contents |-> 0]
  /\ objects = {}
  /\ delivery = [d \in Deliveries |-> NoDelivery]
  /\ deletion = [x \in Deleters |-> NoDeletion]
  /\ sweep = [pc |-> "cleanup", page |-> {}, item |-> NoItem]
  /\ faults = 0
  /\ orphaned = {}

-----------------------------------------------------------------------------
(* Row locks and uncommitted writes, as other transactions meet them.      *)

\* SELECT ... FOR UPDATE on an inboxes row.
InboxLocked(i) ==
  \/ \E d \in Deliveries : delivery[d].pc \in DeliveryLocks /\ i \in delivery[d].rcpt
  \/ \E x \in Deleters : deletion[x].pc \in DeletionLocks /\ i \in deletion[x].inboxes

\* A messages row that a transaction other than x locked or deleted.
MessageLocked(m, x) ==
  \E y \in Deleters \ {x} :
    deletion[y].pc \in DeletionLocks /\ m \in deletion[y].msgs \union deletion[y].gone

\* FOR KEY SHARE, taken by the foreign key check of an inserted message.
ContentShared(c) ==
  \E d \in Deliveries : delivery[d].pc \in {"inserted", "limbo"} /\ delivery[d].key = c

\* FOR UPDATE or DELETE on a mail_contents row by a transaction other than x.
ContentExclusive(c, x) ==
  \E y \in Deleters \ {x} :
    /\ deletion[y].pc \in DeletionLocks
    /\ c \in deletion[y].dropped \union {m.key : m \in deletion[y].msgs}

\* A mail_contents row inserted by a delivery that has not committed.
ContentInserted(c) ==
  \E d \in Deliveries :
    delivery[d].pc \in {"insert", "inserted", "limbo"} /\ delivery[d].fresh /\ delivery[d].key = c

\* A mail_contents row deleted, and its queue row written, by an open transaction.
ContentDropped(c) ==
  \E x \in Deleters : deletion[x].pc \in DeletionLocks /\ c \in deletion[x].dropped

InboxMessages(i) == {m \in messages : m.inbox = i}
StorageBytes(i) == MapThenSumSet(LAMBDA m : SizeBytes[m.key], InboxMessages(i))

-----------------------------------------------------------------------------
(* Receiver.Receive and DeliveryRepository.CommitDelivery.                 *)

Advance(d, pc) == delivery' = [delivery EXCEPT ![d] = [@ EXCEPT !.pc = pc]]

\* The transaction ends with a reply and the read lease is released.
Answer(d, reply) ==
  delivery' = [delivery EXCEPT ![d] = [@ EXCEPT !.pc = "done", !.reply = reply]]

\* An object whose delivery ends without a row has no owner but the reconciler.
LeaveObject(d) ==
  orphaned' = orphaned \union ({delivery[d].key} \ mail_contents)

\* A pending DeleteUnreferenced blocks new readers of the RWMutex.
FencePending == sweep.pc \in {"fence", "remove"}

\* PutLeased takes the read lease; the recipients were resolved at RCPT.
Receive(d) ==
  /\ delivery[d].pc = "idle"
  /\ ~FencePending
  /\ \E c \in Contents, R \in SUBSET {i \in Inboxes : inboxes[i] = "active"} :
       /\ R # {}
       /\ delivery' = [delivery EXCEPT ![d] = [@ EXCEPT !.pc = "put", !.key = c, !.rcpt = R]]
  /\ UNCHANGED <<db, objects, deletion, sweep, faults, orphaned>>

\* put links or verifies the object, then BEGIN fixes now() for the expiry check.
Put(d) ==
  /\ delivery[d].pc = "put"
  /\ objects' = objects \union {delivery[d].key}
  /\ \/ /\ \A i \in delivery[d].rcpt : inboxes[i] = "active"
        /\ Advance(d, "begun")
        /\ UNCHANGED orphaned
     \/ /\ \E i \in delivery[d].rcpt : inboxes[i] # "active"
        /\ Answer(d, "550")
        /\ LeaveObject(d)
  /\ UNCHANGED <<db, deletion, sweep, faults>>

\* put fails before or after it linked the object (size, capacity, I/O).
PutFails(d) ==
  /\ delivery[d].pc = "put"
  /\ \/ /\ objects' = objects
        /\ \E reply \in {"552", "451"} : Answer(d, reply)
        /\ UNCHANGED orphaned
     \/ /\ objects' = objects \union {delivery[d].key}
        /\ Answer(d, "451")
        /\ LeaveObject(d)
  /\ UNCHANGED <<db, deletion, sweep, faults>>

WithinQuota(d) ==
  \A i \in delivery[d].rcpt :
    /\ Cardinality(InboxMessages(i)) < MaxInboxMessages
    /\ StorageBytes(i) + SizeBytes[delivery[d].key] <= MaxInboxStorageBytes

\* Mutant: the recipients are read without FOR UPDATE.
ReadRecipients(d) ==
  /\ delivery[d].pc = "begun"
  /\ IF (\A i \in delivery[d].rcpt : inboxes[i] # "deleted") /\ WithinQuota(d)
       THEN Advance(d, "locked") /\ UNCHANGED orphaned
       ELSE Answer(d, "552") /\ LeaveObject(d)
  /\ UNCHANGED <<db, objects, deletion, sweep, faults>>

\* lockAndCheckDeliveryRecipients: while the rows are locked no other delivery
\* adds to these Inboxes, so locking and reading their usage is one step.
LockRecipients(d) ==
  /\ delivery[d].pc = "begun"
  /\ \A i \in delivery[d].rcpt : ~InboxLocked(i)
  /\ \/ /\ \E i \in delivery[d].rcpt : inboxes[i] = "deleted"
        /\ Answer(d, "550")
        /\ LeaveObject(d)
     \/ /\ \A i \in delivery[d].rcpt : inboxes[i] # "deleted"
        /\ ~WithinQuota(d)
        /\ Answer(d, "552")
        /\ LeaveObject(d)
     \/ /\ \A i \in delivery[d].rcpt : inboxes[i] # "deleted"
        /\ WithinQuota(d)
        /\ Advance(d, "locked")
        /\ UNCHANGED orphaned
  /\ UNCHANGED <<db, objects, deletion, sweep, faults>>

\* INSERT INTO mail_contents ... ON CONFLICT DO NOTHING waits for an open
\* transaction that inserts or deletes the row, and takes no lock on a row
\* that is already there.
InsertContent(d) ==
  LET c == delivery[d].key IN
  /\ delivery[d].pc = "locked"
  /\ ~ContentInserted(c) /\ ~ContentDropped(c)
  /\ delivery' = [delivery EXCEPT
       ![d] = [@ EXCEPT !.pc = IF c \in mail_contents THEN "reuse" ELSE "insert",
                        !.fresh = c \notin mail_contents]]
  /\ UNCHANGED <<db, objects, deletion, sweep, faults, orphaned>>

\* SELECT size_bytes: the row may be gone again.  A key determines its size, so
\* the metadata conflict of the source cannot arise.
ReadExistingSize(d) ==
  /\ delivery[d].pc = "reuse"
  /\ \/ /\ delivery[d].key \in mail_contents
        /\ Advance(d, "insert")
        /\ UNCHANGED orphaned
     \/ /\ delivery[d].key \notin mail_contents
        /\ Answer(d, "451")
        /\ LeaveObject(d)
  /\ UNCHANGED <<db, objects, deletion, sweep, faults>>

\* INSERT INTO messages: the foreign key check locks the mail_contents row, or
\* fails with 23503, which mapDeliveryError turns into ErrInboxNotFound.
InsertMessages(d) ==
  LET c == delivery[d].key IN
  /\ delivery[d].pc = "insert"
  /\ delivery[d].fresh \/ ~ContentExclusive(c, d)
  /\ \/ /\ delivery[d].fresh \/ c \in mail_contents
        /\ Advance(d, "inserted")
        /\ UNCHANGED orphaned
     \/ /\ ~delivery[d].fresh /\ c \notin mail_contents
        /\ Answer(d, "550")
        /\ LeaveObject(d)
  /\ UNCHANGED <<db, objects, deletion, sweep, faults>>

\* Mutant: the loop over the recipients returns after the first row.
ApplyFirstRecipient(d) ==
  LET c == delivery[d].key IN
  /\ mail_contents' = mail_contents \union {c}
  /\ \E i \in delivery[d].rcpt : messages' = messages \union {[by |-> d, inbox |-> i, key |-> c]}
  /\ orphaned' = orphaned \ {c}
  /\ UNCHANGED <<inboxes, content_deletion_queue>>

\* The effect of the delivery's COMMIT on the tables.
Apply(d) ==
  LET c == delivery[d].key IN
  /\ mail_contents' = mail_contents \union {c}
  /\ messages' = messages \union {[by |-> d, inbox |-> i, key |-> c] : i \in delivery[d].rcpt}
  /\ orphaned' = orphaned \ {c}
  /\ UNCHANGED <<inboxes, content_deletion_queue>>

\* COMMIT; its locks are gone, the lease is held and nobody was told.
CommitDelivery(d) ==
  /\ delivery[d].pc = "inserted"
  /\ Apply(d)
  /\ Advance(d, "committed")
  /\ UNCHANGED <<objects, deletion, sweep, faults>>

\* Receive returns, which releases the lease, and the session replies.
ReplyDelivered(d) ==
  /\ delivery[d].pc = "committed"
  /\ Answer(d, "250")
  /\ UNCHANGED <<db, objects, deletion, sweep, faults, orphaned>>

\* The connection is gone when the session replies.
ReplyLost(d) ==
  /\ delivery[d].pc = "committed"
  /\ faults < MaxFaults
  /\ faults' = faults + 1
  /\ Answer(d, "lost")
  /\ UNCHANGED <<db, objects, deletion, sweep, orphaned>>

\* Commit reports an error although the server applied it.
CommitUnconfirmed(d) ==
  /\ delivery[d].pc = "inserted"
  /\ faults < MaxFaults
  /\ faults' = faults + 1
  /\ Apply(d)
  /\ Answer(d, "451")
  /\ UNCHANGED <<objects, deletion, sweep>>

\* Any statement fails (connection, timeout): rollback, 451.
DeliveryFails(d) ==
  /\ delivery[d].pc \in StoredPoints
  /\ faults < MaxFaults
  /\ faults' = faults + 1
  /\ Answer(d, "451")
  /\ LeaveObject(d)
  /\ UNCHANGED <<db, objects, deletion, sweep>>

\* The delivery timeout fires while COMMIT is under way: Receive returns and
\* releases the lease, the server decides later.
CommitAbandoned(d) ==
  /\ LateCommits
  /\ delivery[d].pc = "inserted"
  /\ faults < MaxFaults
  /\ faults' = faults + 1
  /\ delivery' = [delivery EXCEPT ![d] = [@ EXCEPT !.pc = "limbo", !.reply = "451"]]
  /\ UNCHANGED <<db, objects, deletion, sweep, orphaned>>

LateCommit(d) ==
  /\ delivery[d].pc = "limbo"
  /\ \/ Apply(d) /\ Advance(d, "late")
     \/ LeaveObject(d) /\ UNCHANGED db /\ Advance(d, "done")
  /\ UNCHANGED <<objects, deletion, sweep, faults>>

-----------------------------------------------------------------------------
(* DeleteInbox, DeleteMessage and the tail of CleanupExpiredInboxes, which  *)
(* removes a batch of Inboxes the way DeleteInbox removes one.             *)

\* A request is served once; the sweeper goes on.
Ended(x) == IF x = Sweeper THEN NoDeletion ELSE [NoDeletion EXCEPT !.pc = "done"]

End(x) == deletion' = [deletion EXCEPT ![x] = Ended(x)]

KeysIn(I) == {m.key : m \in {n \in messages : n.inbox \in I}}

\* BEGIN fixes now(): the Inbox must be unexpired here, but is locked later.
BeginDeleteInbox(x) ==
  /\ deletion[x].pc = "idle"
  /\ \E i \in Inboxes :
       /\ inboxes[i] = "active"
       /\ deletion' = [deletion EXCEPT ![x] = [@ EXCEPT !.pc = "begun", !.inboxes = {i}]]
  /\ UNCHANGED <<db, objects, delivery, sweep, faults, orphaned>>

BeginDeleteMessage(x) ==
  /\ deletion[x].pc = "idle"
  /\ \E m \in messages :
       /\ inboxes[m.inbox] = "active"
       /\ deletion' = [deletion EXCEPT ![x] = [@ EXCEPT !.pc = "begun", !.msgs = {m}]]
  /\ UNCHANGED <<db, objects, delivery, sweep, faults, orphaned>>

\* SELECT ... FOR UPDATE on the Inbox row, then the unlocked read of its keys.
LockInbox(x) ==
  LET I == deletion[x].inboxes IN
  /\ deletion[x].pc = "begun"
  /\ deletion[x].msgs = {}
  /\ \A i \in I : ~InboxLocked(i)
  /\ \/ /\ \E i \in I : inboxes[i] = "deleted"
        /\ End(x)
     \/ /\ \A i \in I : inboxes[i] # "deleted"
        /\ deletion' = [deletion EXCEPT ![x] = [@ EXCEPT !.pc = "locked", !.refs = KeysIn(I)]]
  /\ UNCHANGED <<db, objects, delivery, sweep, faults, orphaned>>

\* Mutant: the row is locked and its columns are not scanned, so that the
\* reference keeps its zero value.
LockMessageUnscanned(x) ==
  /\ deletion[x].pc = "begun"
  /\ \E m \in deletion[x].msgs :
       /\ m \in messages
       /\ deletion' = [deletion EXCEPT ![x] = [@ EXCEPT !.pc = "locked", !.refs = {0}]]
  /\ UNCHANGED <<db, objects, delivery, sweep, faults, orphaned>>

\* SELECT ... FOR UPDATE OF owned, content.
LockMessage(x) ==
  /\ deletion[x].pc = "begun"
  /\ \E m \in deletion[x].msgs :
       \/ /\ m \notin messages
          /\ End(x)
       \/ /\ m \in messages
          /\ ~MessageLocked(m, x) /\ ~ContentShared(m.key) /\ ~ContentExclusive(m.key, x)
          /\ deletion' = [deletion EXCEPT ![x] = [@ EXCEPT !.pc = "locked", !.refs = {m.key}]]
  /\ UNCHANGED <<db, objects, delivery, sweep, faults, orphaned>>

\* DELETE FROM messages, or DELETE FROM inboxes and its cascade.
RemoveRows(x) ==
  LET victims == {m \in messages : m \in deletion[x].msgs \/ m.inbox \in deletion[x].inboxes} IN
  /\ deletion[x].pc = "locked"
  /\ \A m \in victims : ~MessageLocked(m, x)
  /\ deletion' = [deletion EXCEPT ![x] = [@ EXCEPT !.pc = "removed", !.gone = victims]]
  /\ UNCHANGED <<db, objects, delivery, sweep, faults, orphaned>>

\* Messages with key c that the snapshot of x still shows.
References(c, x) == {m \in messages \ deletion[x].gone : m.key = c}

\* DELETE FROM mail_contents ... WHERE NOT EXISTS: the scan under the
\* statement's snapshot, in key order.  An open transaction's deletions are
\* not visible to it.
ScanContent(x) ==
  LET c == Min(deletion[x].refs) IN
  /\ deletion[x].pc = "removed"
  /\ deletion[x].refs # {}
  /\ \/ /\ c \in mail_contents /\ References(c, x) = {}
        /\ deletion' = [deletion EXCEPT ![x] = [@ EXCEPT !.pc = "pruning"]]
     \/ /\ c \notin mail_contents \/ References(c, x) # {}
        /\ deletion' = [deletion EXCEPT ![x] = [@ EXCEPT !.refs = deletion[x].refs \ {c}]]
  /\ UNCHANGED <<db, objects, delivery, sweep, faults, orphaned>>

\* The delete itself waits for the row.  The row may be gone, a message may
\* have been committed meanwhile (ON DELETE RESTRICT, or the deadlock its wait
\* for that message closes, fails the transaction), or the row goes and
\* enqueueContentDeletion writes its task.
DropContent(x) ==
  LET c == Min(deletion[x].refs) IN
  /\ deletion[x].pc = "pruning"
  /\ ~ContentShared(c) /\ ~ContentExclusive(c, x)
  /\ \/ /\ c \notin mail_contents
        /\ deletion' = [deletion EXCEPT
             ![x] = [@ EXCEPT !.pc = "removed", !.refs = deletion[x].refs \ {c}]]
     \/ /\ c \in mail_contents /\ References(c, x) # {}
        /\ End(x)
     \/ /\ c \in mail_contents /\ References(c, x) = {}
        /\ deletion' = [deletion EXCEPT
             ![x] = [@ EXCEPT !.pc = "removed", !.refs = deletion[x].refs \ {c},
                              !.dropped = deletion[x].dropped \union {c}]]
  /\ UNCHANGED <<db, objects, delivery, sweep, faults, orphaned>>

\* INSERT ... ON CONFLICT DO UPDATE SET generation = generation + 1.
Enqueue(dropped) ==
  content_deletion_queue' =
    [c \in Contents |-> content_deletion_queue[c] + (IF c \in dropped THEN 1 ELSE 0)]

\* A full batch makes Sweep clean up once more before it lists the queue.
AfterCleanup(x) ==
  IF x = Sweeper /\ Cardinality(deletion[x].inboxes) < BatchSize
  THEN sweep' = [sweep EXCEPT !.pc = "list"]
  ELSE UNCHANGED sweep

CommitDeletion(x) ==
  /\ deletion[x].pc = "removed"
  /\ deletion[x].refs = {}
  /\ inboxes' = [i \in Inboxes |-> IF i \in deletion[x].inboxes THEN "deleted" ELSE inboxes[i]]
  /\ messages' = messages \ deletion[x].gone
  /\ mail_contents' = mail_contents \ deletion[x].dropped
  /\ Enqueue(deletion[x].dropped)
  /\ End(x)
  /\ AfterCleanup(x)
  /\ UNCHANGED <<objects, delivery, faults, orphaned>>

\* Any statement fails: rollback.  A failed cleanup also ends the sweep.
DeletionFails(x) ==
  /\ deletion[x].pc \in DeletionLocks \union {"begun"}
  /\ faults < MaxFaults
  /\ faults' = faults + 1
  /\ End(x)
  /\ UNCHANGED <<db, objects, delivery, sweep, orphaned>>

-----------------------------------------------------------------------------
(* Retention.Sweep and Store.DeleteUnreferenced.                           *)

\* Mutant: only full batches are cleaned up.
BeginFullCleanup ==
  LET candidates == {i \in Inboxes : inboxes[i] = "expired" /\ ~InboxLocked(i)} IN
  /\ sweep.pc = "cleanup"
  /\ deletion[Sweeper].pc = "idle"
  /\ \/ /\ Cardinality(candidates) < BatchSize
        /\ sweep' = [sweep EXCEPT !.pc = "list"]
        /\ UNCHANGED deletion
     \/ \E I \in SUBSET candidates :
          /\ Cardinality(I) = BatchSize
          /\ deletion' = [deletion EXCEPT
               ![Sweeper] = [@ EXCEPT !.pc = "locked", !.inboxes = I, !.refs = KeysIn(I)]]
          /\ UNCHANGED sweep
  /\ UNCHANGED <<db, objects, delivery, faults, orphaned>>

\* CleanupExpiredInboxes: FOR UPDATE SKIP LOCKED LIMIT batch, then the read of
\* the batch's keys.  Which expired rows come first is left open.
BeginCleanup ==
  LET candidates == {i \in Inboxes : inboxes[i] = "expired" /\ ~InboxLocked(i)} IN
  /\ sweep.pc = "cleanup"
  /\ deletion[Sweeper].pc = "idle"
  /\ \/ /\ candidates = {}
        /\ sweep' = [sweep EXCEPT !.pc = "list"]
        /\ UNCHANGED deletion
     \/ \E I \in SUBSET candidates :
          /\ I # {}
          /\ Cardinality(I) = Min({BatchSize, Cardinality(candidates)})
          /\ deletion' = [deletion EXCEPT
               ![Sweeper] = [@ EXCEPT !.pc = "locked", !.inboxes = I, !.refs = KeysIn(I)]]
          /\ UNCHANGED sweep
  /\ UNCHANGED <<db, objects, delivery, faults, orphaned>>

\* ListContentDeletions: one bounded page.  enqueued_at is a transaction start
\* for a new row and a statement time for a repeated one, so no order of the
\* page follows from the order of commits.
ListDeletions ==
  LET rows == {[key |-> c, generation |-> content_deletion_queue[c]] :
                 c \in {k \in Contents : content_deletion_queue[k] > 0}} IN
  /\ sweep.pc = "list"
  /\ \E page \in SUBSET rows :
       /\ Cardinality(page) = Min({BatchSize, Cardinality(rows)})
       /\ sweep' = [sweep EXCEPT !.pc = "next", !.page = page]
  /\ UNCHANGED <<db, objects, delivery, deletion, faults, orphaned>>

\* The next task of the page calls DeleteUnreferenced, whose Lock stops new
\* deliveries; an empty page ends the sweep.
NextDeletion ==
  /\ sweep.pc = "next"
  /\ \/ /\ sweep.page = {}
        /\ sweep' = [sweep EXCEPT !.pc = "cleanup", !.item = NoItem]
     \/ \E task \in sweep.page :
          sweep' = [pc |-> "fence", page |-> sweep.page \ {task}, item |-> task]
  /\ UNCHANGED <<db, objects, delivery, deletion, faults, orphaned>>

Leased == {d \in Deliveries : delivery[d].pc \in LeasePoints}

\* Mutant: the recheck does not wait for the deliveries that hold the lease.
RecheckUnfenced ==
  /\ sweep.pc = "fence"
  /\ sweep' = [sweep EXCEPT !.pc = IF sweep.item.key \in mail_contents THEN "ack" ELSE "remove"]
  /\ UNCHANGED <<db, objects, delivery, deletion, faults, orphaned>>

\* Mutant: the task of a content that is referenced again is skipped, not
\* acknowledged.
RecheckSkipsReferenced ==
  /\ sweep.pc = "fence"
  /\ Leased = {}
  /\ sweep' = [sweep EXCEPT !.pc = IF sweep.item.key \in mail_contents THEN "next" ELSE "remove"]
  /\ UNCHANGED <<db, objects, delivery, deletion, faults, orphaned>>

\* Lock is granted once no delivery holds the read lease, then ContentReferenced
\* looks at the committed rows.
RecheckReference ==
  /\ sweep.pc = "fence"
  /\ Leased = {}
  /\ sweep' = [sweep EXCEPT !.pc = IF sweep.item.key \in mail_contents THEN "ack" ELSE "remove"]
  /\ UNCHANGED <<db, objects, delivery, deletion, faults, orphaned>>

\* deleteLocked; the fence is released.
RemoveObject ==
  /\ sweep.pc = "remove"
  /\ objects' = objects \ {sweep.item.key}
  /\ orphaned' = orphaned \ {sweep.item.key}
  /\ sweep' = [sweep EXCEPT !.pc = "ack"]
  /\ UNCHANGED <<db, delivery, deletion, faults>>

\* Mutant: the acknowledgement deletes the row whatever its generation.
AcknowledgeAnyGeneration ==
  /\ sweep.pc = "ack"
  /\ ~ContentDropped(sweep.item.key)
  /\ content_deletion_queue' = [content_deletion_queue EXCEPT ![sweep.item.key] = 0]
  /\ sweep' = [sweep EXCEPT !.pc = "next"]
  /\ UNCHANGED <<inboxes, mail_contents, messages, objects, delivery, deletion, faults, orphaned>>

\* AcknowledgeContentDeletion waits for an open transaction that writes the
\* same queue row and then compares the generation.
Acknowledge ==
  LET c == sweep.item.key IN
  /\ sweep.pc = "ack"
  /\ ~ContentDropped(c)
  /\ content_deletion_queue' =
       IF content_deletion_queue[c] = sweep.item.generation
       THEN [content_deletion_queue EXCEPT ![c] = 0]
       ELSE content_deletion_queue
  /\ sweep' = [sweep EXCEPT !.pc = "next"]
  /\ UNCHANGED <<inboxes, mail_contents, messages, objects, delivery, deletion, faults, orphaned>>

\* A failed recheck, removal or acknowledgement keeps the task and goes on with
\* the page; a removal may fail after the file is gone.
SweepStepFails ==
  /\ sweep.pc \in {"fence", "remove", "ack"}
  /\ sweep.pc = "fence" => Leased = {}
  /\ faults < MaxFaults
  /\ faults' = faults + 1
  /\ \/ UNCHANGED <<objects, orphaned>>
     \/ /\ sweep.pc = "remove"
        /\ objects' = objects \ {sweep.item.key}
        /\ orphaned' = orphaned \ {sweep.item.key}
  /\ sweep' = [sweep EXCEPT !.pc = "next"]
  /\ UNCHANGED <<db, delivery, deletion>>

\* ListContentDeletions fails or the sweep's timeout is over: Sweep returns.
SweepReturns ==
  /\ sweep.pc \in {"list", "next"}
  /\ faults < MaxFaults
  /\ faults' = faults + 1
  /\ sweep' = [pc |-> "cleanup", page |-> {}, item |-> NoItem]
  /\ UNCHANGED <<db, objects, delivery, deletion, orphaned>>

-----------------------------------------------------------------------------
(* The environment.                                                        *)

Expire(i) ==
  /\ inboxes[i] = "active"
  /\ inboxes' = [inboxes EXCEPT ![i] = "expired"]
  /\ UNCHANGED <<mail_contents, messages, content_deletion_queue, objects, delivery,
                 deletion, sweep, faults, orphaned>>

\* The process dies and is started again: the server rolls its transactions
\* back, the fence and the sweep's page are gone, files stay.
Crash ==
  /\ faults < MaxFaults
  /\ faults' = faults + 1
  /\ delivery' = [d \in Deliveries |->
       IF d \in Leased THEN [delivery[d] EXCEPT !.pc = "done", !.reply = "lost"] ELSE delivery[d]]
  /\ orphaned' = orphaned \union
       ({delivery[d].key : d \in {e \in Leased : delivery[e].pc \in StoredPoints}} \ mail_contents)
  /\ deletion' = [x \in Deleters |->
       IF deletion[x].pc \in {"idle", "done"} THEN deletion[x] ELSE Ended(x)]
  /\ sweep' = [pc |-> "cleanup", page |-> {}, item |-> NoItem]
  /\ UNCHANGED <<db, objects>>

DeliveryStep(d) ==
  \/ Put(d) \/ LockRecipients(d) \/ InsertContent(d) \/ ReadExistingSize(d)
  \/ InsertMessages(d) \/ CommitDelivery(d) \/ ReplyDelivered(d) \/ LateCommit(d)
DeliveryFault(d) ==
  \/ PutFails(d) \/ DeliveryFails(d) \/ CommitUnconfirmed(d) \/ CommitAbandoned(d) \/ ReplyLost(d)
DeletionStep(x) ==
  \/ RemoveRows(x) \/ ScanContent(x) \/ DropContent(x) \/ CommitDeletion(x)
RequestStep(x) == LockInbox(x) \/ LockMessage(x) \/ DeletionStep(x)
SweepStep ==
  \/ BeginCleanup \/ ListDeletions \/ NextDeletion \/ RecheckReference
  \/ RemoveObject \/ Acknowledge \/ DeletionStep(Sweeper)

Next ==
  \/ \E d \in Deliveries : Receive(d) \/ DeliveryStep(d) \/ DeliveryFault(d)
  \/ \E x \in Requests : BeginDeleteInbox(x) \/ BeginDeleteMessage(x) \/ RequestStep(x)
  \/ \E x \in Deleters : DeletionFails(x)
  \/ SweepStep
  \/ SweepStepFails
  \/ SweepReturns
  \/ \E i \in Inboxes : Expire(i)
  \/ Crash

Spec == Init /\ [][Next]_vars

\* Goroutines, server backends and the sweep ticker keep running; mail, API
\* calls, failures and the clock are not obliged to.
Fairness ==
  /\ \A d \in Deliveries : WF_vars(DeliveryStep(d))
  /\ \A x \in Requests : WF_vars(RequestStep(x))
  /\ WF_vars(SweepStep)

FairSpec == Spec /\ Fairness

-----------------------------------------------------------------------------
(* Properties.                                                             *)

Late(c) == \E d \in Deliveries : delivery[d].pc = "late" /\ delivery[d].key = c

\* A message leads to its mail_contents row and on to its object file, whatever
\* deliveries, deletions, sweeps and crashes interleave (PutLeased,
\* DeleteUnreferenced, the foreign keys).  The one exception is a message whose
\* COMMIT took effect after Receive gave up and released the lease: its object may
\* have been removed before, but no other message suffers from that.
MessagesReadable ==
  /\ \A m \in messages : m.key \in mail_contents
  /\ \A m \in messages : m.key \in objects \/ delivery[m.by].pc = "late"
  /\ \A c \in mail_contents \ objects : Late(c)

\* No Missing content at all: every mail_contents row has its object file.
NoMissingContent == mail_contents \subseteq objects

\* No leaked object: a file without a row is still in a delivery's hands, or has
\* a deletion task, or was left by a delivery that failed; a stale
\* acknowledgement never swallows the task of a newer orphaning.
ObjectsOwned ==
  \A c \in objects \ mail_contents :
    \/ \E d \in Deliveries : delivery[d].pc \in StoredPoints \union {"limbo"} /\ delivery[d].key = c
    \/ content_deletion_queue[c] > 0
    \/ c \in orphaned

\* Concurrent deliveries never push an Inbox over its limits: the usage is read
\* and the messages are committed under the Inbox row lock.
QuotasHold ==
  \A i \in Inboxes :
    /\ Cardinality(InboxMessages(i)) <= MaxInboxMessages
    /\ StorageBytes(i) <= MaxInboxStorageBytes

\* Every queued task is worked off: the object is removed, or found referenced
\* again, and the task is acknowledged.
QueueDrains ==
  \A c \in Contents : content_deletion_queue[c] > 0 ~> content_deletion_queue[c] = 0

\* Every expired Inbox is eventually removed although deliveries lock it.
ExpiredRemoved ==
  \A i \in Inboxes : inboxes[i] = "expired" ~> inboxes[i] = "deleted"

\* A mail_contents row without messages is not left behind by the transactions
\* that removed its messages.
NoStrandedContent ==
  (\A x \in Deleters : deletion[x].pc \in {"idle", "done"}) =>
    \A c \in mail_contents : \E m \in messages : m.key = c

\* The permanent reply "recipient no longer available" is given only when a
\* recipient is not available.
UnavailableMeansUnavailable ==
  \A d \in Deliveries :
    delivery[d].reply = "550" => \E i \in delivery[d].rcpt : inboxes[i] # "active"

\* A message is kept while its row leads to an object file; one that a late COMMIT
\* stored, while it has a row.
Kept ==
  {m \in messages : m.key \in mail_contents /\ (m.key \in objects \/ delivery[m.by].pc = "late")}
Copy(m) == [by |-> m.by, inbox |-> m.inbox]
UndecidedPoints == (LeasePoints \ {"committed"}) \union {"idle", "limbo"}

MB == INSTANCE Mailbox WITH
        inbox <- inboxes,
        to <- [d \in Deliveries |-> delivery[d].rcpt],
        undecided <- {d \in Deliveries : delivery[d].pc \in UndecidedPoints},
        stored <- {Copy(m) : m \in Kept},
        reply <- [d \in Deliveries |-> delivery[d].reply],
        asked <- [x \in Requests |-> [msgs |-> {Copy(m) : m \in deletion[x].msgs},
                                       inboxes |-> deletion[x].inboxes]]

\* The two-phase delivery, the statement-wise deletions and the sweeper together
\* behave like the atomic mailbox: one step stores a message for every recipient, 250
\* is said after it and perhaps never, and the message stays readable until a request
\* for it or its Inbox is granted or its Inbox has expired.  A crash, a removed file or
\* the deletion of another message with the same bytes takes nothing away.
ImplementsMailbox == MB!Spec
=============================================================================
