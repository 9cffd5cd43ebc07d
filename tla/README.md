# A TLA+ verification of MailWisp

MailWisp is a self-hosted service for temporary mail. Postfix hands a message to
its LMTP server; the raw message goes into a content-addressed file store, its
metadata into PostgreSQL; parser workers, a retention sweeper and an HTTP API
work on both. This directory holds TLA+ models of the parts in which order,
concurrency and failures matter, the TLC runs that check them on small instances
and TLAPS proofs of their main invariants. `PROJECT.json` lists components, runs,
mutants, hazards and, per definition, the source lines it models.

## 1. The system

| Part | Source | Interaction | Module |
| --- | --- | --- | --- |
| Delivery | `message/receiver.go`, `postgres/delivery_repository.go` | stores the object under a read lease, then commits rows | `MailLifecycle` |
| Deletion | `postgres/mailbox_repository.go` | removes rows and queues orphaned contents in one transaction | `MailLifecycle` |
| Retention sweeper | `jobs/retention.go` | removes expired Inboxes, works off the queue behind the write lease | `MailLifecycle` |
| Content store | `contentstore/store.go` | staging, sync, hard link, free-space reservation, deletion | `ContentStore` |
| Parser queue | `jobs/parser.go`, `postgres/content_parse_repository.go` | workers lease rows with a token, parse, settle | `ParseQueue` |
| LMTP server | `lmtp/` | command state machine, DATA, replies to Postfix | `LmtpSession` |
| Singleton lease, processes | `postgres/maintenance_lease.go`, `app/` | one process at a time, start, shutdown | `Maintenance` |
| Reconciliation | `contentstore/reconcile.go`, `postgres/content_catalog.go` | compares rows with files in batches | `Maintenance` |
| Backup, restore | `backup/`, `contentstore/archive.go`, `postgres/backup_tool.go` | bundle written, verified, restored | `Maintenance` |
| Capabilities, sessions | `auth/`, `postgres/inbox_capability_repository.go` | issue, authenticate, rotate, exchange for a cookie | `Credentials` |
| Inbox creation | `mailbox/service.go`, `abuse/`, `duckmail/`, `cloudflaretemp/`, `yyds/` | quota, address, capability, compensation, login | `Creation` |
| Message APIs | `httpapi/`, listing and numbering repositories | reads, marks, deletes and pages through four APIs | `MessageApi` |
| Web console | `web/src/useMailbox.ts`, `web/src/api/client.ts` | overlapping requests on one view | `Console` |
| MIME parser | `mail/` | bounded streaming parser | outcome only |
| Configuration, metrics, benchmark | `config/`, `telemetry/`, `bench/` | no state of the service | no |

(Paths without a prefix lie below `src/internal/`.)

## 2. What the modules model

### MailLifecycle

The central race of the system: a delivery links its object *before* its row
exists, a deletion removes rows *before* the object goes, and the sweeper decides
in between. One SQL statement is one step (READ COMMITTED). A transaction's
writes stay in its process record until it commits; its locks follow from its
program counter, and a statement that would wait is not enabled.

* `inboxes`, `mail_contents`, `messages`, `content_deletion_queue` are the
  committed tables, `objects` the files. `delivery`, `deletion` and `sweep` are
  the processes. `orphaned` is a history variable: objects a failed delivery left
  behind, which are the reconciler's business.
* `Receive`, `Put`, `LockRecipients`, `InsertContent`, `ReadExistingSize`,
  `InsertMessages`, `CommitDelivery` follow `Receiver.Receive` and
  `DeliveryRepository.CommitDelivery`. COMMIT and the reply are two steps
  (`ReplyDelivered`, `ReplyLost`), so a crash comes between them, as in the
  integration test for crashes; the lease is held up to the reply.
  `CommitUnconfirmed` is a commit whose answer is lost; `CommitAbandoned` and
  `LateCommit` are one that takes effect after the caller timed out, its lease is
  released and its sender was told 451 (with `LateCommits`).
* `BeginDeleteInbox` ... `CommitDeletion` are `DeleteInbox`, `DeleteMessage` and
  the tail of `CleanupExpiredInboxes`. The `DELETE ... WHERE NOT EXISTS` is two
  steps, the scan under the snapshot and the delete that waits for the row.
* `BeginCleanup`, `ListDeletions`, `NextDeletion`, `RecheckReference`,
  `RemoveObject`, `Acknowledge` are `Retention.Sweep` and
  `Store.DeleteUnreferenced`; the fence is Go's RWMutex, whose pending writer
  blocks new readers.
* `Crash` ends the process: transactions roll back, the fence is gone.

Abstractions. Reply codes are classes (452 counts as 451, 554 as 552). The
recipients' locks, and the two row locks of `DeleteMessage`, are taken in one
step. The check of the quota at RCPT is not repeated here, since the transaction
decides. The advisory lock of the cleanup is implied by the single sweeper. A key
determines its size. A deletion whose commit is not confirmed looks like one that
was confirmed or one that failed.

`Mailbox` is the abstract specification. A delivery is decided in one step, for all
its recipients or for none; 250 is said only of a stored message, and a delivery that
was answered with an error or not at all may have been stored. A stored message goes
only in two ways: `Grant`, the step of a request that had asked for this message or
this Inbox (`asked` is a variable of the specification), and `RemoveEnded`, after the
time of its Inbox is over. `ImplementsMailbox` states that `MailLifecycle` implements
it. The abstract messages are those whose row leads to an object file, so a file
removed too early would be a loss that no abstract step explains; only a message whose
own COMMIT took effect late counts by its row. A run checks it and
`MailboxImplemented` proves it, late commits included.

### ParseQueue

The parse columns of `mail_contents` and the worker goroutines. Time is reduced
to `due` (the retry delay is over) and `lapsed` (the lease is over). `Claim`,
`Parse`, `Finish`, `Release`, `Poll` follow `ClaimContent`, `processNext`,
`CompleteContent`/`RetryContent`/`FailContent`, `releaseAfterCancellation` and
the idle `select`. `Deliver` and `Remove` are what deliveries and deletions do to
the row. `Stall` suspends a process past its lease; `Shutdown`, `Restart`,
`Crash` end it. The order of claims is left open. `CompleteContent` is one step:
its first statement locks the row. A settlement that is applied while its answer
is lost is the same step. History variables: `voided` (the lease lapsed or the
row went while the claim was held) and `lost` (claims their holder never ended).

### ContentStore

`put` call by call: reserve, copy, sync the file, sync the directory tree, link or
find the object, sync the directory or verify, remove the staging link. `names` is
the directory as the running system shows it, `disk` what survives a power loss;
syncing makes them agree for that object's directory. The free bytes follow from
objects, staging files and leaked files. `Kill` and `PowerLoss` end the process.
`PruneStaging` is not modelled: only tests call it. On Windows `syncDirectory`
does nothing; the model is the other platforms' code. After a power loss staging
files are taken to remain. History: `returned`, `gone`, `unsynced`, `overshot`.

### LmtpSession

A connection carries lines to the session and reply codes back; the session reads
the next line in whatever mode it is in, so being out of step with the client is
possible in the model. `Accept` is the admission behind `MaxSessions`;
`HandleLhlo` ... `HandleOther` are the commands with their preconditions, `RcptCode`
the checks of RCPT, `ReadLine`, `DataEnds`, `Drain` the data reader with its limits,
the unstuffing and the end of the stream, `PutFails` and `Commit` the receiver's
outcomes, `Reply` the replies, one per recipient. One outcome is `RowVanished`: the
foreign key error of a content row that was deleted in between is answered 550 although
every recipient is there (the subject of `lifecycle_unavailable`); `raced` remembers it.
Postfix is external: it pipelines the envelope, stuffs the body, counts replies and
retries until it has a 2xx or 5xx.
`ConnectionDies` leaves the session any prefix of what was sent, also a cut line.
Timeouts of either side are lost connections. A line is a short sequence of
characters because the property is about dots; sizes are counts of them.

### Maintenance

The processes of one installation and the advisory lock. `OpenStore`, `Acquire`,
`Refused`, `Unlock` are the lease; `LoseSession` ends the session that holds it,
`Deadline` is `Run` returning with a call still hanging. Inside serve a delivery is
two steps (object, row), as is a deletion; `MailLifecycle` has the details.
`FetchRows` ... `ScanEnds` are `Reconcile` page by page; `Dump`, `WriteArchive`,
`WriteManifest`, `Publish` are `backup.Create`, `VerifyBundle`, `Extract`, `Install`,
`RestoreDatabase` are `backup.Restore`, which reconciles at its end. `Wipe` and
`Damage` are the environment. There is one bundle name.

### Credentials and Creation

Everything that issues, replaces or ends access to an Inbox, one step per SQL
statement or transaction. `Credentials`: `Present` is a call that arrives,
`Authenticate` the lookup of its capability, while a cookie is opened without the
database; `Seal` issues a session, `Get`, `List`, `DeleteInbox`, `Resolve`, `Rotate` are
what the calls of the four APIs do. A session may outlive its Inbox. Its list of messages
is then an empty page with 200 and its logout succeeds; neither obtains anything, and
`EndIsFinal` says that this is all. `Creation` extends it: `Ask` is the token bucket,
`Consume` the daily counter, `Hash`/`Hashed` the slots of Argon2, `Insert`, `Issue`,
`Number`, `Compensate` the creation and its undoing; the transactions of the quota and
of the number may fail with or without effect. `Tick` is midnight, `Crash` the
end of the process. One client identity. Left out: `Revoke` (no caller in the service)
and scopes (every issued credential has all five). History: `told`, `lost`, and `late`,
that a request began after the end.

### MessageApi

`Plan` gives the calls of every message handler of the four APIs; each call is a
step, so messages arrive, are deleted and swept between them. `Begin`, `Release` are
the two semaphores; `ListMessages`, `StartWalk`, `NextPage` the keyset cursors and a
client that follows them; `LookUp`, `InsertNumber`, `CommitNumbers`, `FindNumber` the
numbering of the Cloudflare adapter with its row locks. An INSERT that would wait for
another transaction is not enabled. `CommitUnconfirmed` is a COMMIT whose answer is lost:
the numbers are in the table and nobody was told. The adapters' pages begin at any offset.

`Parsed` is the parse worker's result, before which a message lists no attachments. An
attachment is asked for by its part path (`PartsOf`): one the client has seen listed, one
that is there and not listed yet, or none. `OpenAttachment` answers an unknown part, and
any part before the parse, with the 404 of a missing message (`no_part`), also for a
message that is there. `MissingMeansGone` therefore speaks about messages and about
parts that were listed when the request began. That the parser does not find a listed
part again is a failing call. Each message has its own content.

### Console

`useMailbox` as refs (`view`) and callbacks; a callback up to its next `await` is a
step. A request is sent, served (`Serve`), and its answer applied (`Got...`), in any
order; starting an operation aborts the active one; deletions are not tied to it.
`Refuse` and `Fault` are refused and failing requests; a deletion may also fail after the
server did it (`DeletionFault`), and then the cookie of an ended Inbox stays. A session
gets an empty list from an ended Inbox, a token is refused. Mail arrives for one Inbox, `a`.

## 3. Runs

| Run | Bounds | Shows |
| --- | --- | --- |
| `lifecycle_race` | 2 Inboxes, 1 content, 2 deliveries, 1 request, batch 1, 2 faults, late commits | `MessagesReadable`, `ObjectsOwned`, refinement of `Mailbox` |
| `lifecycle_quota` | 1 Inbox, 1 content, 3 deliveries, 1 request, limits 3 messages and 2 bytes, batch 2, 1 fault, late commits | `QuotasHold`; `QueueDrains` and `ExpiredRemoved` under fairness |
| `parse_fence` | 1 content, 3 successive rows, 2 workers, 2 attempts, 1 restart, 2 faults | the token fences late workers, results and status agree, retries are bounded, every content settles |
| `store_power` | 2 contents and a too large one, 3 puts, limit 2 bytes, floor 1, capacity 7, 2 faults, 2 power losses | whole objects, installed objects survive, deletions stay done, the floor holds |
| `lmtp_queue` | 2 messages (3 recipients and 1), 2 connections, 1 session, 2 recipients per transaction, 7 bytes, lines of 2, 1 fault | acknowledged mail is stored whole, nothing bounced without cause or stored unmeant, every recipient settled |
| `maintenance_lease` | 2 processes, 2 keys, batch 1, 1 fault | the lease excludes and comes free, rows keep their objects, bundles are sound, clean scans tell the truth |
| `creation_access` | 2 requests, 1 address, 3 days, 3 events, daily limit 2, burst 2, 2 attempts, 1 hashing slot | one successor, nested grants, the end is final, the quota, no owner locked out, every request answered |
| `message_read` | 3 messages, one with an attachment, 2 instants, 2 requests, pages of 1 and 2, 1 and 2 slots, 1 fault | slots returned, complete walks, stable numbers, missing means gone (parts included), no circular wait |
| `console_overlap` | pages of 1, 4 messages, 5 clicks, 1 fault | flags mean work, nothing comes back, no gap within a page's arrivals, leaving is real, mail appears |

The bounds are the smallest in which the cases meet: two users of one content, one
more delivery than the quota has room for, two faults so that a late commit meets
another failure, three rows of one key so that a claim meets two successors, two power losses so that what the first leaves behind meets
the second, one recipient more than a transaction takes, a page smaller than the
list, two rotations or creations at once over two midnights. `KeptDays` is 1 where
the code keeps two days, so that a purge happens within the three days. Processes
are interchangeable, so symmetry is used in safety runs (`lifecycle_race`,
`store_power`, `message_read`) and not where liveness is checked. In
`maintenance_lease` a state in which the lease was breached *and* two processes are at
work is checked and not followed further (`Explored`): nothing is promised from there
on, and `LeaseComesFree` says nothing about what follows such a state. The state
graphs have between 10^5 and 10^6 states; each run takes at most four minutes.

`TypeOK` of `MailLifecycle` is checked and proved, that of `ParseQueue` proved. Those
of the other modules document the state; adding `TypeOK` to a module's configuration
checks it with the same bounds.

Three further runs are expected to fail; each states what a comment or a decision
record says and shows a behaviour of the code that differs:

* `lifecycle_stranded`: two overlapping deletions of the last messages of a
  content both keep its row (write skew under READ COMMITTED).
* `lifecycle_unavailable`: a foreign key error on the content row is answered as
  a permanent "recipient no longer available" for an active recipient.
* `lmtp_truncated`: a connection that ends cleanly inside DATA ends the copy as if
  the message were complete; the part is committed, no reply is sent, and Postfix
  delivers the whole message again.

Five configurations keep further counterexamples at hand; they are run by hand
(`tlc -config <file> <module>`) and TLC finds the behaviour described:

* `MailLifecycle_late.cfg` (`MCMailLifecycle`): a COMMIT that outlives its caller's
  timeout outlives the lease, and the sweeper may remove the object first. The
  message is then there without its object (`NoMissingContent`); its sender was told
  451 and delivers it again, and the same bytes bring the object back.
* `ParseQueue_shutdown.cfg` (`MCParseQueue`): a shutdown after the check of the
  context costs an attempt.
* `ContentStore_durable.cfg` (`MCContentStore`): a put that finds an object linked by
  another put returns before the directory is synced.
* `Maintenance_overlap.cfg` (`MCMaintenance`): `AcquireServiceLease` is said to hold
  "for the complete serve lifetime" (`maintenance_lease.go:30`); a lost session or the
  shutdown deadline ends it earlier.
* `Console_gap.cfg` (`Console`): an expanded list has a gap when more than a page
  arrives between two refreshes.

Other limits the models contain and no property denies:

* `ClaimContent` takes a lapsed claim whatever its attempts, so a content that kills
  its worker is attempted without bound. `RetriesBounded` states exactly that: the
  attempts beyond the maximum are those of lost claims.
* A late message may be without its object, see above. `MessagesReadable` exempts
  exactly the messages of such deliveries and no other message of the same content.
* `BouncedForCause` counts the 550 of a vanished content row as a cause, for the very
  message and recipient it was given for.
* All recipients of a transaction get one reply class; a duplicate RCPT is answered
  250 and gets no reply of its own at the end.
* `FloorHolds` ends with a power loss, which may bring back a counted file.
* serve creates the directories of the content root before it asks for the lease, so
  a refused serve makes a restore refuse too. A failed database restore keeps the
  content it has installed.
* In the console a late answer of `deleteMessage` closes whatever is open by then, a
  late answer of `deleteInbox` resets the view of the next Inbox, and an abort that
  hits the reading of a body is shown as an error.

Every property of a passing run has a mutant, an operator beside the definition it
replaces, under which TLC finds the property violated.

Fairness. `FairSpec` of `MailLifecycle` has weak fairness of each delivery's and
each request's next step and of the sweeper: goroutines are scheduled, PostgreSQL
grants free locks, the ticker of `Retention.Run` fires. Mail, API calls, the
passing of an Inbox's time and failures are not required. `FairSpec` of
`ParseQueue` has weak fairness of each worker, of the clock and of the service
manager's restart. In `LmtpSession` sessions and the Postfix queue manager go on
(Postfix retries until its queue lifetime, which is beyond the model). In `Maintenance`
a command and a stopping service proceed, except for a call that hangs; serving,
starting and stopping are not required. In `Creation` every request that began goes
on: goroutines are scheduled, and who hashes gives the slot back. In
`Console` timers fire, the server answers and callbacks run; clicks are not required.
Failures are bounded by `MaxFaults` (`MaxEvents`), that is, they stop.

## 4. Proofs

For every value of the constants (any number of Inboxes, contents, deliveries,
requests, workers, puts, processes, any lifetimes and any bound on failures):

| Theorem | Module | Statement |
| --- | --- | --- |
| `TypeCorrect` | `MailLifecycleProofs` | `Spec => []TypeOK` |
| `RowsConsistent` | `MailLifecycleProofs` | every message has its `mail_contents` row, late commits included |
| `AlwaysReadable` | `MailLifecycleProofs` | `Spec => []MessagesReadable`, late commits included |
| `AlwaysOwned` | `MailLifecycleProofs` | `Spec => []ObjectsOwned` |
| `MailboxImplemented` | `MailLifecycleProofs` | `Spec => ImplementsMailbox`, late commits included |
| `ClaimsStand` | `ParseQueueProofs` | `Spec => [](TypeOK /\ LiveClaimStands)` |
| `ResultsAgree` | `ParseQueueProofs` | `Spec => []ResultMatchesStatus` |
| `RetriesAreBounded` | `ParseQueueProofs` | `Spec => []RetriesBounded` |
| `ObjectsAreWhole` | `ContentStoreProofs` | `Spec => []ObjectsWhole` |
| `InstalledIsKept` | `ContentStoreProofs` | `Spec => []InstalledSurvives` |
| `DeletedIsGone` | `ContentStoreProofs` | `Spec => []DeletionSticks` |
| `LeaseHolds` | `MaintenanceProofs` | `Spec => []LeaseExcludes` |
| `RowsStayBacked` | `MaintenanceProofs` | `Spec => []RowsBacked` |
| `BundleIsSound` | `MaintenanceProofs` | `Spec => []BundleSound` |
| `CleanScanIsTrue` | `MaintenanceProofs` | `Spec => []CleanScanTells` |
| `RotationIsUnique` | `CreationProofs` | `Spec => []OneSuccessor` |
| `GrantsAreNested` | `CreationProofs` | `Spec => []GrantsNest` |
| `EndedIsRefused` | `CreationProofs` | `Spec => []EndIsFinal` |
| `AccessIsKept` | `CreationProofs` | `Spec => []OwnerKeepsAccess` |
| `QuotaIsKept` | `CreationProofs` | `Spec => []CreationsBounded` |
| `WalkIsComplete` | `MessageApiProofs` | `Spec => []WalkComplete` |
| `SlotsAreHeld` | `MessageApiProofs` | `Spec => []SlotsHeld` |
| `NumbersAreStable` | `MessageApiProofs` | `Spec => []NumbersStable` |
| `MissingIsGone` | `MessageApiProofs` | `Spec => []MissingMeansGone` |
| `NobodyWaitsInACircle` | `MessageApiProofs` | `Spec => []NoCircularWait` |

The proofs use the named assumptions of the modules (`LifecycleAssumption`,
`QueueAssumption`, `StoreAssumption`, `MaintenanceAssumption`,
`CredentialsAssumption`, `CreationAssumption`, `ApiAssumption`) and nothing else.

None of the invariants is inductive alone.

**MailLifecycle.** For `MessagesReadable` the
strengthening says what each open transaction may rely on: a delivery that holds
the lease has its object; a delivery with an inserted message shares a row that no
deletion can drop; a dropped row is locked by its deletion and has no message
outside it; while the sweeper is about to remove a file no delivery holds the
lease, and whatever refers to the file was committed late (`FenceHolds`). A late COMMIT
is the one write that no lease covers, and the invariant says that it harms only its
own message. For `ObjectsOwned` it relates the generation in the sweeper's hand to the
row: as long as they agree, the task was not renewed since the recheck.

The refinement of `Mailbox` needs the row locks as well. `LockInv` says that no two
deliveries, and no delivery and deletion, hold one Inbox; that the locked recipients
of a delivery are still there; that messages, and the messages a request asks for, are
those of deliveries that committed; and that what a deletion has removed is its one
message or everything in its Inboxes up to its commit. `SweepsEnded` says that the
sweeper's own transaction names only Inboxes that have ended. By `MessagesReadable` the
abstract messages are all that have rows, so the mapping changes only where rows do: at
the COMMIT of a delivery, in time, unconfirmed or late (`Store`), and at that of a
deletion, which maps to `Grant` for a request and to `RemoveEnded` for the sweeper. The
reply after a COMMIT is `Accept`, giving up during it `GiveUp`, and a crash is `Crash`,
which takes no message away wherever it comes. The lemmas `DeliveryEffect`,
`DeletionEffect`, `CleanupEffect` and `CrashEffect` reduce every action to its effect
on the tables, and both `LockStep` and `RefineStep` work from these effects; every other
step is a stutter of the mailbox.

**ParseQueue.** Tokens in use were
drawn, two live claims have different tokens, and a claim's attempt is
within the bound that its row's lost claims explain.

**ContentStore.** `StoreInv` says what a put has achieved at each call (synced
before the link, linked before the directory is synced, on disk before it counts as
installed) and that an entry on disk that is no longer shown is the one being removed
or one whose removal was not synced; a power loss then brings back nothing else.

**Maintenance.** `LeaseInv` says that whoever is at work and has not lapsed holds the
lock. `MaintenanceInv` adds, for as long as nobody worked without the lock, what each
command knows at each stage (`Knows`): a delivery's object is in place before its row,
the scan has verified every row up to its mark and its page leaves no gap after it,
every object up to the mark has a row or is reported, a dump and its archive agree, and
a restore has no rows until its objects are extracted. Exclusion makes these facts
stable under the steps of other processes.

**Creation.** `AccessInv` has the shape of the tables, that a capability expires
exactly with its Inbox and a cookie no later than its capability, that a successor's
predecessor is revoked, and per request what it relies on: the rows it names are
there, it stays within its capability, and one that began after the end of its
capability or its Inbox has not passed the check that refuses it. `OwnerInv` adds who holds a
key: an active Inbox is *covered* by a password, a valid capability that was told to
its owner, or the creation that is still at work, and a request only rotates a key its
owner has. A rotation moves the cover to the successor, or the Inbox is counted as
lost with the answer. `QuotaInv` counts for the quota: the Inboxes made with a day's
quota together with the admitted requests that may still make one are within
`DailyLimit`, and within that day's counter as long as the day is not over. The second
half makes it inductive, since `ConsumeInboxCreate` compares only the counter; the first
survives the purge of the counters of past days.

**MessageApi.** Three modules: `MessagePageProofs` proves what `ORDER BY` with `LIMIT`
lists for any rows and page size (the newest, in order, with nothing skipped between the
cursor and the last row listed); `MessageStepProofs` proves, per step of a handler, the
layers of the invariant that do not depend on a page; `MessageApiProofs` adds the pages
and states the theorems. The layers: `BaseInv`, the shape of a request at each point of
its handler; `SlotsInv`, that the slots of a pool count the requests that hold one;
`WalkInv`, that what a walk has listed is all it had to list down to its cursor;
`NumberInv`, that the numbers ever committed, told to a client or not, are a set of
pairs in which a number stays with its message, that a transaction's uncommitted numbers
are not in it and that two transactions' numbers are apart; `AskInv`, that whatever a
request looks for was there once, and a part it was shown was listed; `OrderInv`, that
a transaction has inserted only messages newer than those still in its queue. The last
one excludes a circle: whoever is waited for waits itself for an older message, so that
among any requests the one at the oldest message waits for none of them.

Only model-checked, and why:

* Liveness (`FairSpec`): fairness and `ENABLED` are out of the prover's reach.
* `QuotasHold` and `FloorHolds` are about sums over a set of files or messages. What a
  fold over a set adds up to needs an induction over the set, which the provers do not
  find.
* `LmtpSession` and `Console` have no proofs. The invariant of the first would relate,
  position by position, the lines on the wire, what the session made of those it has
  read and the replies still to come; its size limit is a fold over lines.

## 5. Not modelled

* The MIME parser (`mail/`): a sequential transformation of text on top of a library,
  without shared state; what it computes is a matter for tests on messages. Its outcome
  is one of three verdicts in `ParseQueue`.
* Routing, decoding and rendering of the HTTP APIs, the statistics and settings
  endpoints of the adapters: they read or format and change nothing.
* Token encoding, digests, the sealing of cookies and the password hash: conversions
  whose strength is not a question of order.
* `Revoke` of a capability and `PruneStaging`: no code of the service calls them.
* Configuration, metrics, logging and the benchmark: no state of the service. Of the
  PostgreSQL client tools only what they achieve is a step.
* The templates, translations and downloads of the console.
* The order of the deletion queue's page (`enqueued_at`): tasks that fail for ever at
  its head would keep later ones from being tried. The model leaves the order open and
  bounds failures, so `QueueDrains` does not speak about such tasks.

The modules meet at their edges and not in one composition: `LmtpSession` takes the
receiver's outcome that `MailLifecycle` produces, `Maintenance` has deliveries and
deletions in the two steps `MailLifecycle` refines, and `Console` talks to a server
whose answers are those of `MessageApi`. A product of two of them is beyond TLC at
bounds where anything new could happen.
