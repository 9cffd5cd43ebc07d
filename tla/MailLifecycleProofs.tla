------------------------ MODULE MailLifecycleProofs ------------------------
(***************************************************************************)
(* Proofs about MailLifecycle for every set of Inboxes, contents,          *)
(* deliveries and requests, every limit and every number of faults.        *)
(***************************************************************************)
EXTENDS MailLifecycle, TLAPS

\* The initial tables, records and sweep are well formed.
LEMMA TypeInit == Init => TypeOK
  BY LifecycleAssumption
     DEF Init, TypeOK, NoDelivery, NoDeletion, NoItem, DeliveryPoints, LeasePoints,
         Replies, DeletionPoints, DeletionLocks, SweepPoints, Deleters,
         DeliveryRecord, DeletionRecord, SweepRecord

\* Moving a delivery to a program point changes nothing else of it, and nothing
\* of the other deliveries; so does answering it, but for the reply.
LEMMA AdvanceEffect ==
  ASSUME TypeOK, NEW d \in Deliveries, NEW pc \in DeliveryPoints, Advance(d, pc)
  PROVE  /\ delivery' \in [Deliveries -> DeliveryRecord]
         /\ delivery'[d].pc = pc
         /\ \A e \in Deliveries : /\ delivery'[e].key = delivery[e].key
                                  /\ delivery'[e].rcpt = delivery[e].rcpt
                                  /\ delivery'[e].fresh = delivery[e].fresh
                                  /\ delivery'[e].reply = delivery[e].reply
                                  /\ e # d => delivery'[e] = delivery[e]
  <1>1. [delivery[d] EXCEPT !.pc = pc] \in DeliveryRecord
    BY DEF TypeOK, DeliveryRecord
  <1>2. delivery' \in [Deliveries -> DeliveryRecord]
    BY <1>1 DEF TypeOK, Advance
  <1>3. delivery'[d] = [delivery[d] EXCEPT !.pc = pc]
    BY DEF TypeOK, Advance
  <1>4. \A e \in Deliveries : e # d => delivery'[e] = delivery[e]
    BY DEF TypeOK, Advance
  <1>. QED
    BY <1>2, <1>3, <1>4 DEF TypeOK, DeliveryRecord

\* Answering a delivery (Receive returns, the lease is released) touches only
\* its own pc and reply.
LEMMA AnswerEffect ==
  ASSUME TypeOK, NEW d \in Deliveries, NEW reply \in Replies, Answer(d, reply)
  PROVE  /\ delivery' \in [Deliveries -> DeliveryRecord]
         /\ delivery'[d].pc = "done"
         /\ delivery'[d].reply = reply
         /\ \A e \in Deliveries : /\ delivery'[e].key = delivery[e].key
                                  /\ delivery'[e].rcpt = delivery[e].rcpt
                                  /\ delivery'[e].fresh = delivery[e].fresh
                                  /\ e # d => delivery'[e] = delivery[e]
  <1>1. [delivery[d] EXCEPT !.pc = "done", !.reply = reply] \in DeliveryRecord
    BY Zenon DEF TypeOK, DeliveryRecord, DeliveryPoints
  <1>2. delivery' \in [Deliveries -> DeliveryRecord]
    BY <1>1 DEF TypeOK, Answer
  <1>3. delivery'[d] = [delivery[d] EXCEPT !.pc = "done", !.reply = reply]
    BY DEF TypeOK, Answer
  <1>4. \A e \in Deliveries : e # d => delivery'[e] = delivery[e]
    BY DEF TypeOK, Answer
  <1>5. delivery[d] \in DeliveryRecord
    BY DEF TypeOK
  <1>6. /\ delivery'[d].pc = "done" /\ delivery'[d].reply = reply
        /\ delivery'[d].key = delivery[d].key /\ delivery'[d].rcpt = delivery[d].rcpt
        /\ delivery'[d].fresh = delivery[d].fresh
    BY <1>3, <1>5 DEF DeliveryRecord
  <1>. QED
    BY <1>2, <1>4, <1>6

\* A finished deletion record is well formed.
LEMMA EndType ==
  ASSUME TypeOK, NEW x \in Deleters, End(x)
  PROVE  deletion' \in [Deleters -> DeletionRecord]
  BY DEF TypeOK, End, Ended, NoDeletion, DeletionPoints, DeletionRecord

\* A key of a delivery that is under way is a content key.
KeysTyped ==
  \A d \in Deliveries : delivery[d].pc # "idle" => delivery[d].key \in Contents

\* What the step lemmas carry along: the types, and that no delivery works on
\* the null key.
TypeInv == TypeOK /\ KeysTyped

\* Every step of Receive and CommitDelivery keeps tables and records well
\* formed.
LEMMA DeliveryType ==
  ASSUME TypeInv, NEW d \in Deliveries, Receive(d) \/ DeliveryStep(d) \/ DeliveryFault(d)
  PROVE  TypeInv'
  <1>. USE DEF TypeInv, KeysTyped
  <1>0. delivery[d].pc # "idle" => delivery[d].key \in Contents
    OBVIOUS
  <1>1. CASE Receive(d)
    <2>1. PICK c \in Contents, R \in SUBSET Inboxes :
            delivery' = [delivery EXCEPT ![d] = [@ EXCEPT !.pc = "put", !.key = c, !.rcpt = R]]
      BY <1>1, Zenon DEF Receive
    <2>2. [delivery[d] EXCEPT !.pc = "put", !.key = c, !.rcpt = R] \in DeliveryRecord
      BY Zenon DEF TypeOK, DeliveryRecord, DeliveryPoints, LeasePoints
    <2>3. delivery' \in [Deliveries -> DeliveryRecord]
      BY <2>1, <2>2 DEF TypeOK
    <2>4. KeysTyped'
      BY <2>1 DEF TypeOK, DeliveryRecord
    <2>. QED
      BY <1>1, <2>3, <2>4, Zenon DEF Receive, TypeOK, db
  <1>2. CASE Put(d)
    <2>1. delivery' \in [Deliveries -> DeliveryRecord]
      BY <1>2, AdvanceEffect, AnswerEffect DEF Put, DeliveryPoints, LeasePoints, Replies
    <2>2. KeysTyped'
      BY <1>2, AdvanceEffect, AnswerEffect DEF Put, DeliveryPoints, LeasePoints, Replies
    <2>3. objects' \subseteq Contents /\ orphaned' \subseteq Contents
      BY <1>2, <1>0 DEF Put, LeaveObject, TypeOK
    <2>. QED
      BY <1>2, <2>1, <2>2, <2>3 DEF Put, TypeOK, db
  <1>3. CASE PutFails(d)
    <2>1. delivery' \in [Deliveries -> DeliveryRecord]
      BY <1>3, AnswerEffect DEF PutFails, Replies
    <2>2. KeysTyped'
      BY <1>3, AnswerEffect DEF PutFails, Replies
    <2>3. objects' \subseteq Contents /\ orphaned' \subseteq Contents
      BY <1>3, <1>0 DEF PutFails, LeaveObject, TypeOK
    <2>. QED
      BY <1>3, <2>1, <2>2, <2>3 DEF PutFails, TypeOK, db
  <1>4. CASE LockRecipients(d)
    <2>1. delivery' \in [Deliveries -> DeliveryRecord]
      BY <1>4, AdvanceEffect, AnswerEffect DEF LockRecipients, DeliveryPoints, LeasePoints, Replies
    <2>2. KeysTyped'
      BY <1>4, AdvanceEffect, AnswerEffect DEF LockRecipients, DeliveryPoints, LeasePoints, Replies
    <2>3. objects' \subseteq Contents /\ orphaned' \subseteq Contents
      BY <1>4, <1>0 DEF LockRecipients, LeaveObject, TypeOK
    <2>. QED
      BY <1>4, <2>1, <2>2, <2>3 DEF LockRecipients, TypeOK, db
  <1>5. CASE InsertContent(d)
    <2>. DEFINE pc == IF delivery[d].key \in mail_contents THEN "reuse" ELSE "insert"
                fresh == delivery[d].key \notin mail_contents
    <2>1. [delivery[d] EXCEPT !.pc = pc, !.fresh = fresh] \in DeliveryRecord
      <3>1. pc \in DeliveryPoints
        BY DEF DeliveryPoints, LeasePoints
      <3>2. fresh \in BOOLEAN
        OBVIOUS
      <3>. HIDE DEF pc, fresh
      <3>. QED
        BY <3>1, <3>2, Zenon DEF TypeOK, DeliveryRecord
    <2>2. delivery' = [delivery EXCEPT ![d] = [delivery[d] EXCEPT !.pc = pc, !.fresh = fresh]]
      BY <1>5 DEF InsertContent, TypeOK
    <2>. HIDE DEF pc, fresh
    <2>3. delivery' \in [Deliveries -> DeliveryRecord]
      BY <2>1, <2>2 DEF TypeOK
    <2>4. KeysTyped'
      BY <1>5, <2>2 DEF InsertContent, TypeOK, DeliveryRecord
    <2>. QED
      BY <1>5, <2>3, <2>4 DEF InsertContent, TypeOK, db
  <1>6. CASE ReadExistingSize(d)
    <2>1. delivery' \in [Deliveries -> DeliveryRecord]
      BY <1>6, AdvanceEffect, AnswerEffect DEF ReadExistingSize, DeliveryPoints, LeasePoints, Replies
    <2>2. KeysTyped'
      BY <1>6, AdvanceEffect, AnswerEffect DEF ReadExistingSize, DeliveryPoints, LeasePoints, Replies
    <2>3. objects' \subseteq Contents /\ orphaned' \subseteq Contents
      BY <1>6, <1>0 DEF ReadExistingSize, LeaveObject, TypeOK
    <2>. QED
      BY <1>6, <2>1, <2>2, <2>3 DEF ReadExistingSize, TypeOK, db
  <1>7. CASE InsertMessages(d)
    <2>1. delivery' \in [Deliveries -> DeliveryRecord]
      BY <1>7, AdvanceEffect, AnswerEffect, Zenon DEF InsertMessages, DeliveryPoints, LeasePoints, Replies
    <2>2. KeysTyped'
      BY <1>7, AdvanceEffect, AnswerEffect DEF InsertMessages, DeliveryPoints, LeasePoints, Replies
    <2>3. objects' \subseteq Contents /\ orphaned' \subseteq Contents
      BY <1>7, <1>0 DEF InsertMessages, LeaveObject, TypeOK
    <2>. QED
      BY <1>7, <2>1, <2>2, <2>3 DEF InsertMessages, TypeOK, db
  <1>8. ASSUME Apply(d), delivery[d].pc # "idle"
        PROVE  /\ inboxes' = inboxes /\ mail_contents' \subseteq Contents
               /\ messages' \subseteq Message /\ orphaned' \subseteq Contents
               /\ content_deletion_queue' = content_deletion_queue
    BY <1>8 DEF Apply, TypeOK, Message, DeliveryRecord
  <1>9. CASE CommitDelivery(d)
    <2>1. delivery' \in [Deliveries -> DeliveryRecord]
      BY <1>9, AdvanceEffect DEF CommitDelivery, DeliveryPoints, LeasePoints
    <2>2. KeysTyped'
      BY <1>9, AdvanceEffect DEF CommitDelivery, DeliveryPoints, LeasePoints
    <2>. QED
      BY <1>8, <1>9, <2>1, <2>2 DEF CommitDelivery, TypeOK
  <1>10. CASE CommitUnconfirmed(d)
    <2>1. delivery' \in [Deliveries -> DeliveryRecord]
      BY <1>10, AnswerEffect DEF CommitUnconfirmed, Replies
    <2>2. KeysTyped'
      BY <1>10, AnswerEffect DEF CommitUnconfirmed, Replies
    <2>. QED
      BY <1>8, <1>10, <2>1, <2>2 DEF CommitUnconfirmed, TypeOK
  <1>11. CASE DeliveryFails(d)
    <2>1. delivery' \in [Deliveries -> DeliveryRecord]
      BY <1>11, AnswerEffect DEF DeliveryFails, Replies
    <2>2. KeysTyped'
      BY <1>11 DEF DeliveryFails, Answer, TypeOK, DeliveryRecord, StoredPoints, LeasePoints
    <2>. QED
      BY <1>11, <2>1, <2>2
         DEF DeliveryFails, LeaveObject, TypeOK, db, StoredPoints, LeasePoints
  <1>12. CASE CommitAbandoned(d)
    <2>1. [delivery[d] EXCEPT !.pc = "limbo", !.reply = "451"] \in DeliveryRecord
      BY Zenon DEF TypeOK, DeliveryRecord, DeliveryPoints, Replies
    <2>2. delivery' \in [Deliveries -> DeliveryRecord]
      BY <1>12, <2>1 DEF CommitAbandoned, TypeOK
    <2>3. KeysTyped'
      BY <1>12 DEF CommitAbandoned, TypeOK, DeliveryRecord
    <2>. QED
      BY <1>12, <2>2, <2>3 DEF CommitAbandoned, TypeOK, db
  <1>13. CASE LateCommit(d)
    <2>1. delivery' \in [Deliveries -> DeliveryRecord]
      BY <1>13, AdvanceEffect DEF LateCommit, DeliveryPoints
    <2>2. KeysTyped'
      BY <1>13, AdvanceEffect DEF LateCommit, DeliveryPoints
    <2>. QED
      BY <1>8, <1>13, <2>1, <2>2 DEF LateCommit, LeaveObject, TypeOK, db
  <1>14. CASE ReplyDelivered(d) \/ ReplyLost(d)
    <2>1. delivery' \in [Deliveries -> DeliveryRecord]
      BY <1>14, AnswerEffect DEF ReplyDelivered, ReplyLost, Replies
    <2>2. KeysTyped'
      BY <1>14, AnswerEffect DEF ReplyDelivered, ReplyLost, Replies
    <2>. QED
      BY <1>14, <2>1, <2>2 DEF ReplyDelivered, ReplyLost, TypeOK, db
  <1>. QED
    BY <1>1, <1>2, <1>3, <1>4, <1>5, <1>6, <1>7, <1>9, <1>10, <1>11, <1>12, <1>13, <1>14
       DEF DeliveryStep, DeliveryFault

\* A step that only replaces the record of one deleting transaction.
LEMMA DeletionUpdate ==
  ASSUME TypeInv, NEW x \in Deleters, NEW r \in DeletionRecord,
         deletion' = [deletion EXCEPT ![x] = r],
         UNCHANGED <<db, objects, delivery, faults, orphaned>>,
         sweep' \in SweepRecord
  PROVE  TypeInv'
  BY DEF TypeInv, TypeOK, KeysTyped, db

\* Every statement of DeleteInbox, DeleteMessage and the cleanup keeps them
\* well formed.
LEMMA DeletionType ==
  ASSUME TypeInv, NEW x \in Deleters,
         BeginDeleteInbox(x) \/ BeginDeleteMessage(x) \/ RequestStep(x) \/ DeletionFails(x)
  PROVE  TypeInv'
  <1>0. TypeOK /\ deletion[x] \in DeletionRecord /\ sweep \in SweepRecord
    BY DEF TypeInv, TypeOK
  <1>. DEFINE old == deletion[x]
  <1>1. CASE BeginDeleteInbox(x)
    <2>1. PICK i \in Inboxes :
            deletion' = [deletion EXCEPT ![x] = [@ EXCEPT !.pc = "begun", !.inboxes = {i}]]
      BY <1>1, Zenon DEF BeginDeleteInbox
    <2>2. [old EXCEPT !.pc = "begun", !.inboxes = {i}] \in DeletionRecord
      BY <1>0, Zenon DEF DeletionRecord, DeletionPoints
    <2>3. deletion' = [deletion EXCEPT ![x] = [old EXCEPT !.pc = "begun", !.inboxes = {i}]]
      BY <1>0, <2>1 DEF TypeOK
    <2>. QED
      BY <1>0, <1>1, <2>2, <2>3, DeletionUpdate, Zenon DEF BeginDeleteInbox
  <1>2. CASE BeginDeleteMessage(x)
    <2>1. PICK m \in messages :
            deletion' = [deletion EXCEPT ![x] = [@ EXCEPT !.pc = "begun", !.msgs = {m}]]
      BY <1>2, Zenon DEF BeginDeleteMessage
    <2>2. [old EXCEPT !.pc = "begun", !.msgs = {m}] \in DeletionRecord
      BY <1>0, Zenon DEF DeletionRecord, DeletionPoints, TypeOK
    <2>3. deletion' = [deletion EXCEPT ![x] = [old EXCEPT !.pc = "begun", !.msgs = {m}]]
      BY <1>0, <2>1 DEF TypeOK
    <2>. QED
      BY <1>0, <1>2, <2>2, <2>3, DeletionUpdate, Zenon DEF BeginDeleteMessage
  <1>3. ASSUME End(x), UNCHANGED <<db, objects, delivery, orphaned>>, sweep' = sweep,
               faults' \in Nat
        PROVE  TypeInv'
    BY <1>0, <1>3, EndType DEF TypeInv, TypeOK, KeysTyped, db
  <1>4. CASE LockInbox(x)
    <2>. DEFINE r == [old EXCEPT !.pc = "locked", !.refs = KeysIn(old.inboxes)]
    <2>1. CASE End(x)
      BY <1>0, <1>3, <1>4, <2>1 DEF LockInbox, TypeOK
    <2>2. CASE deletion' = [deletion EXCEPT ![x] = r]
      <3>1. KeysIn(old.inboxes) \subseteq Contents
        BY <1>0 DEF KeysIn, TypeOK, Message
      <3>2. r \in DeletionRecord
        BY <1>0, <3>1, Zenon DEF DeletionRecord, DeletionPoints, DeletionLocks
      <3>. QED
        BY <1>0, <1>4, <2>2, <3>2, DeletionUpdate, Zenon DEF LockInbox
    <2>. QED
      BY <1>0, <1>4, <2>1, <2>2 DEF LockInbox, TypeOK
  <1>5. CASE LockMessage(x)
    <2>1. CASE End(x)
      BY <1>0, <1>3, <1>5, <2>1 DEF LockMessage, TypeOK
    <2>2. CASE \E m \in messages :
                 deletion' = [deletion EXCEPT ![x] = [@ EXCEPT !.pc = "locked", !.refs = {m.key}]]
      <3>1. PICK m \in messages :
                 deletion' = [deletion EXCEPT ![x] = [@ EXCEPT !.pc = "locked", !.refs = {m.key}]]
        BY <2>2, Zenon
      <3>2. m.key \in Contents
        BY <1>0 DEF TypeOK, Message
      <3>3. [old EXCEPT !.pc = "locked", !.refs = {m.key}] \in DeletionRecord
        BY <1>0, <3>2, Zenon DEF DeletionRecord, DeletionPoints, DeletionLocks
      <3>4. deletion' = [deletion EXCEPT ![x] = [old EXCEPT !.pc = "locked", !.refs = {m.key}]]
        BY <1>0, <3>1 DEF TypeOK
      <3>. QED
        BY <1>0, <1>5, <3>3, <3>4, DeletionUpdate, Zenon DEF LockMessage
    <2>. QED
      BY <1>5, <2>1, <2>2, Zenon DEF LockMessage
  <1>6. CASE RemoveRows(x)
    <2>. DEFINE victims == {m \in messages : m \in old.msgs \/ m.inbox \in old.inboxes}
                r == [old EXCEPT !.pc = "removed", !.gone = victims]
    <2>1. victims \subseteq Message
      BY <1>0 DEF TypeOK
    <2>2. deletion' = [deletion EXCEPT ![x] = r]
      BY <1>0, <1>6 DEF RemoveRows, TypeOK
    <2>. HIDE DEF victims
    <2>3. r \in DeletionRecord
      BY <1>0, <2>1, Zenon DEF DeletionRecord, DeletionPoints, DeletionLocks
    <2>. QED
      BY <1>0, <1>6, <2>2, <2>3, DeletionUpdate, Zenon DEF RemoveRows
  <1>7. CASE ScanContent(x)
    <2>. DEFINE c == Min(old.refs)
                r == [old EXCEPT !.pc = "pruning"]
                s == [old EXCEPT !.refs = old.refs \ {c}]
    <2>1. deletion' = [deletion EXCEPT ![x] = r] \/ deletion' = [deletion EXCEPT ![x] = s]
      BY <1>0, <1>7 DEF ScanContent, TypeOK
    <2>. HIDE DEF c
    <2>2. r \in DeletionRecord /\ s \in DeletionRecord
      BY <1>0 DEF DeletionRecord, DeletionPoints, DeletionLocks
    <2>. QED
      BY <1>0, <1>7, <2>1, <2>2, DeletionUpdate DEF ScanContent
  <1>8. CASE DropContent(x)
    <2>. DEFINE c == Min(old.refs)
                r == [old EXCEPT !.pc = "removed", !.refs = old.refs \ {c}]
                s == [old EXCEPT !.pc = "removed", !.refs = old.refs \ {c},
                                 !.dropped = old.dropped \union {c}]
    <2>1. \/ End(x)
          \/ deletion' = [deletion EXCEPT ![x] = r]
          \/ c \in mail_contents /\ deletion' = [deletion EXCEPT ![x] = s]
      BY <1>0, <1>8 DEF DropContent, TypeOK
    <2>. HIDE DEF c
    <2>2. r \in DeletionRecord
      BY <1>0, Zenon DEF DeletionRecord, DeletionPoints, DeletionLocks
    <2>4. ASSUME c \in mail_contents
          PROVE  s \in DeletionRecord
      <3>1. c \in Contents
        BY <1>0, <2>4 DEF TypeOK
      <3>2. s = [r EXCEPT !.dropped = old.dropped \union {c}]
        OBVIOUS
      <3>3. old.dropped \union {c} \in SUBSET Contents
        BY <1>0, <3>1 DEF DeletionRecord
      <3>. HIDE DEF r, s, old
      <3>. QED
        BY <2>2, <3>2, <3>3 DEF DeletionRecord
    <2>. HIDE DEF r, s
    <2>3. CASE End(x)
      BY <1>0, <1>3, <1>8, <2>3 DEF DropContent, TypeOK
    <2>. QED
      BY <1>0, <1>8, <2>1, <2>2, <2>3, <2>4, DeletionUpdate DEF DropContent
  <1>9. CASE CommitDeletion(x)
    <2>1. deletion' \in [Deleters -> DeletionRecord]
      BY <1>0, <1>9, EndType DEF CommitDeletion
    <2>2. sweep' \in SweepRecord
      BY <1>0, <1>9 DEF CommitDeletion, AfterCleanup, SweepRecord, SweepPoints
    <2>3. content_deletion_queue' \in [Contents -> Nat]
      BY <1>0, <1>9 DEF CommitDeletion, Enqueue, TypeOK
    <2>4. inboxes' \in [Inboxes -> {"active", "expired", "deleted"}]
      BY <1>0, <1>9 DEF CommitDeletion, TypeOK
    <2>. QED
      BY <1>0, <1>9, <2>1, <2>2, <2>3, <2>4 DEF CommitDeletion, TypeInv, TypeOK, KeysTyped
  <1>10. CASE DeletionFails(x)
    BY <1>0, <1>3, <1>10 DEF DeletionFails, TypeOK
  <1>. QED
    BY <1>1, <1>2, <1>4, <1>5, <1>6, <1>7, <1>8, <1>9, <1>10 DEF RequestStep, DeletionStep

\* Every step of Retention.Sweep and DeleteUnreferenced keeps them well formed.
LEMMA SweepType ==
  ASSUME TypeInv,
         \/ BeginCleanup \/ ListDeletions \/ NextDeletion \/ RecheckReference
         \/ RemoveObject \/ Acknowledge \/ SweepStepFails \/ SweepReturns
  PROVE  TypeInv'
  <1>0. TypeOK /\ sweep \in SweepRecord /\ Sweeper \in Deleters
    BY DEF TypeInv, TypeOK, Deleters
  <1>1. CASE BeginCleanup
    <2>1. CASE UNCHANGED deletion
      <3>1. sweep' \in SweepRecord
        BY <1>0, <1>1, Zenon DEF BeginCleanup, SweepRecord, SweepPoints
      <3>. QED
        BY <1>0, <1>1, <2>1, <3>1, Zenon DEF BeginCleanup, TypeInv, TypeOK, KeysTyped, db
    <2>2. CASE UNCHANGED sweep /\ \E I \in SUBSET Inboxes :
            deletion' = [deletion EXCEPT
               ![Sweeper] = [@ EXCEPT !.pc = "locked", !.inboxes = I, !.refs = KeysIn(I)]]
      <3>. DEFINE old == deletion[Sweeper]
      <3>1. PICK I \in SUBSET Inboxes :
            deletion' = [deletion EXCEPT
               ![Sweeper] = [@ EXCEPT !.pc = "locked", !.inboxes = I, !.refs = KeysIn(I)]]
        BY <2>2, Zenon
      <3>2. KeysIn(I) \subseteq Contents
        BY <1>0 DEF KeysIn, TypeOK, Message
      <3>3. [old EXCEPT !.pc = "locked", !.inboxes = I, !.refs = KeysIn(I)] \in DeletionRecord
        <4>1. old \in DeletionRecord
          BY <1>0 DEF TypeOK
        <4>. HIDE DEF old
        <4>. QED
          BY <3>2, <4>1, Zenon DEF DeletionRecord, DeletionPoints, DeletionLocks
      <3>4. deletion' = [deletion EXCEPT ![Sweeper] =
                           [old EXCEPT !.pc = "locked", !.inboxes = I, !.refs = KeysIn(I)]]
        BY <1>0, <3>1 DEF TypeOK
      <3>. QED
        BY <1>0, <1>1, <2>2, <3>3, <3>4, DeletionUpdate, Zenon DEF BeginCleanup
    <2>. QED
      BY <1>1, <2>1, <2>2, Zenon DEF BeginCleanup
  <1>2. CASE ListDeletions
    <2>1. PICK page :
            /\ page \subseteq {[key |-> c, generation |-> content_deletion_queue[c]] :
                                c \in {k \in Contents : content_deletion_queue[k] > 0}}
            /\ sweep' = [sweep EXCEPT !.pc = "next", !.page = page]
      BY <1>2, Zenon DEF ListDeletions
    <2>2. page \subseteq Task
      BY <1>0, <2>1 DEF TypeOK, Task
    <2>3. sweep' \in SweepRecord
      BY <1>0, <2>1, <2>2, Zenon DEF SweepRecord, SweepPoints
    <2>. QED
      BY <1>0, <1>2, <2>3, Zenon DEF ListDeletions, TypeInv, TypeOK, KeysTyped, db
  <1>3. CASE NextDeletion
    <2>1. ASSUME sweep' = [sweep EXCEPT !.pc = "cleanup", !.item = NoItem]
          PROVE  sweep' \in SweepRecord
      BY <1>0, <2>1, Zenon DEF SweepRecord, SweepPoints
    <2>2. ASSUME \E task \in sweep.page :
                   sweep' = [pc |-> "fence", page |-> sweep.page \ {task}, item |-> task]
          PROVE  sweep' \in SweepRecord
      BY <1>0, <2>2 DEF SweepRecord, SweepPoints
    <2>3. sweep' \in SweepRecord
      BY <1>3, <2>1, <2>2 DEF NextDeletion
    <2>. QED
      BY <1>0, <1>3, <2>3 DEF NextDeletion, TypeInv, TypeOK, KeysTyped, db
  <1>4. CASE RecheckReference
    <2>1. sweep' \in SweepRecord
      BY <1>0, <1>4 DEF RecheckReference, SweepRecord, SweepPoints
    <2>. QED
      BY <1>0, <1>4, <2>1 DEF RecheckReference, TypeInv, TypeOK, KeysTyped, db
  <1>5. CASE RemoveObject
    <2>1. sweep' \in SweepRecord
      BY <1>0, <1>5 DEF RemoveObject, SweepRecord, SweepPoints
    <2>. QED
      BY <1>0, <1>5, <2>1 DEF RemoveObject, TypeInv, TypeOK, KeysTyped, db
  <1>6. CASE Acknowledge
    <2>1. sweep' \in SweepRecord
      BY <1>0, <1>6 DEF Acknowledge, SweepRecord, SweepPoints
    <2>2. content_deletion_queue' \in [Contents -> Nat]
      BY <1>0, <1>6, Zenon DEF Acknowledge, TypeOK
    <2>. QED
      BY <1>0, <1>6, <2>1, <2>2 DEF Acknowledge, TypeInv, TypeOK, KeysTyped
  <1>7. CASE SweepStepFails
    <2>1. sweep' \in SweepRecord
      BY <1>0, <1>7 DEF SweepStepFails, SweepRecord, SweepPoints
    <2>. QED
      BY <1>0, <1>7, <2>1 DEF SweepStepFails, TypeInv, TypeOK, KeysTyped, db
  <1>8. CASE SweepReturns
    <2>1. sweep' \in SweepRecord
      BY <1>8 DEF SweepReturns, SweepRecord, SweepPoints
    <2>. QED
      BY <1>0, <1>8, <2>1 DEF SweepReturns, TypeInv, TypeOK, KeysTyped, db
  <1>. QED
    BY <1>1, <1>2, <1>3, <1>4, <1>5, <1>6, <1>7, <1>8

\* Expiry and a crash of the process keep them well formed.
LEMMA EnvironmentType ==
  ASSUME TypeInv, Crash \/ \E i \in Inboxes : Expire(i)
  PROVE  TypeInv'
  <1>0. TypeOK /\ KeysTyped
    BY DEF TypeInv
  <1>1. CASE Crash
    <2>1. \A d \in Deliveries :
            [delivery[d] EXCEPT !.pc = "done", !.reply = "lost"] \in DeliveryRecord
      BY <1>0, Zenon DEF TypeOK, DeliveryRecord, DeliveryPoints, Replies
    <2>2. delivery' \in [Deliveries -> DeliveryRecord]
      BY <1>0, <1>1, <2>1, Zenon DEF Crash, TypeOK
    <2>3. \A d \in Deliveries : delivery'[d].key = delivery[d].key
                             /\ (delivery[d].pc = "idle" => delivery'[d].pc = "idle")
      BY <1>0, <1>1, Zenon DEF Crash, TypeOK, DeliveryRecord, Leased, LeasePoints
    <2>4. KeysTyped'
      BY <1>0, <2>3 DEF KeysTyped
    <2>5. \A x \in Deleters : Ended(x) \in DeletionRecord
      BY DEF Ended, NoDeletion, DeletionRecord, DeletionPoints
    <2>6. deletion' \in [Deleters -> DeletionRecord]
      BY <1>0, <1>1, <2>5, Zenon DEF Crash, TypeOK
    <2>7. sweep' \in SweepRecord
      BY <1>1, Zenon DEF Crash, SweepRecord, SweepPoints
    <2>8. \A d \in Leased : d \in Deliveries /\ delivery[d].key \in Contents
      BY <1>0 DEF KeysTyped, Leased, LeasePoints
    <2>9. orphaned' \subseteq Contents
      BY <1>0, <1>1, <2>8, Zenon DEF Crash, TypeOK
    <2>10. UNCHANGED <<db, objects>> /\ faults' = faults + 1
      BY <1>1, Zenon DEF Crash
    <2>. QED
      BY <1>0, <2>2, <2>4, <2>6, <2>7, <2>9, <2>10 DEF TypeInv, TypeOK, db
  <1>2. CASE \E i \in Inboxes : Expire(i)
    BY <1>0, <1>2 DEF Expire, TypeInv, TypeOK, KeysTyped
  <1>. QED
    BY <1>1, <1>2

\* The types are inductive: one case per group of actions.
LEMMA TypeStep == TypeInv /\ [Next]_vars => TypeInv'
  <1>. SUFFICES ASSUME TypeInv, [Next]_vars PROVE TypeInv'
    OBVIOUS
  <1>1. CASE UNCHANGED vars
    BY <1>1 DEF vars, TypeInv, TypeOK, KeysTyped
  <1>2. CASE Next
    BY <1>2, DeliveryType, DeletionType, SweepType, EnvironmentType
       DEF Next, SweepStep, RequestStep, Deleters
  <1>. QED
    BY <1>1, <1>2

LEMMA TypeInvInit == Init => TypeInv
  BY TypeInit DEF TypeInv, KeysTyped, Init, NoDelivery

\* Whatever interleaves, fails or crashes, the tables and the records of the
\* processes stay well formed.
THEOREM TypeCorrect == Spec => []TypeOK
  <1>1. TypeInv => TypeOK
    BY DEF TypeInv
  <1>. QED
    BY <1>1, TypeInvInit, TypeStep, PTL DEF Spec

-----------------------------------------------------------------------------
(* No object file is leaked, late commits included: the generation check of *)
(* AcknowledgeContentDeletion never removes the only record that a file is  *)
(* to be deleted.                                                          *)

\* An object in the hands of a delivery that stored it and has not ended.
HeldPoints == StoredPoints \union {"limbo"}
Held(c) == \E d \in Deliveries : delivery[d].pc \in HeldPoints /\ delivery[d].key = c

\* A key that needs no deletion task.
Settled(c) == c \notin objects \/ c \in mail_contents \/ c \in orphaned \/ Held(c)

\* ObjectsOwned, seen from the keys.
AllOwned == \A c \in Contents : Settled(c) \/ content_deletion_queue[c] > 0

\* The row of a task the sweep holds is still there, in its generation or a later one.
Queued(t) ==
  /\ t \in Task
  /\ t.generation > 0
  /\ content_deletion_queue[t.key] >= t.generation

\* The tasks of the page ListContentDeletions returned are queued still, one
\* per key.
PageQueued ==
  /\ \A t \in sweep.page : sweep.pc \in {"next", "fence", "remove", "ack"} => Queued(t)
  /\ \A t, u \in sweep.page : t.key = u.key => t = u

\* So is the task the sweep works on, which is not in the rest of the page.
ItemQueued ==
  sweep.pc \in {"fence", "remove", "ack"} =>
    Queued(sweep.item) /\ \A t \in sweep.page : t.key # sweep.item.key

\* Once the sweep is about to acknowledge, its key is settled or a newer task
\* exists.
AckIsSafe ==
  /\ sweep.pc = "ack"
  /\ content_deletion_queue[sweep.item.key] = sweep.item.generation
  => Settled(sweep.item.key)

\* The inductive invariant behind ObjectsOwned.
OwnedInv == AllOwned /\ PageQueued /\ ItemQueued /\ AckIsSafe

\* With no object and an empty queue, nothing is leaked.
LEMMA OwnedInit == Init => OwnedInv
  BY DEF Init, OwnedInv, AllOwned, Settled, PageQueued, ItemQueued, AckIsSafe

\* Steps of deliveries and crashes: keys stay settled, the queue is not touched.
LEMMA SettledKept ==
  ASSUME TypeInv, OwnedInv, UNCHANGED <<content_deletion_queue, sweep>>,
         \A c \in Contents : Settled(c) => Settled(c)'
  PROVE  OwnedInv'
  <1>1. AllOwned'
    BY DEF OwnedInv, AllOwned
  <1>2. PageQueued' /\ ItemQueued'
    BY DEF OwnedInv, PageQueued, ItemQueued, Queued
  <1>3. AckIsSafe'
    BY DEF OwnedInv, AckIsSafe, ItemQueued, Queued, Task
  <1>. QED
    BY <1>1, <1>2, <1>3 DEF OwnedInv

\* A delivery lets go of its object only when a row or the history has it.
LEMMA DeliveryKeepsOwned ==
  ASSUME TypeInv, OwnedInv, NEW d \in Deliveries,
         UNCHANGED <<content_deletion_queue, sweep>>,
         \A e \in Deliveries : e # d => delivery'[e] = delivery[e],
         mail_contents \subseteq mail_contents',
         orphaned \subseteq orphaned' \union mail_contents',
         objects' \subseteq objects \union {delivery[d].key},
         \/ delivery'[d].pc \in HeldPoints /\ delivery'[d].key = delivery[d].key
         \/ delivery[d].key \in mail_contents' \union orphaned'
         \/ delivery[d].pc \notin HeldPoints /\ objects' = objects
  PROVE  OwnedInv'
  <1>1. ASSUME NEW c \in Contents, Settled(c)
        PROVE  Settled(c)'
    <2>1. CASE c \in mail_contents \/ c \in orphaned
      BY <2>1 DEF Settled
    <2>2. CASE Held(c)
      BY <2>2 DEF Settled, Held
    <2>3. CASE c \notin objects
      BY <2>3 DEF Settled, Held
    <2>. QED
      BY <1>1, <2>1, <2>2, <2>3 DEF Settled
  <1>. QED
    BY <1>1, SettledKept

\* No step of a delivery leaks its object.
LEMMA DeliveryOwned ==
  ASSUME TypeInv, OwnedInv, NEW d \in Deliveries,
         Receive(d) \/ DeliveryStep(d) \/ DeliveryFault(d)
  PROVE  OwnedInv'
  <1>0. TypeOK /\ delivery[d] \in DeliveryRecord
    BY DEF TypeInv, TypeOK
  <1>. USE DEF LeasePoints, StoredPoints, HeldPoints
  <1>1. CASE Receive(d)
    <2>1. PICK c, R :
            delivery' = [delivery EXCEPT ![d] = [@ EXCEPT !.pc = "put", !.key = c, !.rcpt = R]]
      BY <1>1, Zenon DEF Receive
    <2>2. \A e \in Deliveries : e # d => delivery'[e] = delivery[e]
      BY <1>0, <2>1 DEF TypeOK
    <2>. QED
      BY <1>1, <2>2, DeliveryKeepsOwned, Zenon DEF Receive, db
  <1>2. CASE Put(d)
    <2>1. CASE Advance(d, "begun") /\ UNCHANGED orphaned
      BY <1>0, <1>2, <2>1, AdvanceEffect, DeliveryKeepsOwned DEF Put, db, DeliveryPoints
    <2>2. CASE Answer(d, "550") /\ LeaveObject(d)
      BY <1>0, <1>2, <2>2, AnswerEffect, DeliveryKeepsOwned DEF Put, db, LeaveObject, Replies
    <2>. QED
      BY <1>2, <2>1, <2>2 DEF Put
  <1>3. CASE PutFails(d)
    <2>1. CASE objects' = objects /\ UNCHANGED orphaned
      BY <1>0, <1>3, <2>1, AnswerEffect, DeliveryKeepsOwned DEF PutFails, db, Replies
    <2>2. CASE Answer(d, "451") /\ LeaveObject(d)
      BY <1>0, <1>3, <2>2, AnswerEffect, DeliveryKeepsOwned
         DEF PutFails, db, LeaveObject, Replies
    <2>. QED
      BY <1>3, <2>1, <2>2 DEF PutFails
  <1>4. ASSUME NEW reply \in Replies, Answer(d, reply), LeaveObject(d),
               UNCHANGED <<db, objects, sweep>>
        PROVE  OwnedInv'
    BY <1>0, <1>4, AnswerEffect, DeliveryKeepsOwned DEF db, LeaveObject
  <1>5. ASSUME NEW pc \in {"locked", "insert", "inserted"}, Advance(d, pc),
               UNCHANGED <<db, objects, sweep, orphaned>>
        PROVE  OwnedInv'
    BY <1>0, <1>5, AdvanceEffect, DeliveryKeepsOwned DEF db, DeliveryPoints
  <1>6. CASE LockRecipients(d)
    BY <1>4, <1>5, <1>6, Zenon DEF LockRecipients, Replies
  <1>7. CASE InsertContent(d)
    <2>1. /\ delivery'[d].pc \in {"reuse", "insert"}
          /\ delivery'[d].key = delivery[d].key
          /\ \A e \in Deliveries : e # d => delivery'[e] = delivery[e]
      BY <1>0, <1>7 DEF InsertContent, TypeOK, DeliveryRecord
    <2>. QED
      BY <1>7, <2>1, DeliveryKeepsOwned DEF InsertContent, db
  <1>8. CASE ReadExistingSize(d)
    BY <1>4, <1>5, <1>8, Zenon DEF ReadExistingSize, Replies
  <1>9. CASE InsertMessages(d)
    BY <1>4, <1>5, <1>9, Zenon DEF InsertMessages, Replies
  <1>10. CASE CommitDelivery(d)
    <2>1. \A e \in Deliveries : e # d => delivery'[e] = delivery[e]
      BY <1>0, <1>10, AdvanceEffect DEF CommitDelivery, DeliveryPoints
    <2>. QED
      BY <1>10, <2>1, DeliveryKeepsOwned, Zenon DEF CommitDelivery, Apply
  <1>11. CASE CommitUnconfirmed(d)
    BY <1>0, <1>11, AnswerEffect, DeliveryKeepsOwned, Zenon DEF CommitUnconfirmed, Apply, Replies
  <1>12. CASE DeliveryFails(d)
    BY <1>4, <1>12 DEF DeliveryFails, Replies
  <1>13. CASE CommitAbandoned(d)
    <2>1. /\ delivery'[d].pc = "limbo"
          /\ delivery'[d].key = delivery[d].key
          /\ \A e \in Deliveries : e # d => delivery'[e] = delivery[e]
      BY <1>0, <1>13 DEF CommitAbandoned, TypeOK, DeliveryRecord
    <2>. QED
      BY <1>13, <2>1, DeliveryKeepsOwned DEF CommitAbandoned, db
  <1>14. CASE LateCommit(d)
    <2>1. \A e \in Deliveries : e # d => delivery'[e] = delivery[e]
      BY <1>0, <1>14, AdvanceEffect DEF LateCommit, DeliveryPoints
    <2>2. CASE Apply(d)
      BY <1>14, <2>1, <2>2, DeliveryKeepsOwned, Zenon DEF LateCommit, Apply
    <2>3. CASE LeaveObject(d) /\ UNCHANGED db
      BY <1>14, <2>1, <2>3, DeliveryKeepsOwned, Zenon DEF LateCommit, LeaveObject, db
    <2>. QED
      BY <1>14, <2>2, <2>3 DEF LateCommit
  <1>15. CASE ReplyDelivered(d) \/ ReplyLost(d)
    <2>1. \A e \in Deliveries : e # d => delivery'[e] = delivery[e]
      BY <1>0, <1>15, AnswerEffect DEF ReplyDelivered, ReplyLost, Replies
    <2>2. delivery[d].pc \notin HeldPoints /\ UNCHANGED <<db, objects, sweep, orphaned>>
      BY <1>15 DEF ReplyDelivered, ReplyLost
    <2>. QED
      BY <2>1, <2>2, DeliveryKeepsOwned DEF db
  <1>. QED
    BY <1>1, <1>2, <1>3, <1>6, <1>7, <1>8, <1>9, <1>10, <1>11, <1>12, <1>13, <1>14, <1>15
       DEF DeliveryStep, DeliveryFault

\* A deletion that drops a mail_contents row enqueues its object in the same
\* transaction.
LEMMA DeletionOwned ==
  ASSUME TypeInv, OwnedInv, NEW x \in Deleters,
         BeginDeleteInbox(x) \/ BeginDeleteMessage(x) \/ RequestStep(x) \/ DeletionFails(x)
  PROVE  OwnedInv'
  <1>0. TypeOK /\ sweep \in SweepRecord /\ content_deletion_queue \in [Contents -> Nat]
    BY DEF TypeInv, TypeOK
  <1>1. ASSUME UNCHANGED <<db, objects, delivery, sweep, orphaned>>
        PROVE  OwnedInv'
    BY <1>1, SettledKept DEF Settled, Held, db
  <1>2. CASE ~CommitDeletion(x)
    BY <1>1, <1>2, Zenon DEF BeginDeleteInbox, BeginDeleteMessage, RequestStep, LockInbox, LockMessage,
                      DeletionStep, RemoveRows, ScanContent, DropContent, DeletionFails
  <1>3. CASE CommitDeletion(x)
    <2>. DEFINE D == deletion[x].dropped
    <2>1. /\ mail_contents' = mail_contents \ D
          /\ UNCHANGED <<objects, delivery, orphaned>>
      BY <1>3 DEF CommitDeletion
    <2>2. \A c \in Contents :
            content_deletion_queue'[c] = content_deletion_queue[c] + (IF c \in D THEN 1 ELSE 0)
      BY <1>3 DEF CommitDeletion, Enqueue
    <2>3. \/ sweep' = sweep
          \/ sweep'.pc = "list" /\ sweep'.page = sweep.page
      BY <1>0, <1>3 DEF CommitDeletion, AfterCleanup, SweepRecord
    <2>. HIDE DEF D
    <2>4. \A c \in Contents : Settled(c) => Settled(c)' \/ c \in D
      BY <2>1 DEF Settled, Held
    <2>5. \A c \in Contents : /\ content_deletion_queue'[c] >= content_deletion_queue[c]
                              /\ c \in D => content_deletion_queue'[c] > content_deletion_queue[c]
                              /\ content_deletion_queue[c] \in Nat
                              /\ content_deletion_queue'[c] \in Nat
      BY <1>0, <2>2
    <2>6. AllOwned'
      BY <2>4, <2>5 DEF OwnedInv, AllOwned
    <2>7. \A t : Queued(t) => Queued(t)'
      BY <2>5 DEF Queued, Task
    <2>8. PageQueued'
      BY <2>3, <2>7 DEF OwnedInv, PageQueued
    <2>9. ItemQueued'
      BY <2>3, <2>7 DEF OwnedInv, ItemQueued
    <2>10. AckIsSafe'
      <3>. SUFFICES ASSUME sweep'.pc = "ack",
                           content_deletion_queue'[sweep'.item.key] = sweep'.item.generation
                    PROVE  Settled(sweep.item.key)' /\ sweep' = sweep
        BY DEF AckIsSafe, Settled, Held
      <3>1. sweep' = sweep
        BY <2>3
      <3>2. Queued(sweep.item) /\ sweep.item.key \in Contents /\ sweep.item.generation \in Nat
        BY <3>1 DEF OwnedInv, ItemQueued, Queued, Task
      <3>3. sweep.item.key \notin D /\ content_deletion_queue[sweep.item.key] = sweep.item.generation
        BY <2>5, <3>1, <3>2 DEF Queued
      <3>. QED
        BY <2>4, <3>1, <3>2, <3>3 DEF OwnedInv, AckIsSafe
    <2>. QED
      BY <2>6, <2>8, <2>9, <2>10 DEF OwnedInv
  <1>. QED
    BY <1>2, <1>3

\* The sweep removes an object before it acknowledges the task, and only its
\* own generation.
LEMMA SweepOwned ==
  ASSUME TypeInv, OwnedInv,
         \/ BeginCleanup \/ ListDeletions \/ NextDeletion \/ RecheckReference
         \/ RemoveObject \/ Acknowledge \/ SweepStepFails \/ SweepReturns
  PROVE  OwnedInv'
  <1>0. TypeOK /\ sweep \in SweepRecord /\ content_deletion_queue \in [Contents -> Nat]
    BY DEF TypeInv, TypeOK
  <1>1. CASE BeginCleanup
    <2>1. \/ sweep' = sweep
          \/ sweep'.pc = "list" /\ sweep'.page = sweep.page
      BY <1>0, <1>1, Zenon DEF BeginCleanup, SweepRecord
    <2>2. UNCHANGED <<mail_contents, content_deletion_queue, objects, delivery, orphaned>>
      BY <1>1, Zenon DEF BeginCleanup, db
    <2>3. AllOwned'
      BY <2>2 DEF OwnedInv, AllOwned, Settled, Held
    <2>4. PageQueued' /\ ItemQueued'
      BY <2>1, <2>2 DEF OwnedInv, PageQueued, ItemQueued, Queued
    <2>5. AckIsSafe'
      BY <2>1, <2>2 DEF OwnedInv, AckIsSafe, Settled, Held
    <2>. QED
      BY <2>3, <2>4, <2>5 DEF OwnedInv
  <1>2. ASSUME UNCHANGED <<mail_contents, content_deletion_queue, objects, delivery, orphaned>>,
               sweep'.pc # "ack", PageQueued', ItemQueued'
        PROVE  OwnedInv'
    BY <1>2 DEF OwnedInv, AllOwned, Settled, Held, AckIsSafe
  <1>3. CASE ListDeletions
    <2>1. PICK page :
            /\ page \subseteq {[key |-> c, generation |-> content_deletion_queue[c]] :
                                c \in {k \in Contents : content_deletion_queue[k] > 0}}
            /\ sweep' = [sweep EXCEPT !.pc = "next", !.page = page]
      BY <1>3, Zenon DEF ListDeletions
    <2>2. sweep'.pc = "next" /\ sweep'.page = page
      BY <1>0, <2>1 DEF SweepRecord
    <2>3. UNCHANGED <<mail_contents, content_deletion_queue, objects, delivery, orphaned>>
      BY <1>3, Zenon DEF ListDeletions, db
    <2>4. \A t \in page : Queued(t) /\ t.generation = content_deletion_queue[t.key]
                          /\ t = [key |-> t.key, generation |-> t.generation]
      BY <1>0, <2>1 DEF Queued, Task
    <2>5. PageQueued'
      BY <2>2, <2>3, <2>4 DEF PageQueued, Queued
    <2>. QED
      BY <1>2, <2>2, <2>3, <2>5 DEF ItemQueued
  <1>4. CASE NextDeletion
    <2>1. UNCHANGED <<mail_contents, content_deletion_queue, objects, delivery, orphaned>>
      BY <1>4 DEF NextDeletion, db
    <2>2. CASE sweep' = [sweep EXCEPT !.pc = "cleanup", !.item = NoItem]
      <3>1. sweep'.pc = "cleanup" /\ sweep'.page = sweep.page
        BY <1>0, <2>2 DEF SweepRecord
      <3>. QED
        BY <1>2, <2>1, <3>1 DEF OwnedInv, PageQueued, ItemQueued
    <2>3. CASE \E task \in sweep.page :
                 sweep' = [pc |-> "fence", page |-> sweep.page \ {task}, item |-> task]
      <3>1. PICK task \in sweep.page :
                 sweep' = [pc |-> "fence", page |-> sweep.page \ {task}, item |-> task]
        BY <2>3
      <3>2. sweep'.pc = "fence" /\ sweep'.page = sweep.page \ {task} /\ sweep'.item = task
        BY <3>1
      <3>3. \A t \in sweep.page : Queued(t)'
        BY <1>4, <2>1 DEF NextDeletion, OwnedInv, PageQueued, Queued
      <3>. QED
        BY <1>2, <2>1, <3>2, <3>3 DEF OwnedInv, PageQueued, ItemQueued
    <2>. QED
      BY <1>4, <2>2, <2>3 DEF NextDeletion
  <1>5. CASE RecheckReference
    <2>1. /\ sweep'.item = sweep.item /\ sweep'.page = sweep.page
          /\ sweep'.pc = IF sweep.item.key \in mail_contents THEN "ack" ELSE "remove"
      BY <1>0, <1>5 DEF RecheckReference, SweepRecord
    <2>2. UNCHANGED <<mail_contents, content_deletion_queue, objects, delivery, orphaned>>
          /\ sweep.pc = "fence"
      BY <1>5 DEF RecheckReference, db
    <2>3. AllOwned'
      BY <2>2 DEF OwnedInv, AllOwned, Settled, Held
    <2>4. PageQueued' /\ ItemQueued'
      BY <2>1, <2>2 DEF OwnedInv, PageQueued, ItemQueued, Queued
    <2>5. AckIsSafe'
      BY <2>1, <2>2 DEF AckIsSafe, Settled
    <2>. QED
      BY <2>3, <2>4, <2>5 DEF OwnedInv
  <1>6. CASE RemoveObject
    <2>1. sweep'.item = sweep.item /\ sweep'.page = sweep.page /\ sweep'.pc = "ack"
      BY <1>0, <1>6 DEF RemoveObject, SweepRecord
    <2>2. /\ UNCHANGED <<mail_contents, content_deletion_queue, delivery>> /\ sweep.pc = "remove"
          /\ objects' = objects \ {sweep.item.key} /\ orphaned' = orphaned \ {sweep.item.key}
      BY <1>6 DEF RemoveObject, db
    <2>3. AllOwned'
      BY <2>2 DEF OwnedInv, AllOwned, Settled, Held
    <2>4. PageQueued' /\ ItemQueued'
      BY <2>1, <2>2 DEF OwnedInv, PageQueued, ItemQueued, Queued
    <2>5. AckIsSafe'
      BY <2>1, <2>2 DEF AckIsSafe, Settled
    <2>. QED
      BY <2>3, <2>4, <2>5 DEF OwnedInv
  <1>7. CASE Acknowledge
    <2>. DEFINE c == sweep.item.key
    <2>1. sweep'.page = sweep.page /\ sweep'.pc = "next" /\ sweep.pc = "ack"
      BY <1>0, <1>7 DEF Acknowledge, SweepRecord
    <2>2. UNCHANGED <<mail_contents, objects, delivery, orphaned>>
      BY <1>7 DEF Acknowledge
    <2>3. c \in Contents /\ \A t \in sweep.page : t.key # c /\ Queued(t)
      BY <2>1 DEF OwnedInv, PageQueued, ItemQueued, Queued, Task
    <2>4. /\ \A k \in Contents : k # c => content_deletion_queue'[k] = content_deletion_queue[k]
          /\ content_deletion_queue[c] # sweep.item.generation
             => content_deletion_queue' = content_deletion_queue
      BY <1>0, <1>7 DEF Acknowledge
    <2>. HIDE DEF c
    <2>5. content_deletion_queue[c] = sweep.item.generation => Settled(c)
      BY <2>1 DEF OwnedInv, AckIsSafe, c
    <2>6. \A k \in Contents : Settled(k) => Settled(k)'
      BY <2>2 DEF Settled, Held
    <2>7. AllOwned'
      BY <2>3, <2>4, <2>5, <2>6 DEF OwnedInv, AllOwned
    <2>8. \A t \in sweep.page : Queued(t)'
      BY <2>3, <2>4 DEF Queued, Task
    <2>9. PageQueued' /\ ItemQueued' /\ AckIsSafe'
      BY <2>1, <2>8 DEF OwnedInv, PageQueued, ItemQueued, AckIsSafe
    <2>. QED
      BY <2>7, <2>9 DEF OwnedInv
  <1>8. CASE SweepStepFails
    <2>1. sweep'.page = sweep.page /\ sweep'.pc = "next"
      BY <1>0, <1>8 DEF SweepStepFails, SweepRecord
    <2>2. /\ UNCHANGED <<mail_contents, content_deletion_queue, delivery>>
          /\ sweep.pc \in {"fence", "remove", "ack"}
          /\ \/ UNCHANGED <<objects, orphaned>>
             \/ /\ objects' = objects \ {sweep.item.key}
                /\ orphaned' = orphaned \ {sweep.item.key}
      BY <1>8 DEF SweepStepFails, db
    <2>3. AllOwned'
      BY <2>2 DEF OwnedInv, AllOwned, Settled, Held
    <2>4. PageQueued' /\ ItemQueued' /\ AckIsSafe'
      BY <2>1, <2>2 DEF OwnedInv, PageQueued, ItemQueued, AckIsSafe, Queued
    <2>. QED
      BY <2>3, <2>4 DEF OwnedInv
  <1>9. CASE SweepReturns
    <2>1. sweep'.page = {} /\ sweep'.pc = "cleanup"
      BY <1>9 DEF SweepReturns
    <2>. QED
      BY <1>2, <1>9, <2>1 DEF SweepReturns, db, PageQueued, ItemQueued
  <1>. QED
    BY <1>1, <1>3, <1>4, <1>5, <1>6, <1>7, <1>8, <1>9

\* A crash hands the objects of running deliveries to the reconciler.
LEMMA EnvironmentOwned ==
  ASSUME TypeInv, OwnedInv, Crash \/ \E i \in Inboxes : Expire(i)
  PROVE  OwnedInv'
  <1>0. TypeOK
    BY DEF TypeInv
  <1>1. CASE Crash
    <2>1. UNCHANGED <<mail_contents, content_deletion_queue, objects>>
          /\ sweep'.page = {} /\ sweep'.pc = "cleanup"
      BY <1>1, Zenon DEF Crash, db
    <2>2. \A d \in Deliveries : d \notin Leased => delivery'[d] = delivery[d]
      BY <1>1, Zenon DEF Crash
    <2>3. \A d \in Leased : delivery[d].pc \in StoredPoints =>
            delivery[d].key \in orphaned' \union mail_contents
      BY <1>1, Zenon DEF Crash
    <2>4. orphaned \subseteq orphaned'
      BY <1>1, Zenon DEF Crash
    <2>5. ASSUME NEW c \in Contents, Settled(c)
          PROVE  Settled(c)'
      <3>1. CASE Held(c)
        <4>1. PICK d \in Deliveries : delivery[d].pc \in HeldPoints /\ delivery[d].key = c
          BY <3>1 DEF Held
        <4>2. CASE d \in Leased
          BY <2>1, <2>3, <4>1, <4>2 DEF Settled, HeldPoints, StoredPoints, Leased, LeasePoints
        <4>3. CASE d \notin Leased
          BY <2>2, <4>1, <4>3 DEF Settled, Held
        <4>. QED
          BY <4>2, <4>3
      <3>. QED
        BY <2>1, <2>4, <2>5, <3>1 DEF Settled
    <2>6. AllOwned'
      BY <2>1, <2>5 DEF OwnedInv, AllOwned
    <2>. QED
      BY <2>1, <2>6 DEF OwnedInv, PageQueued, ItemQueued, AckIsSafe
  <1>2. CASE \E i \in Inboxes : Expire(i)
    BY <1>2, SettledKept DEF Expire, Settled, Held
  <1>. QED
    BY <1>1, <1>2

\* OwnedInv is inductive: one case per group of actions.
LEMMA OwnedStep == TypeInv /\ OwnedInv /\ [Next]_vars => OwnedInv'
  <1>. SUFFICES ASSUME TypeInv, OwnedInv, [Next]_vars PROVE OwnedInv'
    OBVIOUS
  <1>1. CASE UNCHANGED vars
    BY <1>1, SettledKept DEF vars, Settled, Held
  <1>2. CASE Next
    BY <1>2, DeliveryOwned, DeletionOwned, SweepOwned, EnvironmentOwned
       DEF Next, SweepStep, RequestStep, Deleters
  <1>. QED
    BY <1>1, <1>2

\* Every object file without a row is in a delivery's hands, queued for deletion,
\* or the known leftover of a failed delivery.  This needs no assumption on late
\* commits.
THEOREM AlwaysOwned == Spec => []ObjectsOwned
  <1>1. Init => TypeInv /\ OwnedInv
    BY TypeInvInit, OwnedInit
  <1>2. TypeInv /\ OwnedInv => ObjectsOwned
    BY DEF TypeInv, TypeOK, OwnedInv, AllOwned, Settled, Held, HeldPoints, ObjectsOwned
  <1>. QED
    BY <1>1, <1>2, TypeStep, OwnedStep, PTL DEF Spec

-----------------------------------------------------------------------------
(* The foreign key from messages to mail_contents: the rows a deletion     *)
(* drops are never the rows a concurrent delivery commits a message for,   *)
(* and every row keeps its object file.                                    *)

\* An uncommitted mail_contents row, and a held FOR KEY SHARE lock.
Inserting(d) == delivery[d].pc \in {"insert", "inserted", "limbo"} /\ delivery[d].fresh
Sharing(d) == delivery[d].pc \in {"inserted", "limbo"} /\ ~delivery[d].fresh

\* Every committed message refers to a committed mail_contents row.
MessagesHaveRow == \A m \in messages : m.key \in mail_contents

\* A delivery that found a row did not insert it.
ReuseIsNotFresh == \A d \in Deliveries : delivery[d].pc = "reuse" => ~delivery[d].fresh

\* ON CONFLICT DO NOTHING inserted only what no committed row has.
FreshIsNew == \A d \in Deliveries : Inserting(d) => delivery[d].key \notin mail_contents

\* Two open deliveries never insert the same key: the second waits.
FreshIsUnique ==
  \A d, e \in Deliveries :
    Inserting(d) /\ Inserting(e) /\ delivery[d].key = delivery[e].key => d = e

\* A row locked FOR KEY SHARE is there and no open deletion has dropped it.
SharedIsKept ==
  \A d \in Deliveries : Sharing(d) =>
    /\ delivery[d].key \in mail_contents
    /\ \A x \in Deleters : delivery[d].key \notin deletion[x].dropped

\* A row an open deletion dropped has no messages but those the deletion
\* removes.
DroppedIsUnreferenced ==
  \A x \in Deleters : \A c \in deletion[x].dropped :
    /\ c \in mail_contents
    /\ \A m \in messages : m.key = c => m \in deletion[x].gone

\* Two open deletions never drop the same row.
DroppedIsUnique ==
  \A x, y \in Deleters : \A c \in deletion[x].dropped : c \in deletion[y].dropped => x = y

\* Rows are dropped only after the DELETE of the messages.
DroppedAfterRemoval ==
  \A x \in Deleters : deletion[x].pc \notin {"removed", "pruning"} => deletion[x].dropped = {}

\* The inductive invariant of the tables.
RowsInv ==
  /\ MessagesHaveRow
  /\ ReuseIsNotFresh
  /\ FreshIsNew
  /\ FreshIsUnique
  /\ SharedIsKept
  /\ DroppedIsUnreferenced
  /\ DroppedIsUnique
  /\ DroppedAfterRemoval

\* The empty tables are consistent.
LEMMA RowsInit == Init => RowsInv
  BY DEF Init, RowsInv, MessagesHaveRow, ReuseIsNotFresh, FreshIsNew, FreshIsUnique,
         SharedIsKept, DroppedIsUnreferenced, DroppedIsUnique, DroppedAfterRemoval,
         Inserting, Sharing, NoDelivery, NoDeletion

\* A step that writes no committed row and neither inserts nor locks one.
LEMMA QuietDelivery ==
  ASSUME RowsInv, UNCHANGED <<mail_contents, messages, deletion>>,
         ReuseIsNotFresh',
         \A d \in Deliveries :
           /\ Inserting(d)' => Inserting(d) /\ delivery'[d].key = delivery[d].key
           /\ Sharing(d)' => Sharing(d) /\ delivery'[d].key = delivery[d].key
  PROVE  RowsInv'
  <1>1. MessagesHaveRow'
    BY DEF RowsInv, MessagesHaveRow
  <1>2. FreshIsNew'
    BY DEF RowsInv, FreshIsNew
  <1>3. FreshIsUnique'
    BY DEF RowsInv, FreshIsUnique
  <1>4. SharedIsKept'
    BY DEF RowsInv, SharedIsKept
  <1>5. DroppedIsUnreferenced' /\ DroppedIsUnique' /\ DroppedAfterRemoval'
    BY DEF RowsInv, DroppedIsUnreferenced, DroppedIsUnique, DroppedAfterRemoval
  <1>. QED
    BY <1>1, <1>2, <1>3, <1>4, <1>5 DEF RowsInv

\* A step of deleting transactions that drops no further row.
LEMMA QuietDeletion ==
  ASSUME RowsInv, UNCHANGED <<mail_contents, messages, delivery>>,
         DroppedAfterRemoval',
         \A x \in Deleters : \A c \in deletion'[x].dropped :
           /\ c \in deletion[x].dropped
           /\ deletion[x].gone \subseteq deletion'[x].gone
  PROVE  RowsInv'
  <1>1. MessagesHaveRow' /\ ReuseIsNotFresh' /\ FreshIsNew' /\ FreshIsUnique'
    BY DEF RowsInv, MessagesHaveRow, ReuseIsNotFresh, FreshIsNew, FreshIsUnique, Inserting
  <1>2. SharedIsKept'
    BY DEF RowsInv, SharedIsKept, Sharing
  <1>3. DroppedIsUnreferenced'
    BY DEF RowsInv, DroppedIsUnreferenced
  <1>4. DroppedIsUnique'
    BY DEF RowsInv, DroppedIsUnique
  <1>. QED
    BY <1>1, <1>2, <1>3, <1>4 DEF RowsInv

\* COMMIT of a delivery: its messages refer to a row it inserted itself, which no
\* deletion can have seen, or to one its lock has kept.
LEMMA ApplyRows ==
  ASSUME TypeInv, RowsInv, NEW d \in Deliveries, Apply(d),
         delivery[d].pc \in {"inserted", "limbo"},
         delivery'[d].pc \in {"committed", "late", "done"},
         \A e \in Deliveries : e # d => delivery'[e] = delivery[e],
         UNCHANGED deletion
  PROVE  RowsInv'
  <1>. DEFINE c == delivery[d].key
  <1>1. \A x \in Deleters : c \notin deletion[x].dropped
    BY DEF RowsInv, Inserting, Sharing, FreshIsNew, SharedIsKept, DroppedIsUnreferenced
  <1>2. \A e \in Deliveries : Inserting(e)' =>
          e # d /\ Inserting(e) /\ delivery'[e].key = delivery[e].key
    BY DEF Inserting
  <1>3. \A e \in Deliveries : Sharing(e)' =>
          e # d /\ Sharing(e) /\ delivery'[e].key = delivery[e].key
    BY DEF Sharing
  <1>4. mail_contents' = mail_contents \union {c}
        /\ \A m \in messages' : m \in messages \/ m.key = c
    BY DEF Apply
  <1>. HIDE DEF c
  <1>5. MessagesHaveRow'
    BY <1>4 DEF RowsInv, MessagesHaveRow
  <1>6. ReuseIsNotFresh'
    BY DEF RowsInv, ReuseIsNotFresh
  <1>7. FreshIsNew'
    <2>. SUFFICES ASSUME NEW e \in Deliveries, Inserting(e)'
                  PROVE  delivery'[e].key \notin mail_contents'
      BY DEF FreshIsNew
    <2>1. e # d /\ Inserting(e) /\ delivery'[e].key = delivery[e].key
      BY <1>2
    <2>2. delivery[e].key \notin mail_contents
      BY <2>1 DEF RowsInv, FreshIsNew
    <2>3. Inserting(d) \/ c \in mail_contents
      BY DEF RowsInv, SharedIsKept, Inserting, Sharing, c
    <2>4. delivery[e].key # c
      BY <2>1, <2>2, <2>3 DEF RowsInv, FreshIsUnique, c
    <2>. QED
      BY <1>4, <2>1, <2>2, <2>4
  <1>8. FreshIsUnique'
    BY <1>2 DEF RowsInv, FreshIsUnique
  <1>9. SharedIsKept'
    BY <1>3, <1>4 DEF RowsInv, SharedIsKept
  <1>10. DroppedIsUnreferenced'
    BY <1>1, <1>4 DEF RowsInv, DroppedIsUnreferenced
  <1>11. DroppedIsUnique' /\ DroppedAfterRemoval'
    BY Zenon DEF RowsInv, DroppedIsUnique, DroppedAfterRemoval
  <1>. QED
    BY <1>5, <1>6, <1>7, <1>8, <1>9, <1>10, <1>11 DEF RowsInv

\* A delivery that ends without commit leaves the rows as they are.
LEMMA AnswerRows ==
  ASSUME TypeInv, RowsInv, NEW d \in Deliveries, NEW reply \in Replies, Answer(d, reply),
         UNCHANGED <<mail_contents, messages, deletion>>
  PROVE  RowsInv'
  <1>1. /\ delivery'[d].pc = "done"
        /\ \A e \in Deliveries : e # d => delivery'[e] = delivery[e]
    BY AnswerEffect DEF TypeInv
  <1>2. ReuseIsNotFresh'
    BY <1>1 DEF RowsInv, ReuseIsNotFresh
  <1>3. \A e \in Deliveries :
           /\ Inserting(e)' => Inserting(e) /\ delivery'[e].key = delivery[e].key
           /\ Sharing(e)' => Sharing(e) /\ delivery'[e].key = delivery[e].key
    BY <1>1 DEF Inserting, Sharing
  <1>. QED
    BY <1>2, <1>3, QuietDelivery

\* A delivery that moves on without writing.
LEMMA AdvanceRows ==
  ASSUME TypeInv, RowsInv, NEW d \in Deliveries, NEW pc \in DeliveryPoints, Advance(d, pc),
         pc \in {"begun", "locked"} \/ (pc = "insert" /\ delivery[d].pc = "reuse"),
         UNCHANGED <<mail_contents, messages, deletion>>
  PROVE  RowsInv'
  <1>1. /\ delivery'[d].pc = pc
        /\ delivery'[d].fresh = delivery[d].fresh
        /\ \A e \in Deliveries : e # d => delivery'[e] = delivery[e]
    BY AdvanceEffect DEF TypeInv
  <1>2. ReuseIsNotFresh'
    BY <1>1 DEF RowsInv, ReuseIsNotFresh
  <1>3. ~Inserting(d)' /\ ~Sharing(d)'
    BY <1>1 DEF Inserting, Sharing, RowsInv, ReuseIsNotFresh
  <1>4. \A e \in Deliveries :
           /\ Inserting(e)' => Inserting(e) /\ delivery'[e].key = delivery[e].key
           /\ Sharing(e)' => Sharing(e) /\ delivery'[e].key = delivery[e].key
    BY <1>1, <1>3 DEF Inserting, Sharing
  <1>. QED
    BY <1>2, <1>4, QuietDelivery

\* Every statement of CommitDelivery keeps the tables consistent.
LEMMA DeliveryRows ==
  ASSUME TypeInv, RowsInv, NEW d \in Deliveries,
         Receive(d) \/ DeliveryStep(d) \/ DeliveryFault(d)
  PROVE  RowsInv'
  <1>0. TypeOK /\ delivery[d] \in DeliveryRecord
    BY DEF TypeInv, TypeOK
  <1>1. CASE Receive(d)
    <2>0. PICK c, R :
            delivery' = [delivery EXCEPT ![d] = [@ EXCEPT !.pc = "put", !.key = c, !.rcpt = R]]
      BY <1>1, Zenon DEF Receive
    <2>1. /\ delivery'[d].pc = "put"
          /\ \A e \in Deliveries : e # d => delivery'[e] = delivery[e]
      BY <1>0, <2>0 DEF TypeOK, DeliveryRecord
    <2>2. ReuseIsNotFresh'
      BY <2>1 DEF RowsInv, ReuseIsNotFresh
    <2>3. \A e \in Deliveries :
            /\ Inserting(e)' => Inserting(e) /\ delivery'[e].key = delivery[e].key
            /\ Sharing(e)' => Sharing(e) /\ delivery'[e].key = delivery[e].key
      BY <2>1 DEF Inserting, Sharing
    <2>. QED
      BY <1>1, <2>2, <2>3, QuietDelivery, Zenon DEF Receive, db
  <1>2. CASE Put(d)
    BY <1>2, AdvanceRows, AnswerRows DEF Put, db, DeliveryPoints, LeasePoints, Replies
  <1>3. CASE PutFails(d)
    BY <1>3, AnswerRows DEF PutFails, db, Replies
  <1>4. CASE LockRecipients(d)
    BY <1>4, AdvanceRows, AnswerRows, Zenon DEF LockRecipients, db, DeliveryPoints, LeasePoints, Replies
  <1>5. CASE InsertContent(d)
    <2>. DEFINE c == delivery[d].key
    <2>1. /\ delivery'[d].key = c
          /\ delivery'[d].pc = IF c \in mail_contents THEN "reuse" ELSE "insert"
          /\ delivery'[d].fresh = (c \notin mail_contents)
          /\ \A e \in Deliveries : e # d => delivery'[e] = delivery[e]
      BY <1>0, <1>5 DEF InsertContent, TypeOK, DeliveryRecord
    <2>2. \A e \in Deliveries : Inserting(e) => delivery[e].key # c
      BY <1>5 DEF InsertContent, ContentInserted, Inserting
    <2>3. UNCHANGED <<mail_contents, messages, deletion>>
      BY <1>5 DEF InsertContent, db
    <2>. HIDE DEF c
    <2>4. ReuseIsNotFresh'
      BY <2>1, Zenon DEF RowsInv, ReuseIsNotFresh
    <2>5. \A e \in Deliveries : Inserting(e)' =>
            \/ e = d /\ delivery'[e].key = c /\ c \notin mail_contents
            \/ e # d /\ Inserting(e) /\ delivery'[e].key = delivery[e].key
      BY <2>1 DEF Inserting
    <2>6. \A e \in Deliveries :
            Sharing(e)' => Sharing(e) /\ delivery'[e].key = delivery[e].key
      BY <2>1 DEF Sharing
    <2>7. FreshIsNew'
      BY <2>3, <2>5 DEF RowsInv, FreshIsNew
    <2>8. FreshIsUnique'
      BY <2>2, <2>5 DEF RowsInv, FreshIsUnique
    <2>9. SharedIsKept'
      BY <2>3, <2>6 DEF RowsInv, SharedIsKept
    <2>10. MessagesHaveRow' /\ DroppedIsUnreferenced' /\ DroppedIsUnique' /\ DroppedAfterRemoval'
      BY <2>3, Zenon DEF RowsInv, MessagesHaveRow, DroppedIsUnreferenced, DroppedIsUnique,
                  DroppedAfterRemoval
    <2>. QED
      BY <2>4, <2>7, <2>8, <2>9, <2>10 DEF RowsInv
  <1>6. CASE ReadExistingSize(d)
    BY <1>6, AdvanceRows, AnswerRows, Zenon
       DEF ReadExistingSize, db, DeliveryPoints, LeasePoints, Replies
  <1>7. CASE InsertMessages(d)
    <2>. DEFINE c == delivery[d].key
    <2>1. CASE Answer(d, "550")
      BY <1>7, <2>1, AnswerRows, Zenon DEF InsertMessages, db, Replies
    <2>2. CASE Advance(d, "inserted") /\ (delivery[d].fresh \/ c \in mail_contents)
      <3>1. /\ delivery'[d].pc = "inserted"
            /\ delivery'[d].key = c
            /\ delivery'[d].fresh = delivery[d].fresh
            /\ \A e \in Deliveries : e # d => delivery'[e] = delivery[e]
        BY <1>0, <2>2, AdvanceEffect, Zenon DEF DeliveryPoints, LeasePoints
      <3>2. UNCHANGED <<mail_contents, messages, deletion>>
        BY <1>7, Zenon DEF InsertMessages, db
      <3>3. delivery[d].pc = "insert"
        BY <1>7, Zenon DEF InsertMessages
      <3>4. \A e \in Deliveries :
              Inserting(e)' => Inserting(e) /\ delivery'[e].key = delivery[e].key
        BY <3>1, <3>3 DEF Inserting
      <3>5. \A x \in Deleters : c \in deletion[x].dropped => delivery[d].fresh
        <4>1. \A x \in Deleters : x # d
          BY LifecycleAssumption DEF Deleters
        <4>2. \A x \in Deleters :
                deletion[x].dropped # {} => deletion[x].pc \in DeletionLocks
          BY DEF RowsInv, DroppedAfterRemoval, DeletionLocks
        <4>. QED
          BY <1>7, <4>1, <4>2, Zenon DEF InsertMessages, ContentExclusive
      <3>6. ReuseIsNotFresh'
        BY <3>1 DEF RowsInv, ReuseIsNotFresh
      <3>7. FreshIsNew' /\ FreshIsUnique'
        BY <3>2, <3>4, Zenon DEF RowsInv, FreshIsNew, FreshIsUnique
      <3>8. SharedIsKept'
        BY <2>2, <3>1, <3>2, <3>5, Zenon DEF RowsInv, SharedIsKept, Sharing
      <3>9. MessagesHaveRow' /\ DroppedIsUnreferenced' /\ DroppedIsUnique' /\ DroppedAfterRemoval'
        BY <3>2, Zenon DEF RowsInv, MessagesHaveRow, DroppedIsUnreferenced, DroppedIsUnique,
                    DroppedAfterRemoval
      <3>. QED
        BY <3>6, <3>7, <3>8, <3>9 DEF RowsInv
    <2>. QED
      BY <1>7, <2>1, <2>2, Zenon DEF InsertMessages
  <1>8. CASE CommitDelivery(d)
    <2>1. /\ delivery'[d].pc = "committed"
          /\ \A e \in Deliveries : e # d => delivery'[e] = delivery[e]
      BY <1>0, <1>8, AdvanceEffect, Zenon DEF CommitDelivery, DeliveryPoints, LeasePoints
    <2>. QED
      BY <1>8, <2>1, ApplyRows, Zenon DEF CommitDelivery
  <1>9. CASE CommitUnconfirmed(d)
    BY <1>0, <1>9, ApplyRows, AnswerEffect, Zenon DEF CommitUnconfirmed, Replies
  <1>10. CASE DeliveryFails(d)
    BY <1>10, AnswerRows DEF DeliveryFails, db, Replies
  <1>11. CASE CommitAbandoned(d)
    <2>1. /\ delivery[d].pc = "inserted"
          /\ delivery'[d].pc = "limbo"
          /\ delivery'[d].key = delivery[d].key
          /\ delivery'[d].fresh = delivery[d].fresh
          /\ \A e \in Deliveries : e # d => delivery'[e] = delivery[e]
      BY <1>0, <1>11 DEF CommitAbandoned, TypeOK, DeliveryRecord
    <2>2. ReuseIsNotFresh'
      BY <2>1 DEF RowsInv, ReuseIsNotFresh
    <2>3. \A e \in Deliveries :
            /\ Inserting(e)' => Inserting(e) /\ delivery'[e].key = delivery[e].key
            /\ Sharing(e)' => Sharing(e) /\ delivery'[e].key = delivery[e].key
      BY <2>1, Zenon DEF Inserting, Sharing
    <2>. QED
      BY <1>11, <2>2, <2>3, QuietDelivery DEF CommitAbandoned, db
  <1>12. CASE LateCommit(d)
    <2>1. /\ delivery'[d].pc \in {"late", "done"}
          /\ \A e \in Deliveries : e # d => delivery'[e] = delivery[e]
      BY <1>0, <1>12, AdvanceEffect, Zenon DEF LateCommit, DeliveryPoints
    <2>2. CASE Apply(d)
      BY <1>12, <2>1, <2>2, ApplyRows, Zenon DEF LateCommit
    <2>3. CASE UNCHANGED db
      <3>1. ReuseIsNotFresh'
        BY <2>1 DEF RowsInv, ReuseIsNotFresh
      <3>2. \A e \in Deliveries :
              /\ Inserting(e)' => Inserting(e) /\ delivery'[e].key = delivery[e].key
              /\ Sharing(e)' => Sharing(e) /\ delivery'[e].key = delivery[e].key
        BY <2>1, Zenon DEF Inserting, Sharing
      <3>. QED
        BY <1>12, <2>3, <3>1, <3>2, QuietDelivery, Zenon DEF LateCommit, db
    <2>. QED
      BY <1>12, <2>2, <2>3 DEF LateCommit
  <1>13. CASE ReplyDelivered(d) \/ ReplyLost(d)
    BY <1>13, AnswerRows DEF ReplyDelivered, ReplyLost, db, Replies
  <1>. QED
    BY <1>1, <1>2, <1>3, <1>4, <1>5, <1>6, <1>7, <1>8, <1>9, <1>10, <1>11, <1>12, <1>13
       DEF DeliveryStep, DeliveryFault

\* Only the record of x changes, and not to one with more dropped rows.
LEMMA QuietUpdate ==
  ASSUME TypeInv, RowsInv, NEW x \in Deleters, NEW r,
         deletion' = [deletion EXCEPT ![x] = r],
         r.dropped = {} \/ (/\ r.dropped = deletion[x].dropped
                            /\ r.gone = deletion[x].gone
                            /\ r.pc \in {"removed", "pruning"}),
         UNCHANGED <<mail_contents, messages, delivery>>
  PROVE  RowsInv'
  <1>1. deletion'[x] = r /\ \A y \in Deleters : y # x => deletion'[y] = deletion[y]
    BY DEF TypeInv, TypeOK
  <1>2. DroppedAfterRemoval'
    BY <1>1 DEF RowsInv, DroppedAfterRemoval
  <1>3. \A y \in Deleters : \A c \in deletion'[y].dropped :
          c \in deletion[y].dropped /\ deletion[y].gone \subseteq deletion'[y].gone
    BY <1>1
  <1>. QED
    BY <1>2, <1>3, QuietDeletion, Zenon

\* A deletion that rolls back, or finds its target gone, keeps them consistent.
LEMMA EndRows ==
  ASSUME TypeInv, RowsInv, NEW x \in Deleters, End(x),
         UNCHANGED <<mail_contents, messages, delivery>>
  PROVE  RowsInv'
  <1>1. Ended(x).dropped = {}
    BY DEF Ended, NoDeletion
  <1>. QED
    BY <1>1, QuietUpdate, Zenon DEF End

\* Every statement of a deleting transaction keeps them consistent.
LEMMA DeletionRows ==
  ASSUME TypeInv, RowsInv, NEW x \in Deleters,
         BeginDeleteInbox(x) \/ BeginDeleteMessage(x) \/ RequestStep(x) \/ DeletionFails(x)
  PROVE  RowsInv'
  <1>0. TypeOK /\ deletion[x] \in DeletionRecord
    BY DEF TypeInv, TypeOK
  <1>. DEFINE old == deletion[x]
  <1>1. old.pc \notin {"removed", "pruning"} => old.dropped = {}
    BY Zenon DEF RowsInv, DroppedAfterRemoval
  <1>2. CASE BeginDeleteInbox(x)
    <2>1. PICK i : deletion' = [deletion EXCEPT ![x] = [old EXCEPT !.pc = "begun", !.inboxes = {i}]]
      BY <1>0, <1>2, Zenon DEF BeginDeleteInbox, TypeOK
    <2>2. [old EXCEPT !.pc = "begun", !.inboxes = {i}].dropped = {}
      BY <1>0, <1>1, <1>2, Zenon DEF BeginDeleteInbox, DeletionRecord
    <2>. QED
      BY <1>2, <2>1, <2>2, QuietUpdate, Zenon DEF BeginDeleteInbox, db
  <1>3. CASE BeginDeleteMessage(x)
    <2>1. PICK m : deletion' = [deletion EXCEPT ![x] = [old EXCEPT !.pc = "begun", !.msgs = {m}]]
      BY <1>0, <1>3, Zenon DEF BeginDeleteMessage, TypeOK
    <2>2. [old EXCEPT !.pc = "begun", !.msgs = {m}].dropped = {}
      BY <1>0, <1>1, <1>3, Zenon DEF BeginDeleteMessage, DeletionRecord
    <2>. QED
      BY <1>3, <2>1, <2>2, QuietUpdate, Zenon DEF BeginDeleteMessage, db
  <1>4. CASE LockInbox(x)
    <2>. DEFINE r == [old EXCEPT !.pc = "locked", !.refs = KeysIn(old.inboxes)]
    <2>1. End(x) \/ deletion' = [deletion EXCEPT ![x] = r]
      BY <1>0, <1>4 DEF LockInbox, TypeOK
    <2>2. r.dropped = {}
      BY <1>0, <1>1, <1>4 DEF LockInbox, DeletionRecord
    <2>. HIDE DEF r
    <2>. QED
      BY <1>4, <2>1, <2>2, EndRows, QuietUpdate DEF LockInbox, db
  <1>5. CASE LockMessage(x)
    <2>1. CASE End(x)
      BY <1>5, <2>1, EndRows DEF LockMessage, db
    <2>2. CASE ~End(x)
      <3>1. PICK m : deletion' = [deletion EXCEPT ![x] =
                                    [old EXCEPT !.pc = "locked", !.refs = {m.key}]]
        BY <1>0, <1>5, <2>2, Zenon DEF LockMessage, TypeOK
      <3>2. [old EXCEPT !.pc = "locked", !.refs = {m.key}].dropped = {}
        BY <1>0, <1>1, <1>5 DEF LockMessage, DeletionRecord
      <3>. QED
        BY <1>5, <3>1, <3>2, QuietUpdate, Zenon DEF LockMessage, db
    <2>. QED
      BY <2>1, <2>2
  <1>6. CASE RemoveRows(x)
    <2>. DEFINE victims == {m \in messages : m \in old.msgs \/ m.inbox \in old.inboxes}
                r == [old EXCEPT !.pc = "removed", !.gone = victims]
    <2>1. deletion' = [deletion EXCEPT ![x] = r]
      BY <1>0, <1>6 DEF RemoveRows, TypeOK
    <2>. HIDE DEF victims
    <2>2. r.dropped = {}
      BY <1>0, <1>1, <1>6 DEF RemoveRows, DeletionRecord
    <2>. HIDE DEF r
    <2>. QED
      BY <1>6, <2>1, <2>2, QuietUpdate, Zenon DEF RemoveRows, db
  <1>7. CASE ScanContent(x)
    <2>. DEFINE c == Min(old.refs)
                r == [old EXCEPT !.pc = "pruning"]
                s == [old EXCEPT !.refs = old.refs \ {c}]
    <2>1. deletion' = [deletion EXCEPT ![x] = r] \/ deletion' = [deletion EXCEPT ![x] = s]
      BY <1>0, <1>7 DEF ScanContent, TypeOK
    <2>. HIDE DEF c
    <2>2. /\ r.dropped = old.dropped /\ r.gone = old.gone /\ r.pc = "pruning"
          /\ s.dropped = old.dropped /\ s.gone = old.gone /\ s.pc = "removed"
      BY <1>0, <1>7 DEF ScanContent, DeletionRecord
    <2>. HIDE DEF r, s
    <2>. QED
      BY <1>7, <2>1, <2>2, QuietUpdate DEF ScanContent, db
  <1>8. CASE DropContent(x)
    <2>. DEFINE c == Min(old.refs)
                r == [old EXCEPT !.pc = "removed", !.refs = old.refs \ {c}]
                s == [old EXCEPT !.pc = "removed", !.refs = old.refs \ {c},
                                 !.dropped = old.dropped \union {c}]
    <2>1. \/ End(x)
          \/ deletion' = [deletion EXCEPT ![x] = r]
          \/ /\ c \in mail_contents /\ References(c, x) = {}
             /\ deletion' = [deletion EXCEPT ![x] = s]
      BY <1>0, <1>8 DEF DropContent, TypeOK
    <2>2. ~ContentShared(c) /\ ~ContentExclusive(c, x)
      BY <1>8 DEF DropContent
    <2>3. UNCHANGED <<mail_contents, messages, delivery>>
      BY <1>8 DEF DropContent, db
    <2>. HIDE DEF c
    <2>4. r.dropped = old.dropped /\ r.gone = old.gone /\ r.pc = "removed"
      BY <1>0 DEF DeletionRecord
    <2>5. s.dropped = old.dropped \union {c} /\ s.gone = old.gone /\ s.pc = "removed"
      BY <1>0 DEF DeletionRecord
    <2>. HIDE DEF r, s
    <2>6. ASSUME c \in mail_contents, References(c, x) = {},
                 deletion' = [deletion EXCEPT ![x] = s]
          PROVE  RowsInv'
      <3>1. deletion'[x] = s /\ \A y \in Deleters : y # x => deletion'[y] = deletion[y]
        BY <1>0, <2>6 DEF TypeOK
      <3>2. \A m \in messages : m.key = c => m \in old.gone
        BY <2>6 DEF References
      <3>3. \A d \in Deliveries : Sharing(d) => delivery[d].key # c
        BY <2>2 DEF ContentShared, Sharing
      <3>4. \A y \in Deleters : y # x => c \notin deletion[y].dropped
        BY <2>2 DEF ContentExclusive, RowsInv, DroppedAfterRemoval, DeletionLocks
      <3>5. MessagesHaveRow' /\ ReuseIsNotFresh' /\ FreshIsNew' /\ FreshIsUnique'
        BY <2>3, Zenon DEF RowsInv, MessagesHaveRow, ReuseIsNotFresh, FreshIsNew, FreshIsUnique,
                    Inserting
      <3>6. SharedIsKept'
        BY <2>3, <2>5, <3>1, <3>3, Zenon DEF RowsInv, SharedIsKept, Sharing
      <3>7. DroppedIsUnreferenced'
        BY <2>3, <2>5, <2>6, <3>1, <3>2, Zenon DEF RowsInv, DroppedIsUnreferenced
      <3>8. DroppedIsUnique'
        <4>. SUFFICES ASSUME NEW y \in Deleters, NEW z \in Deleters, NEW k,
                             k \in deletion'[y].dropped, k \in deletion'[z].dropped
                      PROVE  y = z
          BY Zenon DEF DroppedIsUnique
        <4>1. \A u \in Deleters : k \in deletion'[u].dropped =>
                (k \in deletion[u].dropped \/ (u = x /\ k = c))
          BY <2>5, <3>1, Zenon
        <4>2. CASE k = c
          BY <3>1, <3>4, <4>2, Zenon
        <4>3. CASE k # c
          BY <4>1, <4>3, Zenon DEF RowsInv, DroppedIsUnique
        <4>. QED
          BY <4>2, <4>3, Zenon
      <3>9. DroppedAfterRemoval'
        BY <2>5, <3>1 DEF RowsInv, DroppedAfterRemoval
      <3>. QED
        BY <3>5, <3>6, <3>7, <3>8, <3>9 DEF RowsInv
    <2>. QED
      BY <2>1, <2>3, <2>4, <2>6, EndRows, QuietUpdate, Zenon
  <1>9. CASE CommitDeletion(x)
    <2>1. /\ messages' = messages \ old.gone
          /\ mail_contents' = mail_contents \ old.dropped
          /\ UNCHANGED delivery
      BY <1>9, Zenon DEF CommitDeletion
    <2>2. deletion'[x].dropped = {} /\ \A y \in Deleters : y # x => deletion'[y] = deletion[y]
      BY <1>0, <1>9 DEF CommitDeletion, End, Ended, NoDeletion, TypeOK
    <2>3. MessagesHaveRow'
      BY <2>1 DEF RowsInv, MessagesHaveRow, DroppedIsUnreferenced
    <2>4. ReuseIsNotFresh' /\ FreshIsNew' /\ FreshIsUnique'
      BY <2>1, Zenon DEF RowsInv, ReuseIsNotFresh, FreshIsNew, FreshIsUnique, Inserting
    <2>5. SharedIsKept'
      BY <2>1, <2>2, Zenon DEF RowsInv, SharedIsKept, Sharing
    <2>6. DroppedIsUnreferenced'
      BY <2>1, <2>2, Zenon DEF RowsInv, DroppedIsUnreferenced, DroppedIsUnique
    <2>7. DroppedIsUnique' /\ DroppedAfterRemoval'
      BY <2>2, Zenon DEF RowsInv, DroppedIsUnique, DroppedAfterRemoval
    <2>. QED
      BY <2>3, <2>4, <2>5, <2>6, <2>7 DEF RowsInv
  <1>10. CASE DeletionFails(x)
    BY <1>10, EndRows, Zenon DEF DeletionFails, db
  <1>. QED
    BY <1>2, <1>3, <1>4, <1>5, <1>6, <1>7, <1>8, <1>9, <1>10 DEF RequestStep, DeletionStep

\* So do the sweep, expiry and a crash, which rolls open transactions back.
LEMMA OtherRows ==
  ASSUME TypeInv, RowsInv,
         \/ BeginCleanup \/ ListDeletions \/ NextDeletion \/ RecheckReference
         \/ RemoveObject \/ Acknowledge \/ SweepStepFails \/ SweepReturns
         \/ Crash \/ \E i \in Inboxes : Expire(i)
  PROVE  RowsInv'
  <1>0. TypeOK /\ Sweeper \in Deleters /\ deletion[Sweeper] \in DeletionRecord
    BY DEF TypeInv, TypeOK, Deleters
  <1>1. ASSUME UNCHANGED <<mail_contents, messages, delivery, deletion>>
        PROVE  RowsInv'
    <2>1. DroppedAfterRemoval'
      BY <1>1 DEF RowsInv, DroppedAfterRemoval
    <2>. QED
      BY <1>1, <2>1, QuietDeletion
  <1>2. CASE BeginCleanup
    <2>. DEFINE old == deletion[Sweeper]
    <2>1. CASE UNCHANGED deletion
      BY <1>1, <1>2, <2>1, Zenon DEF BeginCleanup, db
    <2>2. CASE ~UNCHANGED deletion
      <3>1. PICK I : deletion' = [deletion EXCEPT ![Sweeper] =
                       [old EXCEPT !.pc = "locked", !.inboxes = I, !.refs = KeysIn(I)]]
        BY <1>0, <1>2, <2>2, Zenon DEF BeginCleanup, TypeOK
      <3>2. old.dropped = {}
        BY <1>0, <1>2, Zenon DEF BeginCleanup, RowsInv, DroppedAfterRemoval
      <3>3. [old EXCEPT !.pc = "locked", !.inboxes = I, !.refs = KeysIn(I)].dropped = {}
        BY <1>0, <3>2 DEF DeletionRecord
      <3>. QED
        BY <1>0, <1>2, <3>1, <3>3, QuietUpdate, Zenon DEF BeginCleanup, db
    <2>. QED
      BY <2>1, <2>2
  <1>3. CASE ListDeletions \/ NextDeletion \/ RecheckReference \/ RemoveObject \/ Acknowledge
             \/ SweepStepFails \/ SweepReturns
    BY <1>1, <1>3, Zenon DEF ListDeletions, NextDeletion, RecheckReference, RemoveObject, Acknowledge,
                      SweepStepFails, SweepReturns, db
  <1>4. CASE \E i \in Inboxes : Expire(i)
    BY <1>1, <1>4 DEF Expire
  <1>5. CASE Crash
    <2>1. \A d \in Deliveries :
            delivery'[d] = delivery[d] \/ (d \in Leased /\ delivery'[d].pc = "done")
      BY <1>0, <1>5, Zenon DEF Crash, TypeOK, DeliveryRecord
    <2>2. \A x \in Deleters :
            \/ deletion'[x] = deletion[x] /\ deletion[x].dropped = {}
            \/ deletion'[x].dropped = {}
      <3>1. \A x \in Deleters : Ended(x).dropped = {}
        BY DEF Ended, NoDeletion
      <3>. QED
        BY <1>5, <3>1, Zenon DEF Crash, RowsInv, DroppedAfterRemoval
    <2>3. UNCHANGED <<mail_contents, messages>>
      BY <1>5, Zenon DEF Crash, db
    <2>4. MessagesHaveRow'
      BY <2>3 DEF RowsInv, MessagesHaveRow
    <2>5. ReuseIsNotFresh' /\ FreshIsNew' /\ FreshIsUnique'
      BY <2>1, <2>3 DEF RowsInv, ReuseIsNotFresh, FreshIsNew, FreshIsUnique, Inserting
    <2>6. SharedIsKept'
      BY <2>1, <2>2, <2>3, Zenon DEF RowsInv, SharedIsKept, Sharing
    <2>7. DroppedIsUnreferenced' /\ DroppedIsUnique' /\ DroppedAfterRemoval'
      BY <2>2, <2>3, Zenon DEF RowsInv, DroppedIsUnreferenced, DroppedIsUnique, DroppedAfterRemoval
    <2>. QED
      BY <2>4, <2>5, <2>6, <2>7 DEF RowsInv
  <1>. QED
    BY <1>2, <1>3, <1>4, <1>5

\* RowsInv is inductive: one case per group of actions.
LEMMA RowsStep == TypeInv /\ RowsInv /\ [Next]_vars => RowsInv'
  <1>. SUFFICES ASSUME TypeInv, RowsInv, [Next]_vars PROVE RowsInv'
    OBVIOUS
  <1>1. CASE UNCHANGED vars
    <2>1. DroppedAfterRemoval'
      BY <1>1 DEF vars, RowsInv, DroppedAfterRemoval
    <2>. QED
      BY <1>1, <2>1, QuietDeletion DEF vars
  <1>2. CASE Next
    BY <1>2, DeliveryRows, DeletionRows, OtherRows DEF Next, SweepStep, RequestStep, Deleters
  <1>. QED
    BY <1>1, <1>2

-----------------------------------------------------------------------------
(* The object files.  A delivery's lease keeps its file; the fence makes    *)
(* sure that no lease is held between the reference check and the removal.  *)
(* Only a COMMIT that outlives its lease escapes it.                        *)

\* Every message and every mail_contents row has its object file, but those of a
\* late commit.
ContentsStored ==
  /\ \A m \in messages : m.key \in objects \/ delivery[m.by].pc = "late"
  /\ \A c \in mail_contents : c \in objects \/ Late(c)

\* The object of a delivery that is past put is there while it holds the lease.
LeasedStored ==
  \A d \in Deliveries : delivery[d].pc \in StoredPoints => delivery[d].key \in objects

\* While an object is removed no delivery holds the lease, and what refers to it
\* was committed late.
FenceHolds ==
  sweep.pc = "remove" =>
    /\ Leased = {}
    /\ \A m \in messages : m.key = sweep.item.key => delivery[m.by].pc = "late"
    /\ sweep.item.key \in mail_contents => Late(sweep.item.key)

\* The inductive invariant of the files, on top of that of the tables.
StoreInv == ContentsStored /\ LeasedStored /\ FenceHolds

\* No row, no file, no delivery.
LEMMA StoreInit == Init => StoreInv
  BY DEF Init, StoreInv, ContentsStored, LeasedStored, FenceHolds, NoDelivery,
         StoredPoints, LeasePoints

\* A delivery that was committed late stays so.
LEMMA LateStays ==
  ASSUME \A e \in Deliveries : delivery[e].pc = "late" => delivery'[e] = delivery[e]
  PROVE  \A c : Late(c) => Late(c)'
  BY DEF Late

\* A step of a delivery that holds the lease: it ends, or goes on with its file in
\* place; the rows it commits are its own and have that file.
LEMMA DeliveryKeepsStore ==
  ASSUME TypeOK, StoreInv, NEW d \in Deliveries, delivery[d].pc \in LeasePoints,
         \A e \in Deliveries : e # d => delivery'[e] = delivery[e],
         \/ delivery'[d].pc \in {"done", "committed", "limbo"}
         \/ /\ delivery'[d].pc \in StoredPoints
            /\ delivery'[d].key = delivery[d].key
            /\ delivery[d].key \in objects',
         objects \subseteq objects',
         \/ UNCHANGED <<mail_contents, messages>>
         \/ /\ delivery[d].pc = "inserted"
            /\ mail_contents' = mail_contents \union {delivery[d].key}
            /\ \A m \in messages' : m \in messages \/ m.key = delivery[d].key,
         UNCHANGED sweep
  PROVE  StoreInv'
  <1>1. sweep.pc # "remove"
    BY Zenon DEF StoreInv, FenceHolds, Leased
  <1>2. \A c : Late(c) => Late(c)'
    BY LateStays, Zenon DEF LeasePoints
  <1>3. delivery[d].pc = "inserted" => delivery[d].key \in objects
    BY DEF StoreInv, LeasedStored, StoredPoints, LeasePoints
  <1>4. ASSUME NEW m \in messages'
        PROVE  m.key \in objects' \/ delivery'[m.by].pc = "late"
    <2>1. CASE m \in messages
      <3>1. m.by \in Deliveries
        BY <2>1, Zenon DEF TypeOK, Message
      <3>. QED
        BY <2>1, <3>1 DEF StoreInv, ContentsStored, LeasePoints
    <2>2. CASE m \notin messages
      BY <1>3, <1>4, <2>2, Zenon
    <2>. QED
      BY <2>1, <2>2
  <1>5. ASSUME NEW c \in mail_contents'
        PROVE  c \in objects' \/ Late(c)'
    BY <1>2, <1>3, <1>5, Zenon DEF StoreInv, ContentsStored
  <1>6. ContentsStored'
    BY <1>4, <1>5, Zenon DEF ContentsStored
  <1>7. LeasedStored'
    BY DEF StoreInv, LeasedStored, StoredPoints, LeasePoints
  <1>8. FenceHolds'
    BY <1>1 DEF FenceHolds
  <1>. QED
    BY <1>6, <1>7, <1>8 DEF StoreInv

\* The rows a delivery writes for its recipients.
Rows(d) == {[by |-> d, inbox |-> i, key |-> delivery[d].key] : i \in delivery[d].rcpt}

\* A COMMIT that the server decides about after the lease was released.
LEMMA LateKeepsStore ==
  ASSUME TypeOK, StoreInv, NEW d \in Deliveries, LateCommit(d)
  PROVE  StoreInv'
  <1>0. /\ delivery[d].pc = "limbo"
        /\ delivery'[d].pc \in {"late", "done"}
        /\ delivery'[d].key = delivery[d].key
        /\ \A e \in Deliveries : e # d => delivery'[e] = delivery[e]
        /\ UNCHANGED <<objects, sweep>>
    BY AdvanceEffect, Zenon DEF LateCommit, DeliveryPoints
  <1>1. \A c : Late(c) => Late(c)'
    BY <1>0, LateStays, Zenon
  <1>2. LeasedStored' /\ (Leased = {} => Leased' = {})
    BY <1>0 DEF StoreInv, LeasedStored, StoredPoints, LeasePoints, Leased
  <1>3. \A m \in messages : delivery[m.by].pc = "late" => delivery'[m.by].pc = "late"
    BY <1>0, Zenon DEF TypeOK, Message
  <1>4. CASE UNCHANGED db
    <2>1. ContentsStored'
      BY <1>0, <1>1, <1>3, <1>4 DEF StoreInv, ContentsStored, db
    <2>2. FenceHolds'
      BY <1>0, <1>1, <1>2, <1>3, <1>4 DEF StoreInv, FenceHolds, db
    <2>. QED
      BY <1>2, <2>1, <2>2 DEF StoreInv
  <1>5. CASE Apply(d) /\ Advance(d, "late")
    <2>1. delivery'[d].pc = "late" /\ Late(delivery[d].key)'
      BY <1>0, <1>5, AdvanceEffect, Zenon DEF DeliveryPoints, Late
    <2>2. /\ mail_contents' = mail_contents \union {delivery[d].key}
          /\ \A m \in messages' : m \in messages \/ m.by = d
      <3>1. mail_contents' = mail_contents \union {delivery[d].key}
        BY <1>5, Zenon DEF Apply
      <3>2. messages' = messages \union Rows(d)
        BY <1>5, Zenon DEF Apply, Rows
      <3>3. \A m \in Rows(d) : m.by = d
        BY DEF Rows
      <3>. QED
        BY <3>1, <3>2, <3>3
    <2>3. ContentsStored'
      BY <1>0, <1>1, <1>3, <2>1, <2>2, Zenon DEF StoreInv, ContentsStored
    <2>4. FenceHolds'
      BY <1>0, <1>1, <1>2, <1>3, <2>1, <2>2, Zenon DEF StoreInv, FenceHolds
    <2>. QED
      BY <1>2, <2>3, <2>4 DEF StoreInv
  <1>. QED
    BY <1>4, <1>5 DEF LateCommit

\* A statement of a delivery that writes no row: on to the next one, or the end.
LEMMA DeliveryMovesOn ==
  ASSUME TypeOK, StoreInv, NEW d \in Deliveries, delivery[d].pc \in LeasePoints,
         UNCHANGED <<mail_contents, messages, sweep>>,
         objects \subseteq objects', delivery[d].key \in objects',
         \/ \E pc \in StoredPoints : Advance(d, pc)
         \/ \E reply \in Replies : Answer(d, reply)
  PROVE  StoreInv'
  <1>1. CASE \E pc \in StoredPoints : Advance(d, pc)
    <2>1. PICK pc \in StoredPoints : Advance(d, pc)
      BY <1>1
    <2>2. pc \in DeliveryPoints
      BY DEF StoredPoints, DeliveryPoints
    <2>3. /\ delivery'[d].pc = pc
          /\ delivery'[d].key = delivery[d].key
          /\ \A e \in Deliveries : e # d => delivery'[e] = delivery[e]
      BY <2>1, <2>2, AdvanceEffect
    <2>. QED
      BY <2>3, DeliveryKeepsStore, Zenon
  <1>2. CASE \E reply \in Replies : Answer(d, reply)
    <2>1. PICK reply \in Replies : Answer(d, reply)
      BY <1>2
    <2>2. /\ delivery'[d].pc = "done"
          /\ \A e \in Deliveries : e # d => delivery'[e] = delivery[e]
      BY <2>1, AnswerEffect, Zenon
    <2>. QED
      BY <2>2, DeliveryKeepsStore, Zenon
  <1>. QED
    BY <1>1, <1>2

\* A delivery commits a row only while it holds the lease over its file.
LEMMA DeliveryStore ==
  ASSUME TypeInv, StoreInv, NEW d \in Deliveries,
         Receive(d) \/ DeliveryStep(d) \/ DeliveryFault(d)
  PROVE  StoreInv'
  <1>0. TypeOK /\ delivery[d] \in DeliveryRecord
    BY DEF TypeInv, TypeOK
  <1>. USE DEF LeasePoints, StoredPoints
  <1>1. CASE Receive(d)
    <2>0. PICK c, R :
            delivery' = [delivery EXCEPT ![d] = [@ EXCEPT !.pc = "put", !.key = c, !.rcpt = R]]
      BY <1>1, Zenon DEF Receive
    <2>1. /\ delivery'[d].pc = "put"
          /\ \A e \in Deliveries : e # d => delivery'[e] = delivery[e]
      BY <1>0, <2>0 DEF TypeOK, DeliveryRecord
    <2>2. sweep.pc # "remove" /\ UNCHANGED <<mail_contents, messages, objects, sweep>>
      BY <1>1, Zenon DEF Receive, FencePending, db
    <2>3. \A k : Late(k) => Late(k)'
      BY <1>1, <2>1, LateStays, Zenon DEF Receive
    <2>4. \A m \in messages : delivery[m.by].pc = "late" => delivery'[m.by].pc = "late"
      BY <1>0, <1>1, <2>1, Zenon DEF Receive, TypeOK, Message
    <2>5. ContentsStored'
      BY <2>2, <2>3, <2>4, Zenon DEF StoreInv, ContentsStored
    <2>. QED
      BY <2>1, <2>2, <2>5, Zenon DEF StoreInv, LeasedStored, FenceHolds
  <1>2. CASE Put(d)
    <2>1. delivery[d].pc = "put" /\ UNCHANGED <<mail_contents, messages, sweep>>
      BY <1>2, Zenon DEF Put, db
    <2>2. objects \subseteq objects' /\ delivery[d].key \in objects'
      BY <1>2, <2>1, Zenon DEF Put, StoreInv, LeasedStored
    <2>3. Advance(d, "begun") \/ Answer(d, "550")
      BY <1>2, Zenon DEF Put
    <2>. QED
      BY <1>0, <2>1, <2>2, <2>3, DeliveryMovesOn, Zenon DEF Replies
  <1>3. CASE PutFails(d)
    BY <1>0, <1>3, AnswerEffect, DeliveryKeepsStore, Zenon DEF PutFails, db, Replies
  <1>4. CASE LockRecipients(d)
    <2>1. delivery[d].pc = "begun" /\ UNCHANGED <<mail_contents, messages, objects, sweep>>
      BY <1>4, Zenon DEF LockRecipients, db
    <2>2. objects \subseteq objects' /\ delivery[d].key \in objects'
      BY <1>4, <2>1, Zenon DEF LockRecipients, StoreInv, LeasedStored
    <2>3. Advance(d, "locked") \/ Answer(d, "550") \/ Answer(d, "552")
      BY <1>4, Zenon DEF LockRecipients
    <2>. QED
      BY <1>0, <2>1, <2>2, <2>3, DeliveryMovesOn, Zenon DEF Replies
  <1>5. CASE InsertContent(d)
    <2>1. /\ delivery'[d].pc \in {"reuse", "insert"}
          /\ delivery'[d].key = delivery[d].key
          /\ \A e \in Deliveries : e # d => delivery'[e] = delivery[e]
      BY <1>0, <1>5 DEF InsertContent, TypeOK, DeliveryRecord
    <2>2. delivery[d].pc = "locked" /\ UNCHANGED <<mail_contents, messages, objects, sweep>>
      BY <1>5, Zenon DEF InsertContent, db
    <2>3. delivery[d].key \in objects
      BY <2>2, Zenon DEF StoreInv, LeasedStored
    <2>. QED
      BY <1>0, <2>1, <2>2, <2>3, DeliveryKeepsStore, Zenon
  <1>6. CASE ReadExistingSize(d)
    <2>1. delivery[d].pc = "reuse" /\ UNCHANGED <<mail_contents, messages, objects, sweep>>
      BY <1>6, Zenon DEF ReadExistingSize, db
    <2>2. objects \subseteq objects' /\ delivery[d].key \in objects'
      BY <1>6, <2>1, Zenon DEF ReadExistingSize, StoreInv, LeasedStored
    <2>3. Advance(d, "insert") \/ Answer(d, "451")
      BY <1>6, Zenon DEF ReadExistingSize
    <2>. QED
      BY <1>0, <2>1, <2>2, <2>3, DeliveryMovesOn, Zenon DEF Replies
  <1>7. CASE InsertMessages(d)
    <2>1. delivery[d].pc = "insert" /\ UNCHANGED <<mail_contents, messages, objects, sweep>>
      BY <1>7, Zenon DEF InsertMessages, db
    <2>2. objects \subseteq objects' /\ delivery[d].key \in objects'
      BY <1>7, <2>1, Zenon DEF InsertMessages, StoreInv, LeasedStored
    <2>3. Advance(d, "inserted") \/ Answer(d, "550")
      BY <1>7, Zenon DEF InsertMessages
    <2>. QED
      BY <1>0, <2>1, <2>2, <2>3, DeliveryMovesOn, Zenon DEF Replies
  <1>8. ASSUME Apply(d)
        PROVE  /\ mail_contents' = mail_contents \union {delivery[d].key}
               /\ \A m \in messages' : m \in messages \/ m.key = delivery[d].key
    <2>. DEFINE k == delivery[d].key
    <2>1. /\ mail_contents' = mail_contents \union {k}
          /\ messages' = messages \union
                          {[by |-> d, inbox |-> i, key |-> k] : i \in delivery[d].rcpt}
      BY <1>8, Zenon DEF Apply
    <2>. HIDE DEF k
    <2>2. \A m \in messages' : m \in messages \/ m.key = k
      BY <2>1
    <2>. QED
      BY <2>1, <2>2, Zenon DEF k
  <1>9. CASE CommitDelivery(d)
    <2>1. /\ delivery'[d].pc = "committed"
          /\ \A e \in Deliveries : e # d => delivery'[e] = delivery[e]
      BY <1>0, <1>9, AdvanceEffect, Zenon DEF CommitDelivery, DeliveryPoints
    <2>. QED
      BY <1>0, <1>8, <1>9, <2>1, DeliveryKeepsStore, Zenon DEF CommitDelivery
  <1>10. CASE CommitUnconfirmed(d)
    <2>1. /\ delivery'[d].pc = "done"
          /\ \A e \in Deliveries : e # d => delivery'[e] = delivery[e]
      BY <1>0, <1>10, AnswerEffect, Zenon DEF CommitUnconfirmed, Replies
    <2>. QED
      BY <1>0, <1>8, <1>10, <2>1, DeliveryKeepsStore, Zenon DEF CommitUnconfirmed
  <1>11. CASE DeliveryFails(d) \/ ReplyDelivered(d) \/ ReplyLost(d)
    <2>1. /\ delivery'[d].pc = "done"
          /\ \A e \in Deliveries : e # d => delivery'[e] = delivery[e]
      BY <1>0, <1>11, AnswerEffect, Zenon DEF DeliveryFails, ReplyDelivered, ReplyLost, Replies
    <2>. QED
      BY <1>0, <1>11, <2>1, DeliveryKeepsStore, Zenon DEF DeliveryFails, ReplyDelivered, ReplyLost, db
  <1>12. CASE CommitAbandoned(d)
    <2>1. /\ delivery'[d].pc = "limbo"
          /\ \A e \in Deliveries : e # d => delivery'[e] = delivery[e]
      BY <1>0, <1>12 DEF CommitAbandoned, TypeOK, DeliveryRecord
    <2>. QED
      BY <1>0, <1>12, <2>1, DeliveryKeepsStore DEF CommitAbandoned, db
  <1>13. CASE LateCommit(d)
    BY <1>0, <1>13, LateKeepsStore
  <1>. QED
    BY <1>1, <1>2, <1>3, <1>4, <1>5, <1>6, <1>7, <1>9, <1>10, <1>11, <1>12, <1>13
       DEF DeliveryStep, DeliveryFault

\* Only RemoveObject deletes a file, and only behind the fence.
LEMMA OtherStore ==
  ASSUME TypeInv, RowsInv, StoreInv,
         \/ \E x \in Deleters : BeginDeleteInbox(x) \/ BeginDeleteMessage(x)
                                \/ RequestStep(x) \/ DeletionFails(x)
         \/ BeginCleanup \/ ListDeletions \/ NextDeletion \/ RecheckReference
         \/ RemoveObject \/ Acknowledge \/ SweepStepFails \/ SweepReturns
         \/ Crash \/ \E i \in Inboxes : Expire(i)
  PROVE  StoreInv'
  <1>0. TypeOK /\ sweep \in SweepRecord
    BY DEF TypeInv, TypeOK
  <1>1. ASSUME UNCHANGED <<objects, delivery>>, mail_contents' \subseteq mail_contents,
               messages' \subseteq messages,
               sweep'.pc = "remove" => sweep' = sweep
        PROVE  StoreInv'
    <2>1. \A c : Late(c)' <=> Late(c)
      BY <1>1 DEF Late
    <2>. QED
      BY <1>1, <2>1, Zenon DEF StoreInv, ContentsStored, LeasedStored, FenceHolds, Leased
  <1>2. CASE \E x \in Deleters : BeginDeleteInbox(x) \/ BeginDeleteMessage(x)
                                 \/ LockInbox(x) \/ LockMessage(x) \/ RemoveRows(x)
                                 \/ ScanContent(x) \/ DropContent(x) \/ DeletionFails(x)
    BY <1>1, <1>2, Zenon DEF BeginDeleteInbox, BeginDeleteMessage, LockInbox, LockMessage, RemoveRows,
                      ScanContent, DropContent, DeletionFails, db
  <1>3. CASE \E x \in Deleters : CommitDeletion(x)
    <2>1. sweep' = sweep \/ sweep'.pc = "list"
      BY <1>0, <1>3 DEF CommitDeletion, AfterCleanup, SweepRecord
    <2>. QED
      BY <1>1, <1>3, <2>1, Zenon DEF CommitDeletion
  <1>4. CASE BeginCleanup \/ ListDeletions \/ NextDeletion \/ Acknowledge \/ SweepReturns
    <2>1. ASSUME BeginCleanup
          PROVE  sweep' = sweep \/ sweep'.pc = "list"
      BY <1>0, <2>1, Zenon DEF BeginCleanup, SweepRecord
    <2>2. ASSUME ListDeletions
          PROVE  sweep'.pc = "next"
      <3>1. PICK page : sweep' = [sweep EXCEPT !.pc = "next", !.page = page]
        BY <2>2, Zenon DEF ListDeletions
      <3>. QED
        BY <1>0, <3>1 DEF SweepRecord
    <2>3. ASSUME NextDeletion
          PROVE  sweep'.pc \in {"cleanup", "fence"}
      <3>1. ASSUME sweep' = [sweep EXCEPT !.pc = "cleanup", !.item = NoItem]
            PROVE  sweep'.pc = "cleanup"
        BY <1>0, <3>1 DEF SweepRecord
      <3>2. ASSUME NEW task, sweep' = [pc |-> "fence", page |-> sweep.page \ {task}, item |-> task]
            PROVE  sweep'.pc = "fence"
        BY <3>2, Zenon
      <3>. QED
        BY <2>3, <3>1, <3>2 DEF NextDeletion
    <2>4. ASSUME Acknowledge
          PROVE  sweep'.pc = "next"
      BY <1>0, <2>4 DEF Acknowledge, SweepRecord
    <2>5. ASSUME SweepReturns
          PROVE  sweep'.pc = "cleanup"
      BY <2>5, Zenon DEF SweepReturns
    <2>6. UNCHANGED <<objects, delivery, mail_contents, messages>>
      BY <1>4, Zenon DEF BeginCleanup, ListDeletions, NextDeletion, Acknowledge, SweepReturns, db
    <2>. QED
      BY <1>1, <1>4, <2>1, <2>2, <2>3, <2>4, <2>5, <2>6
  <1>5. CASE RecheckReference
    <2>1. sweep'.item = sweep.item
          /\ sweep'.pc = IF sweep.item.key \in mail_contents THEN "ack" ELSE "remove"
      BY <1>0, <1>5 DEF RecheckReference, SweepRecord
    <2>2. UNCHANGED <<mail_contents, messages, objects, delivery>> /\ Leased = {}
      BY <1>5 DEF RecheckReference, db
    <2>3. \A c : Late(c)' <=> Late(c)
      BY <2>2 DEF Late
    <2>4. sweep.item.key \notin mail_contents => \A m \in messages : m.key # sweep.item.key
      BY Zenon DEF RowsInv, MessagesHaveRow
    <2>5. ContentsStored' /\ LeasedStored'
      BY <2>2, <2>3 DEF StoreInv, ContentsStored, LeasedStored
    <2>6. FenceHolds'
      BY <2>1, <2>2, <2>4 DEF FenceHolds, Leased
    <2>. QED
      BY <2>5, <2>6 DEF StoreInv
  <1>6. CASE RemoveObject \/ SweepStepFails
    <2>1. sweep'.pc \in {"ack", "next"}
      BY <1>0, <1>6 DEF RemoveObject, SweepStepFails, SweepRecord
    <2>2. UNCHANGED <<mail_contents, messages, delivery>>
          /\ (objects' = objects
              \/ (sweep.pc = "remove" /\ objects' = objects \ {sweep.item.key}))
      BY <1>6 DEF RemoveObject, SweepStepFails, db
    <2>3. \A c : Late(c)' <=> Late(c)
      BY <2>2 DEF Late
    <2>4. ContentsStored'
      BY <2>2, <2>3 DEF StoreInv, ContentsStored, FenceHolds
    <2>5. LeasedStored'
      BY <2>2 DEF StoreInv, LeasedStored, FenceHolds, Leased, StoredPoints
    <2>. QED
      BY <2>1, <2>4, <2>5, Zenon DEF StoreInv, FenceHolds
  <1>7. CASE Crash
    <2>1. \A d \in Deliveries :
            \/ delivery'[d] = delivery[d]
            \/ delivery[d].pc \in LeasePoints /\ delivery'[d].pc = "done"
      BY <1>0, <1>7, Zenon DEF Crash, Leased, TypeOK, DeliveryRecord
    <2>2. UNCHANGED <<mail_contents, messages, objects>> /\ sweep'.pc = "cleanup"
      BY <1>7, Zenon DEF Crash, db
    <2>3. \A d \in Deliveries : delivery[d].pc = "late" => delivery'[d] = delivery[d]
      BY <2>1 DEF LeasePoints
    <2>4. \A c : Late(c) => Late(c)'
      BY <2>3, LateStays
    <2>5. \A m \in messages : delivery[m.by].pc = "late" => delivery'[m.by].pc = "late"
      BY <1>0, <2>3, Zenon DEF TypeOK, Message
    <2>6. ContentsStored'
      BY <2>2, <2>4, <2>5, Zenon DEF StoreInv, ContentsStored
    <2>. QED
      BY <2>1, <2>2, <2>6, Zenon DEF StoreInv, LeasedStored, FenceHolds, StoredPoints, LeasePoints
  <1>8. CASE \E i \in Inboxes : Expire(i)
    BY <1>1, <1>8 DEF Expire
  <1>. QED
    BY <1>2, <1>3, <1>4, <1>5, <1>6, <1>7, <1>8 DEF RequestStep, DeletionStep

\* StoreInv is inductive.
LEMMA StoreStep == TypeInv /\ RowsInv /\ StoreInv /\ [Next]_vars => StoreInv'
  <1>. SUFFICES ASSUME TypeInv, RowsInv, StoreInv, [Next]_vars PROVE StoreInv'
    OBVIOUS
  <1>1. CASE UNCHANGED vars
    BY <1>1, Zenon DEF vars, StoreInv, ContentsStored, LeasedStored, FenceHolds, Leased, Late
  <1>2. CASE Next
    BY <1>2, DeliveryStore, OtherStore DEF Next, SweepStep, RequestStep, Deleters
  <1>. QED
    BY <1>1, <1>2

-----------------------------------------------------------------------------
\* Every committed message has its mail_contents row, even when a COMMIT lands
\* after the delivery gave up: the row locks, not the process, protect it.
THEOREM RowsConsistent == Spec => []MessagesHaveRow
  <1>1. Init => TypeInv /\ RowsInv
    BY TypeInvInit, RowsInit
  <1>2. RowsInv => MessagesHaveRow
    BY DEF RowsInv
  <1>. QED
    BY <1>1, <1>2, TypeStep, RowsStep, PTL DEF Spec

\* Every message row leads to its mail_contents row and on to an object file, for any
\* number of deliveries, deletions and sweeps, any faults and crashes; only a message
\* whose COMMIT outlived its lease may lack the file.
THEOREM AlwaysReadable == Spec => []MessagesReadable
  <1>1. Init => TypeInv /\ RowsInv /\ StoreInv
    BY TypeInvInit, RowsInit, StoreInit
  <1>2. RowsInv /\ StoreInv => MessagesReadable
    BY DEF RowsInv, StoreInv, MessagesHaveRow, ContentsStored, MessagesReadable
  <1>. QED
    BY <1>1, <1>2, TypeStep, RowsStep, StoreStep, PTL DEF Spec

-----------------------------------------------------------------------------
(* What a step of a delivery or of a deleting transaction does to the rows  *)
(* and locks others can see, statement by statement.                        *)

\* A delivery goes on; it takes the locks of its recipients at once, when they
\* are free and there.
DeliveryMoves(d) ==
  /\ delivery[d].pc \in LeasePoints \ {"committed"}
  /\ delivery'[d].pc \in StoredPoints
  /\ delivery'[d].reply = delivery[d].reply
  /\ messages' = messages
  /\ delivery'[d].pc \in DeliveryLocks =>
       \/ delivery[d].pc \in DeliveryLocks
       \/ \A i \in delivery[d].rcpt : ~InboxLocked(i) /\ inboxes[i] # "deleted"

\* A delivery ends with an error and writes nothing.
DeliveryRefused(d) ==
  /\ delivery[d].pc \in LeasePoints \ {"committed"}
  /\ delivery'[d].pc = "done"
  /\ delivery'[d].reply \in {"550", "552", "451"}
  /\ messages' = messages

\* A delivery commits; the sender hears nothing yet, or an error if the
\* confirmation does not arrive.
DeliveryCommits(d) ==
  /\ delivery[d].pc = "inserted"
  /\ \/ delivery'[d].pc = "committed" /\ delivery'[d].reply = delivery[d].reply
     \/ delivery'[d].pc = "done" /\ delivery'[d].reply = "451"
  /\ messages' = messages \union Rows(d)

\* A committed delivery is answered.
DeliveryAnswers(d) ==
  /\ delivery[d].pc = "committed"
  /\ delivery'[d].pc = "done"
  /\ delivery'[d].reply \in {"250", "lost"}
  /\ messages' = messages

\* A delivery gives up while its COMMIT is under way; the server decides later.
DeliveryLate(d) ==
  \/ /\ delivery[d].pc = "inserted" /\ delivery'[d].pc = "limbo"
     /\ delivery'[d].reply = "451"
     /\ messages' = messages
  \/ /\ delivery[d].pc = "limbo"
     /\ delivery'[d].reply = delivery[d].reply
     /\ \/ delivery'[d].pc = "late" /\ messages' = messages \union Rows(d)
        \/ delivery'[d].pc = "done" /\ messages' = messages

\* The statements of Receive and CommitDelivery have one of these effects, and
\* change no other delivery, no Inbox and no deletion.
LEMMA DeliveryEffect ==
  ASSUME TypeInv, NEW d \in Deliveries, DeliveryStep(d) \/ DeliveryFault(d)
  PROVE  /\ UNCHANGED <<inboxes, deletion>>
         /\ \A e \in Deliveries : /\ delivery'[e].rcpt = delivery[e].rcpt
                                  /\ delivery'[e].key = delivery[e].key
                                  /\ e # d => delivery'[e] = delivery[e]
         /\ \/ DeliveryMoves(d) \/ DeliveryRefused(d) \/ DeliveryCommits(d)
            \/ DeliveryAnswers(d) \/ DeliveryLate(d)
  <1>0. TypeOK /\ delivery[d] \in DeliveryRecord
    BY DEF TypeInv, TypeOK
  <1>. DEFINE Rest == \A e \in Deliveries : /\ delivery'[e].rcpt = delivery[e].rcpt
                                            /\ delivery'[e].key = delivery[e].key
                                            /\ e # d => delivery'[e] = delivery[e]
  <1>1. ASSUME NEW pc \in StoredPoints, Advance(d, pc)
        PROVE  delivery'[d].pc = pc /\ delivery'[d].reply = delivery[d].reply /\ Rest
    <2>1. pc \in DeliveryPoints
      BY DEF StoredPoints, DeliveryPoints
    <2>. QED
      BY <1>0, <1>1, <2>1, AdvanceEffect
  <1>2. ASSUME NEW reply \in Replies, Answer(d, reply)
        PROVE  delivery'[d].pc = "done" /\ delivery'[d].reply = reply /\ Rest
    BY <1>0, <1>2, AnswerEffect, Zenon
  <1>3. {"begun", "locked", "reuse", "insert", "inserted"} \subseteq StoredPoints
        /\ {"550", "552", "451", "250", "lost"} \subseteq Replies
    BY DEF StoredPoints, LeasePoints, Replies
  <1>4. "begun" \notin DeliveryLocks
    BY DEF DeliveryLocks
  <1>. HIDE DEF Rest
  <1>5. CASE Put(d)
    <2>1. delivery[d].pc = "put" /\ UNCHANGED <<inboxes, messages, deletion>>
          /\ (Advance(d, "begun") \/ Answer(d, "550"))
      BY <1>5, Zenon DEF Put, db
    <2>2. CASE Advance(d, "begun")
      BY <1>1, <1>3, <1>4, <2>1, <2>2, Zenon DEF DeliveryMoves, LeasePoints, Rest
    <2>3. CASE Answer(d, "550")
      BY <1>2, <1>3, <2>1, <2>3, Zenon DEF DeliveryRefused, LeasePoints, Rest
    <2>. QED
      BY <2>1, <2>2, <2>3, Zenon
  <1>6. CASE PutFails(d)
    <2>1. delivery[d].pc = "put" /\ UNCHANGED <<inboxes, messages, deletion>>
          /\ (Answer(d, "552") \/ Answer(d, "451"))
      BY <1>6, Zenon DEF PutFails, db
    <2>. QED
      BY <1>2, <1>3, <2>1, Zenon DEF DeliveryRefused, LeasePoints, Rest
  <1>7. CASE LockRecipients(d)
    <2>. DEFINE Free == \A i \in delivery[d].rcpt :
                          ~InboxLocked(i) /\ inboxes[i] # "deleted"
    <2>1. delivery[d].pc = "begun" /\ UNCHANGED <<inboxes, messages, deletion>>
          /\ (Answer(d, "550") \/ Answer(d, "552") \/ (Advance(d, "locked") /\ Free))
      BY <1>7, Zenon DEF LockRecipients, db
    <2>2. CASE Advance(d, "locked") /\ Free
      BY <1>1, <1>3, <2>1, <2>2, Zenon DEF DeliveryMoves, LeasePoints, Rest
    <2>3. CASE Answer(d, "550") \/ Answer(d, "552")
      BY <1>2, <1>3, <2>1, <2>3, Zenon DEF DeliveryRefused, LeasePoints, Rest
    <2>. QED
      BY <2>1, <2>2, <2>3, Zenon
  <1>8. CASE InsertContent(d)
    <2>1. /\ delivery'[d].pc \in {"reuse", "insert"}
          /\ delivery'[d].reply = delivery[d].reply
          /\ delivery'[d].key = delivery[d].key
          /\ delivery'[d].rcpt = delivery[d].rcpt
          /\ \A e \in Deliveries : e # d => delivery'[e] = delivery[e]
      BY <1>0, <1>8 DEF InsertContent, TypeOK, DeliveryRecord
    <2>2. delivery[d].pc = "locked" /\ UNCHANGED <<inboxes, messages, deletion>>
      BY <1>8, Zenon DEF InsertContent, db
    <2>. QED
      BY <2>1, <2>2, Zenon DEF DeliveryMoves, LeasePoints, StoredPoints, DeliveryLocks
  <1>9. CASE ReadExistingSize(d)
    <2>1. delivery[d].pc = "reuse" /\ UNCHANGED <<inboxes, messages, deletion>>
          /\ (Advance(d, "insert") \/ Answer(d, "451"))
      BY <1>9, Zenon DEF ReadExistingSize, db
    <2>2. CASE Advance(d, "insert")
      BY <1>1, <1>3, <2>1, <2>2, Zenon DEF DeliveryMoves, LeasePoints, DeliveryLocks, Rest
    <2>3. CASE Answer(d, "451")
      BY <1>2, <1>3, <2>1, <2>3, Zenon DEF DeliveryRefused, LeasePoints, Rest
    <2>. QED
      BY <2>1, <2>2, <2>3, Zenon
  <1>10. CASE InsertMessages(d)
    <2>1. delivery[d].pc = "insert" /\ UNCHANGED <<inboxes, messages, deletion>>
          /\ (Advance(d, "inserted") \/ Answer(d, "550"))
      BY <1>10, Zenon DEF InsertMessages, db
    <2>2. CASE Advance(d, "inserted")
      BY <1>1, <1>3, <2>1, <2>2, Zenon DEF DeliveryMoves, LeasePoints, DeliveryLocks, Rest
    <2>3. CASE Answer(d, "550")
      BY <1>2, <1>3, <2>1, <2>3, Zenon DEF DeliveryRefused, LeasePoints, Rest
    <2>. QED
      BY <2>1, <2>2, <2>3, Zenon
  <1>11. CASE CommitDelivery(d) \/ CommitUnconfirmed(d)
    <2>1. delivery[d].pc = "inserted" /\ UNCHANGED <<inboxes, deletion>>
          /\ messages' = messages \union Rows(d)
          /\ (Advance(d, "committed") \/ Answer(d, "451"))
      BY <1>11, Zenon DEF CommitDelivery, CommitUnconfirmed, Apply, Rows
    <2>2. CASE Advance(d, "committed")
      <3>1. /\ delivery'[d].pc = "committed" /\ delivery'[d].reply = delivery[d].reply /\ Rest
        BY <1>0, <2>2, AdvanceEffect, Zenon DEF DeliveryPoints, LeasePoints, Rest
      <3>. QED
        BY <2>1, <3>1, Zenon DEF DeliveryCommits, Rest
    <2>3. CASE Answer(d, "451")
      BY <1>2, <1>3, <2>1, <2>3, Zenon DEF DeliveryCommits, Rest
    <2>. QED
      BY <2>1, <2>2, <2>3, Zenon
  <1>12. CASE DeliveryFails(d)
    <2>1. delivery[d].pc \in StoredPoints /\ UNCHANGED <<inboxes, messages, deletion>>
          /\ Answer(d, "451")
      BY <1>12, Zenon DEF DeliveryFails, db
    <2>. QED
      BY <1>2, <1>3, <2>1, Zenon DEF DeliveryRefused, StoredPoints, Rest
  <1>13. CASE CommitAbandoned(d)
    <2>1. delivery'[d].pc = "limbo" /\ delivery'[d].reply = "451"
          /\ delivery'[d].key = delivery[d].key
          /\ delivery'[d].rcpt = delivery[d].rcpt
          /\ \A e \in Deliveries : e # d => delivery'[e] = delivery[e]
      BY <1>0, <1>13 DEF CommitAbandoned, TypeOK, DeliveryRecord
    <2>2. delivery[d].pc = "inserted" /\ UNCHANGED <<inboxes, messages, deletion>>
      BY <1>13, Zenon DEF CommitAbandoned, db
    <2>. QED
      BY <2>1, <2>2, Zenon DEF DeliveryLate
  <1>14. CASE LateCommit(d)
    <2>1. ASSUME NEW pc \in {"late", "done"}, Advance(d, pc)
          PROVE  delivery'[d].pc = pc /\ delivery'[d].reply = delivery[d].reply /\ Rest
      <3>1. pc \in DeliveryPoints
        BY DEF DeliveryPoints
      <3>. QED
        BY <1>0, <2>1, <3>1, AdvanceEffect, Zenon DEF Rest
    <2>2. delivery[d].pc = "limbo" /\ UNCHANGED <<inboxes, deletion>>
          /\ \/ messages' = messages \union Rows(d) /\ Advance(d, "late")
             \/ messages' = messages /\ Advance(d, "done")
      BY <1>14, Zenon DEF LateCommit, Apply, Rows, db
    <2>3. CASE messages' = messages \union Rows(d) /\ Advance(d, "late")
      BY <2>1, <2>2, <2>3, Zenon DEF DeliveryLate, Rest
    <2>4. CASE messages' = messages /\ Advance(d, "done")
      BY <2>1, <2>2, <2>4, Zenon DEF DeliveryLate, Rest
    <2>. QED
      BY <2>2, <2>3, <2>4, Zenon
  <1>15. CASE ReplyDelivered(d) \/ ReplyLost(d)
    <2>1. delivery[d].pc = "committed" /\ UNCHANGED <<inboxes, messages, deletion>>
          /\ (Answer(d, "250") \/ Answer(d, "lost"))
      BY <1>15, Zenon DEF ReplyDelivered, ReplyLost, db
    <2>. QED
      BY <1>2, <1>3, <2>1, Zenon DEF DeliveryAnswers, Rest
  <1>. QED
    BY <1>5, <1>6, <1>7, <1>8, <1>9, <1>10, <1>11, <1>12, <1>13, <1>14, <1>15, Zenon
       DEF DeliveryStep, DeliveryFault

\* A deletion is begun on one Inbox or one message.
DeletionBegins(x) ==
  /\ deletion[x].pc = "idle"
  /\ deletion'[x].pc = "begun"
  /\ \/ deletion'[x].msgs = deletion[x].msgs
     \/ deletion'[x].inboxes = deletion[x].inboxes /\ \E m \in messages : deletion'[x].msgs = {m}

\* A deletion locks Inboxes that nobody has locked, or its message row.
DeletionClaims(x) ==
  /\ deletion[x].pc \in {"idle", "begun"}
  /\ deletion'[x].pc = "locked"
  /\ deletion'[x].msgs = deletion[x].msgs
  /\ \/ \A i \in deletion'[x].inboxes : ~InboxLocked(i)
     \/ deletion[x].msgs # {}
  /\ deletion[x].msgs # {} \/ x # Sweeper => deletion'[x].inboxes = deletion[x].inboxes

\* A deletion removes its message, or every message of its Inboxes.
DeletionRemoves(x) ==
  /\ deletion[x].pc = "locked"
  /\ deletion'[x].pc = "removed"
  /\ deletion'[x].msgs = deletion[x].msgs
  /\ deletion'[x].inboxes = deletion[x].inboxes
  /\ deletion'[x].gone =
       {m \in messages : m \in deletion[x].msgs \/ m.inbox \in deletion[x].inboxes}

\* A deletion goes through the contents of the removed messages.
DeletionPrunes(x) ==
  /\ deletion[x].pc \in {"removed", "pruning"}
  /\ deletion'[x].pc \in {"removed", "pruning"}
  /\ deletion'[x].msgs = deletion[x].msgs
  /\ deletion'[x].inboxes = deletion[x].inboxes
  /\ deletion'[x].gone = deletion[x].gone

\* A deletion has ended; its locks are released.
DeletionEnded(x) ==
  /\ deletion'[x].pc \in {"idle", "done"}
  /\ deletion'[x].msgs = {}
  /\ deletion'[x].inboxes = {}
  /\ deletion'[x].gone = {}

\* A deletion commits: its Inboxes and the messages it removed are gone.
DeletionCommits(x) ==
  /\ deletion[x].pc = "removed"
  /\ DeletionEnded(x)
  /\ inboxes' = [i \in Inboxes |-> IF i \in deletion[x].inboxes THEN "deleted" ELSE inboxes[i]]
  /\ messages' = messages \ deletion[x].gone

\* The statements of a deleting transaction have one of these effects.
LEMMA DeletionEffect ==
  ASSUME TypeInv, NEW x \in Deleters,
         BeginDeleteInbox(x) \/ BeginDeleteMessage(x) \/ RequestStep(x) \/ DeletionFails(x)
  PROVE  /\ UNCHANGED delivery
         /\ \A y \in Deleters : y # x => deletion'[y] = deletion[y]
         /\ \/ DeletionCommits(x)
            \/ /\ UNCHANGED <<inboxes, messages>>
               /\ \/ DeletionBegins(x) \/ DeletionClaims(x) \/ DeletionRemoves(x)
                  \/ DeletionPrunes(x) \/ DeletionEnded(x)
  <1>0. TypeOK /\ deletion[x] \in DeletionRecord /\ deletion \in [Deleters -> DeletionRecord]
    BY DEF TypeInv, TypeOK
  <1>. DEFINE old == deletion[x]
              Rest == \A y \in Deleters : y # x => deletion'[y] = deletion[y]
  <1>1. ASSUME End(x)
        PROVE  DeletionEnded(x) /\ Rest
    BY <1>0, <1>1 DEF End, Ended, NoDeletion, DeletionEnded
  <1>2. ASSUME NEW r, deletion' = [deletion EXCEPT ![x] = r]
        PROVE  deletion'[x] = r /\ Rest
    BY <1>0, <1>2
  <1>. HIDE DEF Rest
  <1>3. CASE BeginDeleteInbox(x)
    <2>1. PICK i : deletion' = [deletion EXCEPT ![x] = [old EXCEPT !.pc = "begun", !.inboxes = {i}]]
      BY <1>0, <1>3, Zenon DEF BeginDeleteInbox
    <2>2. deletion'[x] = [old EXCEPT !.pc = "begun", !.inboxes = {i}] /\ Rest
      BY <1>2, <2>1, Zenon
    <2>3. old.pc = "idle" /\ UNCHANGED <<inboxes, messages, delivery>>
      BY <1>3, Zenon DEF BeginDeleteInbox, db
    <2>4. DeletionBegins(x)
      BY <1>0, <2>2, <2>3 DEF DeletionBegins, DeletionRecord
    <2>. QED
      BY <2>2, <2>3, <2>4 DEF Rest
  <1>4. CASE BeginDeleteMessage(x)
    <2>1. PICK m \in messages :
            deletion' = [deletion EXCEPT ![x] = [old EXCEPT !.pc = "begun", !.msgs = {m}]]
      BY <1>0, <1>4, Zenon DEF BeginDeleteMessage
    <2>2. deletion'[x] = [old EXCEPT !.pc = "begun", !.msgs = {m}] /\ Rest
      BY <1>2, <2>1, Zenon
    <2>3. old.pc = "idle" /\ UNCHANGED <<inboxes, messages, delivery>>
      BY <1>4, Zenon DEF BeginDeleteMessage, db
    <2>4. DeletionBegins(x)
      BY <1>0, <2>2, <2>3 DEF DeletionBegins, DeletionRecord
    <2>. QED
      BY <2>2, <2>3, <2>4 DEF Rest
  <1>5. CASE LockInbox(x)
    <2>. DEFINE keys == KeysIn(old.inboxes)
                r == [old EXCEPT !.pc = "locked", !.refs = keys]
    <2>1. End(x) \/ deletion' = [deletion EXCEPT ![x] = r]
      BY <1>0, <1>5 DEF LockInbox
    <2>2. /\ old.pc = "begun" /\ old.msgs = {} /\ \A i \in old.inboxes : ~InboxLocked(i)
          /\ UNCHANGED <<inboxes, messages, delivery>>
      BY <1>5, Zenon DEF LockInbox, db
    <2>. HIDE DEF keys
    <2>3. r.pc = "locked" /\ r.msgs = old.msgs /\ r.inboxes = old.inboxes
      BY <1>0 DEF DeletionRecord
    <2>. HIDE DEF r
    <2>4. deletion' = [deletion EXCEPT ![x] = r] => DeletionClaims(x) /\ Rest
      BY <1>2, <2>2, <2>3, Zenon DEF DeletionClaims
    <2>. QED
      BY <1>1, <2>1, <2>2, <2>4, Zenon DEF Rest
  <1>6. CASE LockMessage(x)
    <2>1. old.pc = "begun" /\ old.msgs # {} /\ UNCHANGED <<inboxes, messages, delivery>>
      BY <1>6, Zenon DEF LockMessage, db
    <2>2. PICK k : End(x) \/ deletion' = [deletion EXCEPT ![x] =
                                            [old EXCEPT !.pc = "locked", !.refs = {k}]]
      BY <1>0, <1>6, Zenon DEF LockMessage
    <2>. DEFINE r == [old EXCEPT !.pc = "locked", !.refs = {k}]
    <2>3. r.pc = "locked" /\ r.msgs = old.msgs /\ r.inboxes = old.inboxes
      BY <1>0 DEF DeletionRecord
    <2>. HIDE DEF r
    <2>4. deletion' = [deletion EXCEPT ![x] = r] => DeletionClaims(x) /\ Rest
      BY <1>2, <2>1, <2>3, Zenon DEF DeletionClaims
    <2>. QED
      BY <1>1, <2>1, <2>2, <2>4 DEF Rest, r
  <1>7. CASE RemoveRows(x)
    <2>. DEFINE victims == {m \in messages : m \in old.msgs \/ m.inbox \in old.inboxes}
                r == [old EXCEPT !.pc = "removed", !.gone = victims]
    <2>1. deletion' = [deletion EXCEPT ![x] = r]
      BY <1>0, <1>7 DEF RemoveRows
    <2>2. old.pc = "locked" /\ UNCHANGED <<inboxes, messages, delivery>>
      BY <1>7, Zenon DEF RemoveRows, db
    <2>. HIDE DEF victims
    <2>3. r.pc = "removed" /\ r.msgs = old.msgs /\ r.inboxes = old.inboxes /\ r.gone = victims
      BY <1>0 DEF DeletionRecord
    <2>. HIDE DEF r
    <2>4. DeletionRemoves(x) /\ Rest
      BY <1>2, <2>1, <2>2, <2>3, Zenon DEF DeletionRemoves, victims
    <2>. QED
      BY <2>2, <2>4, Zenon DEF Rest
  <1>8. CASE ScanContent(x)
    <2>. DEFINE c == Min(old.refs)
                r == [old EXCEPT !.pc = "pruning"]
                s == [old EXCEPT !.refs = old.refs \ {c}]
    <2>1. deletion' = [deletion EXCEPT ![x] = r] \/ deletion' = [deletion EXCEPT ![x] = s]
      BY <1>0, <1>8 DEF ScanContent
    <2>2. old.pc = "removed" /\ UNCHANGED <<inboxes, messages, delivery>>
      BY <1>8, Zenon DEF ScanContent, db
    <2>. HIDE DEF c
    <2>3. /\ r.pc = "pruning" /\ r.msgs = old.msgs /\ r.inboxes = old.inboxes /\ r.gone = old.gone
          /\ s.pc = "removed" /\ s.msgs = old.msgs /\ s.inboxes = old.inboxes /\ s.gone = old.gone
      BY <1>0, <2>2 DEF DeletionRecord
    <2>. HIDE DEF r, s
    <2>4. DeletionPrunes(x) /\ Rest
      BY <1>2, <2>1, <2>2, <2>3 DEF DeletionPrunes
    <2>. QED
      BY <2>2, <2>4, Zenon DEF Rest
  <1>9. CASE DropContent(x)
    <2>. DEFINE c == Min(old.refs)
                r == [old EXCEPT !.pc = "removed", !.refs = old.refs \ {c}]
                s == [old EXCEPT !.pc = "removed", !.refs = old.refs \ {c},
                                 !.dropped = old.dropped \union {c}]
    <2>1. \/ End(x)
          \/ deletion' = [deletion EXCEPT ![x] = r]
          \/ deletion' = [deletion EXCEPT ![x] = s]
      BY <1>0, <1>9 DEF DropContent
    <2>2. old.pc = "pruning" /\ UNCHANGED <<inboxes, messages, delivery>>
      BY <1>9, Zenon DEF DropContent, db
    <2>. HIDE DEF c
    <2>3. r.pc = "removed" /\ r.msgs = old.msgs /\ r.inboxes = old.inboxes /\ r.gone = old.gone
      BY <1>0 DEF DeletionRecord
    <2>4. s.pc = "removed" /\ s.msgs = old.msgs /\ s.inboxes = old.inboxes /\ s.gone = old.gone
      BY <1>0 DEF DeletionRecord
    <2>. HIDE DEF r, s
    <2>5. ~End(x) => DeletionPrunes(x) /\ Rest
      BY <1>2, <2>1, <2>2, <2>3, <2>4 DEF DeletionPrunes
    <2>. QED
      BY <1>1, <2>2, <2>5, Zenon DEF Rest
  <1>10. CASE CommitDeletion(x)
    BY <1>1, <1>10, Zenon DEF CommitDeletion, DeletionCommits, Rest
  <1>11. CASE DeletionFails(x)
    BY <1>1, <1>11, Zenon DEF DeletionFails, Rest, db
  <1>. QED
    BY <1>3, <1>4, <1>5, <1>6, <1>7, <1>8, <1>9, <1>10, <1>11, Zenon DEF RequestStep, DeletionStep

-----------------------------------------------------------------------------
(* The Inbox row locks: what a delivery or a deletion found when it locked  *)
(* its Inboxes is still so when it commits.                                 *)

\* A delivery that has not begun has no recipients, one under way has some;
\* neither has been answered.  One that gave up during its COMMIT was told 451.
DeliveryShape ==
  \A d \in Deliveries :
    /\ delivery[d].pc = "idle" => delivery[d].rcpt = {} /\ delivery[d].reply = "none"
    /\ delivery[d].pc \in LeasePoints => delivery[d].rcpt # {} /\ delivery[d].reply = "none"
    /\ delivery[d].pc \in {"limbo", "late"} => delivery[d].rcpt # {} /\ delivery[d].reply = "451"
    /\ delivery[d].pc = "done" => delivery[d].reply # "none"

\* Messages are written by the COMMIT of their delivery, under its key, and only
\* such messages are asked to be deleted.
CommittedPoints == {"committed", "late", "done"}
MessagesCommitted ==
  \A m \in messages : delivery[m.by].pc \in CommittedPoints /\ delivery[m.by].key = m.key
TargetsCommitted ==
  \A x \in Deleters : \A m \in deletion[x].msgs :
    delivery[m.by].pc \in CommittedPoints /\ delivery[m.by].key = m.key

\* The locked recipients of a delivery are not deleted.
LockedIsThere ==
  \A d \in Deliveries : delivery[d].pc \in DeliveryLocks =>
    \A i \in delivery[d].rcpt : inboxes[i] # "deleted"

\* Two deliveries never hold the lock of one Inbox ...
OneDelivery ==
  \A d, e \in Deliveries :
    delivery[d].pc \in DeliveryLocks /\ delivery[e].pc \in DeliveryLocks /\ d # e =>
      \A i \in delivery[d].rcpt : i \notin delivery[e].rcpt

\* ... nor do a delivery and a deletion.
OneHolder ==
  \A d \in Deliveries, x \in Deleters :
    delivery[d].pc \in DeliveryLocks /\ deletion[x].pc \in DeletionLocks =>
      \A i \in delivery[d].rcpt : i \notin deletion[x].inboxes

\* A transaction deletes one message or some Inboxes, never both.
OneTarget ==
  \A x \in Deleters :
    /\ \A m, n \in deletion[x].msgs : m = n
    /\ deletion[x].msgs # {} => deletion[x].inboxes = {}
    /\ deletion[x].pc \in {"idle", "done"} => deletion[x].msgs = {} /\ deletion[x].inboxes = {}

\* What a transaction has removed is its message, or all there is in its
\* Inboxes until it commits.
GoneIsTarget ==
  \A x \in Deleters : deletion[x].pc \in {"removed", "pruning"} =>
    /\ \A m \in deletion[x].gone : m \in deletion[x].msgs \/ m.inbox \in deletion[x].inboxes
    /\ \A m \in messages :
         m \in deletion[x].msgs \/ m.inbox \in deletion[x].inboxes => m \in deletion[x].gone

\* The inductive invariant of the locks.
LockInv ==
  /\ DeliveryShape /\ MessagesCommitted /\ TargetsCommitted /\ LockedIsThere
  /\ OneDelivery /\ OneHolder /\ OneTarget /\ GoneIsTarget

LEMMA TargetTypes ==
  ASSUME TypeInv, NEW x \in Deleters, NEW m \in deletion[x].msgs
  PROVE  m.by \in Deliveries
  <1>1. deletion \in [Deleters -> DeletionRecord]
    BY DEF TypeInv, TypeOK
  <1>2. deletion[x].msgs \subseteq Message
    BY <1>1 DEF DeletionRecord
  <1>. QED
    BY <1>2 DEF Message

\* Nobody holds a lock initially.
LEMMA LockInit == Init => LockInv
  <1>. SUFFICES ASSUME Init PROVE LockInv
    OBVIOUS
  <1>1. \A d \in Deliveries : delivery[d].pc = "idle" /\ delivery[d].rcpt = {}
                              /\ delivery[d].reply = "none"
    BY DEF Init, NoDelivery
  <1>2. \A x \in Deleters : deletion[x].pc = "idle" /\ deletion[x].msgs = {}
                            /\ deletion[x].inboxes = {}
    BY Zenon DEF Init, NoDeletion
  <1>3. messages = {}
    BY DEF Init
  <1>4. "idle" \notin LeasePoints /\ "idle" \notin DeliveryLocks
        /\ "idle" \notin {"limbo", "late"} /\ "idle" # "done"
    BY DEF LeasePoints, DeliveryLocks
  <1>5. DeliveryShape /\ MessagesCommitted /\ LockedIsThere /\ OneDelivery /\ OneHolder
    BY <1>1, <1>3, <1>4, Zenon
       DEF DeliveryShape, MessagesCommitted, LockedIsThere, OneDelivery, OneHolder
  <1>6. OneTarget /\ GoneIsTarget /\ TargetsCommitted
    BY <1>2, Zenon DEF OneTarget, GoneIsTarget, TargetsCommitted
  <1>. QED
    BY <1>5, <1>6 DEF LockInv

\* A step of a delivery that writes no message and keeps or releases its locks,
\* or takes them while they are free.
LEMMA DeliveryKeepsLocks ==
  ASSUME TypeInv, LockInv, NEW d \in Deliveries, UNCHANGED <<inboxes, deletion>>,
         \A e \in Deliveries : /\ delivery'[e].rcpt = delivery[e].rcpt
                               /\ delivery'[e].key = delivery[e].key
                               /\ e # d => delivery'[e] = delivery[e],
         delivery[d].pc \in LeasePoints \union {"limbo"},
         delivery'[d].pc # "idle",
         delivery[d].pc = "committed" => delivery'[d].pc = "done",
         delivery'[d].pc \in {"limbo", "late"} => delivery'[d].reply = "451",
         delivery'[d].pc = "done" => delivery'[d].reply # "none",
         delivery'[d].pc \in LeasePoints => /\ delivery[d].pc \in LeasePoints
                                            /\ delivery'[d].reply = delivery[d].reply,
         delivery'[d].pc \in DeliveryLocks =>
           \/ delivery[d].pc \in DeliveryLocks
           \/ \A i \in delivery[d].rcpt : ~InboxLocked(i) /\ inboxes[i] # "deleted",
         \/ messages' = messages
         \/ /\ delivery[d].pc \in {"inserted", "limbo"} /\ delivery'[d].pc \in CommittedPoints
            /\ messages' = messages \union Rows(d)
  PROVE  LockInv'
  <1>1. DeliveryShape'
    <2>1. delivery[d].rcpt # {} /\ delivery[d].pc # "idle"
          /\ (delivery[d].pc \in LeasePoints => delivery[d].reply = "none")
      BY Zenon DEF LockInv, DeliveryShape, LeasePoints
    <2>2. /\ delivery'[d].rcpt # {} /\ delivery'[d].pc # "idle"
          /\ delivery'[d].pc \in LeasePoints => delivery'[d].reply = "none"
      BY <2>1, Zenon
    <2>. QED
      BY <2>2, Zenon DEF LockInv, DeliveryShape
  <1>2. ASSUME NEW e \in Deliveries, delivery[e].pc \in CommittedPoints
        PROVE  delivery'[e].pc \in CommittedPoints
    <2>1. CASE e = d
      <3>1. delivery[d].pc = "committed"
        BY <1>2, <2>1, Zenon DEF LeasePoints, CommittedPoints
      <3>. QED
        BY <2>1, <3>1, Zenon DEF CommittedPoints
    <2>2. CASE e # d
      BY <1>2, <2>2, Zenon
    <2>. QED
      BY <2>1, <2>2, Zenon
  <1>3. \A m \in Rows(d) : /\ m.by = d /\ m.key = delivery[d].key
                           /\ m.inbox \in delivery[d].rcpt
    <2>. SUFFICES ASSUME NEW m \in Rows(d)
                  PROVE  m.by = d /\ m.key = delivery[d].key /\ m.inbox \in delivery[d].rcpt
      BY Zenon
    <2>. DEFINE k == delivery[d].key
                R == delivery[d].rcpt
    <2>1. PICK i \in R : m = [by |-> d, inbox |-> i, key |-> k]
      BY Zenon DEF Rows
    <2>. HIDE DEF k, R
    <2>2. m.by = d /\ m.key = k /\ m.inbox \in R
      BY <2>1, Zenon
    <2>. QED
      BY <2>2, Zenon DEF k, R
  <1>4. ASSUME NEW m \in messages', m \notin messages
        PROVE  /\ delivery[d].pc \in {"inserted", "limbo"} /\ delivery'[d].pc \in CommittedPoints
               /\ m.by = d /\ m.key = delivery[d].key /\ m.inbox \in delivery[d].rcpt
    BY <1>3, <1>4, Zenon
  <1>5. MessagesCommitted'
    <2>. SUFFICES ASSUME NEW m \in messages'
                  PROVE  delivery'[m.by].pc \in CommittedPoints /\ delivery'[m.by].key = m.key
      BY Zenon DEF MessagesCommitted
    <2>1. CASE m \in messages
      <3>1. delivery[m.by].pc \in CommittedPoints /\ delivery[m.by].key = m.key
        BY <2>1, Zenon DEF LockInv, MessagesCommitted
      <3>2. m.by \in Deliveries
        BY <2>1, Zenon DEF TypeInv, TypeOK, Message
      <3>. QED
        BY <1>2, <3>1, <3>2, Zenon
    <2>2. CASE m \notin messages
      BY <1>4, <2>2, Zenon
    <2>. QED
      BY <2>1, <2>2, Zenon
  <1>6. LockedIsThere'
    BY Zenon DEF LockInv, LockedIsThere
  <1>7. OneDelivery'
    <2>. SUFFICES ASSUME NEW a \in Deliveries, NEW b \in Deliveries, a # b,
                         delivery'[a].pc \in DeliveryLocks, delivery'[b].pc \in DeliveryLocks,
                         NEW i, i \in delivery[a].rcpt, i \in delivery[b].rcpt
                  PROVE  FALSE
      BY Zenon DEF OneDelivery
    <2>1. CASE delivery[a].pc \in DeliveryLocks /\ delivery[b].pc \in DeliveryLocks
      BY <2>1, Zenon DEF LockInv, OneDelivery
    <2>2. CASE delivery[a].pc \notin DeliveryLocks
      <3>1. a = d /\ ~InboxLocked(i)
        BY <2>2, Zenon
      <3>2. delivery[b].pc \in DeliveryLocks
        BY <3>1, Zenon
      <3>. QED
        BY <3>1, <3>2, Zenon DEF InboxLocked
    <2>3. CASE delivery[b].pc \notin DeliveryLocks
      <3>1. b = d /\ ~InboxLocked(i)
        BY <2>3, Zenon
      <3>2. delivery[a].pc \in DeliveryLocks
        BY <3>1, Zenon
      <3>. QED
        BY <3>1, <3>2, Zenon DEF InboxLocked
    <2>. QED
      BY <2>1, <2>2, <2>3, Zenon
  <1>8. OneHolder'
    <2>. SUFFICES ASSUME NEW a \in Deliveries, NEW x \in Deleters,
                         delivery'[a].pc \in DeliveryLocks, deletion[x].pc \in DeletionLocks,
                         NEW i, i \in delivery[a].rcpt, i \in deletion[x].inboxes
                  PROVE  FALSE
      BY Zenon DEF OneHolder
    <2>1. CASE delivery[a].pc \in DeliveryLocks
      BY <2>1, Zenon DEF LockInv, OneHolder
    <2>2. CASE delivery[a].pc \notin DeliveryLocks
      <3>1. ~InboxLocked(i)
        BY <2>2, Zenon
      <3>. QED
        BY <3>1, Zenon DEF InboxLocked
    <2>. QED
      BY <2>1, <2>2, Zenon
  <1>9. OneTarget'
    BY Zenon DEF LockInv, OneTarget
  <1>10. GoneIsTarget'
    <2>1. \A x \in Deleters : deletion[x].pc \in {"removed", "pruning"} =>
            \A m \in messages' : m.inbox \in deletion[x].inboxes => m \in messages
      BY <1>4, Zenon DEF LockInv, OneHolder, DeliveryLocks, DeletionLocks
    <2>2. \A x \in Deleters : \A m \in messages' : m \in deletion[x].msgs => m \in messages
      BY <1>4, Zenon DEF LockInv, TargetsCommitted, CommittedPoints
    <2>. QED
      BY <2>1, <2>2, Zenon DEF LockInv, GoneIsTarget
  <1>11. TargetsCommitted'
    <2>1. \A x \in Deleters : \A m \in deletion[x].msgs : m.by \in Deliveries
      BY TargetTypes, Zenon
    <2>. QED
      BY <1>2, <2>1, Zenon DEF LockInv, TargetsCommitted
  <1>. QED
    BY <1>1, <1>5, <1>6, <1>7, <1>8, <1>9, <1>10, <1>11, Zenon DEF LockInv

\* Receive and CommitDelivery respect the locks.
LEMMA DeliveryLock ==
  ASSUME TypeInv, LockInv, NEW d \in Deliveries, DeliveryStep(d) \/ DeliveryFault(d)
  PROVE  LockInv'
  <1>1. /\ UNCHANGED <<inboxes, deletion>>
        /\ \A e \in Deliveries : /\ delivery'[e].rcpt = delivery[e].rcpt
                                 /\ delivery'[e].key = delivery[e].key
                                 /\ e # d => delivery'[e] = delivery[e]
        /\ \/ DeliveryMoves(d) \/ DeliveryRefused(d) \/ DeliveryCommits(d)
           \/ DeliveryAnswers(d) \/ DeliveryLate(d)
    BY DeliveryEffect, Zenon
  <1>2. CASE DeliveryMoves(d)
    BY <1>1, <1>2, DeliveryKeepsLocks, Zenon DEF DeliveryMoves, StoredPoints, LeasePoints
  <1>3. CASE DeliveryRefused(d)
    BY <1>1, <1>3, DeliveryKeepsLocks, Zenon DEF DeliveryRefused, LeasePoints, DeliveryLocks
  <1>4. CASE DeliveryCommits(d)
    BY <1>1, <1>4, DeliveryKeepsLocks, Zenon
       DEF DeliveryCommits, LeasePoints, DeliveryLocks, CommittedPoints
  <1>5. CASE DeliveryAnswers(d)
    BY <1>1, <1>5, DeliveryKeepsLocks, Zenon DEF DeliveryAnswers, LeasePoints, DeliveryLocks
  <1>6. CASE DeliveryLate(d)
    <2>1. delivery[d].pc = "limbo" => delivery[d].reply = "451"
      BY Zenon DEF LockInv, DeliveryShape
    <2>. QED
      BY <1>1, <1>6, <2>1, DeliveryKeepsLocks, Zenon
         DEF DeliveryLate, LeasePoints, DeliveryLocks, CommittedPoints
  <1>. QED
    BY <1>1, <1>2, <1>3, <1>4, <1>5, <1>6, Zenon

\* What Receive does: it gives an idle delivery active recipients.
LEMMA ReceiveEffect ==
  ASSUME TypeInv, NEW d \in Deliveries, Receive(d)
  PROVE  \E R \in SUBSET {i \in Inboxes : inboxes[i] = "active"} :
           /\ R # {}
           /\ delivery[d].pc = "idle"
           /\ delivery'[d].pc = "put"
           /\ delivery'[d].rcpt = R
           /\ delivery'[d].reply = delivery[d].reply
           /\ \A e \in Deliveries : e # d => delivery'[e] = delivery[e]
           /\ UNCHANGED <<inboxes, messages, deletion>>
  <1>1. PICK c \in Contents, R \in SUBSET {i \in Inboxes : inboxes[i] = "active"} :
          /\ R # {}
          /\ delivery' = [delivery EXCEPT ![d] = [@ EXCEPT !.pc = "put", !.key = c, !.rcpt = R]]
    BY Zenon DEF Receive
  <1>2. delivery[d].pc = "idle" /\ UNCHANGED <<inboxes, messages, deletion>>
    BY Zenon DEF Receive, db
  <1>3. /\ delivery'[d].pc = "put" /\ delivery'[d].rcpt = R
        /\ delivery'[d].reply = delivery[d].reply
        /\ \A e \in Deliveries : e # d => delivery'[e] = delivery[e]
    BY <1>1 DEF TypeInv, TypeOK, DeliveryRecord
  <1>. QED
    BY <1>1, <1>2, <1>3, Zenon

\* Receive takes no lock and writes no row.
LEMMA ReceiveLock ==
  ASSUME TypeInv, LockInv, NEW d \in Deliveries, Receive(d)
  PROVE  LockInv'
  <1>1. /\ delivery[d].pc = "idle" /\ delivery'[d].pc = "put"
        /\ delivery'[d].rcpt # {}
        /\ delivery'[d].reply = delivery[d].reply
        /\ \A e \in Deliveries : e # d => delivery'[e] = delivery[e]
        /\ UNCHANGED <<inboxes, messages, deletion>>
    BY ReceiveEffect, Zenon
  <1>2. DeliveryShape'
    BY <1>1, Zenon DEF LockInv, DeliveryShape
  <1>3. MessagesCommitted' /\ TargetsCommitted'
    <2>1. /\ \A m \in messages : m.by \in Deliveries
          /\ \A x \in Deleters : \A m \in deletion[x].msgs : m.by \in Deliveries
      BY TargetTypes DEF TypeInv, TypeOK, Message
    <2>2. \A e \in Deliveries : delivery[e].pc \in CommittedPoints => delivery'[e] = delivery[e]
      BY <1>1, Zenon DEF CommittedPoints
    <2>. QED
      BY <1>1, <2>1, <2>2, Zenon DEF LockInv, MessagesCommitted, TargetsCommitted
  <1>4. "put" \notin DeliveryLocks
    BY DEF DeliveryLocks
  <1>5. LockedIsThere' /\ OneDelivery' /\ OneHolder'
    BY <1>1, <1>4, Zenon DEF LockInv, LockedIsThere, OneDelivery, OneHolder
  <1>6. OneTarget' /\ GoneIsTarget'
    BY <1>1, Zenon DEF LockInv, OneTarget, GoneIsTarget
  <1>. QED
    BY <1>2, <1>3, <1>5, <1>6 DEF LockInv

\* A step of a deletion that leaves the tables alone and locks only what is free.
LEMMA DeletionKeepsLocks ==
  ASSUME LockInv, NEW x \in Deleters, UNCHANGED <<inboxes, messages, delivery>>,
         \A y \in Deleters : y # x => deletion'[y] = deletion[y],
         \/ DeletionBegins(x) \/ DeletionClaims(x) \/ DeletionRemoves(x)
         \/ DeletionPrunes(x) \/ DeletionEnded(x)
  PROVE  LockInv'
  <1>1. DeliveryShape' /\ MessagesCommitted' /\ LockedIsThere' /\ OneDelivery'
    BY Zenon DEF LockInv, DeliveryShape, MessagesCommitted, LockedIsThere, OneDelivery
  <1>2. OneHolder'
    <2>1. ASSUME deletion'[x].pc \in DeletionLocks, NEW i \in deletion'[x].inboxes,
                 NEW d \in Deliveries, delivery[d].pc \in DeliveryLocks
          PROVE  i \notin delivery[d].rcpt
      <3>1. CASE DeletionClaims(x)
        BY <2>1, <3>1, Zenon DEF DeletionClaims, InboxLocked, LockInv, OneTarget
      <3>2. CASE DeletionRemoves(x) \/ DeletionPrunes(x)
        BY <2>1, <3>2, Zenon DEF DeletionRemoves, DeletionPrunes, DeletionLocks, LockInv, OneHolder
      <3>3. CASE DeletionBegins(x) \/ DeletionEnded(x)
        BY <2>1, <3>3, Zenon DEF DeletionBegins, DeletionEnded, DeletionLocks
      <3>. QED
        BY <3>1, <3>2, <3>3, Zenon
    <2>. QED
      BY <2>1, Zenon DEF LockInv, OneHolder
  <1>3. OneTarget'
    <2>1. /\ \A m, n \in deletion'[x].msgs : m = n
          /\ deletion'[x].msgs # {} => deletion'[x].inboxes = {}
          /\ deletion'[x].pc \in {"idle", "done"} =>
               deletion'[x].msgs = {} /\ deletion'[x].inboxes = {}
      <3>1. /\ \A m, n \in deletion[x].msgs : m = n
            /\ deletion[x].msgs # {} => deletion[x].inboxes = {}
            /\ deletion[x].pc = "idle" => deletion[x].msgs = {} /\ deletion[x].inboxes = {}
        BY Zenon DEF LockInv, OneTarget
      <3>2. CASE DeletionBegins(x)
        BY <3>1, <3>2, Zenon DEF DeletionBegins
      <3>3. CASE DeletionClaims(x)
        BY <3>1, <3>3, Zenon DEF DeletionClaims
      <3>4. CASE DeletionRemoves(x)
        BY <3>1, <3>4, Zenon DEF DeletionRemoves
      <3>5. CASE DeletionPrunes(x)
        BY <3>1, <3>5, Zenon DEF DeletionPrunes
      <3>6. CASE DeletionEnded(x)
        BY <3>6, Zenon DEF DeletionEnded
      <3>. QED
        BY <3>2, <3>3, <3>4, <3>5, <3>6, Zenon
    <2>. QED
      BY <2>1, Zenon DEF LockInv, OneTarget
  <1>4. GoneIsTarget'
    <2>1. ASSUME deletion'[x].pc \in {"removed", "pruning"}
          PROVE  /\ \A m \in deletion'[x].gone : m \in deletion'[x].msgs
                                                 \/ m.inbox \in deletion'[x].inboxes
                 /\ \A m \in messages :
                      m \in deletion'[x].msgs \/ m.inbox \in deletion'[x].inboxes
                        => m \in deletion'[x].gone
      <3>1. CASE DeletionRemoves(x)
        BY <3>1, Zenon DEF DeletionRemoves
      <3>2. CASE DeletionPrunes(x)
        BY <3>2, Zenon DEF DeletionPrunes, LockInv, GoneIsTarget
      <3>. QED
        BY <2>1, <3>1, <3>2, Zenon DEF DeletionBegins, DeletionClaims, DeletionEnded
    <2>. QED
      BY <2>1, Zenon DEF LockInv, GoneIsTarget
  <1>5. TargetsCommitted'
    <2>1. \A m \in deletion'[x].msgs : m \in deletion[x].msgs \/ m \in messages
      BY Zenon DEF DeletionBegins, DeletionClaims, DeletionRemoves, DeletionPrunes, DeletionEnded
    <2>. QED
      BY <2>1, Zenon DEF LockInv, MessagesCommitted, TargetsCommitted
  <1>. QED
    BY <1>1, <1>2, <1>3, <1>4, <1>5, Zenon DEF LockInv

\* Every statement of a deleting transaction respects the locks.
LEMMA DeletionLock ==
  ASSUME TypeInv, LockInv, NEW x \in Deleters,
         BeginDeleteInbox(x) \/ BeginDeleteMessage(x) \/ RequestStep(x) \/ DeletionFails(x)
  PROVE  LockInv'
  <1>1. /\ UNCHANGED delivery
        /\ \A y \in Deleters : y # x => deletion'[y] = deletion[y]
        /\ \/ DeletionCommits(x)
           \/ /\ UNCHANGED <<inboxes, messages>>
              /\ \/ DeletionBegins(x) \/ DeletionClaims(x) \/ DeletionRemoves(x)
                 \/ DeletionPrunes(x) \/ DeletionEnded(x)
    BY DeletionEffect, Zenon
  <1>2. CASE DeletionCommits(x)
    <2>1. /\ messages' \subseteq messages
          /\ deletion[x].pc \in DeletionLocks
          /\ deletion'[x].pc \in {"idle", "done"}
          /\ deletion'[x].msgs = {} /\ deletion'[x].inboxes = {}
      BY <1>2, Zenon DEF DeletionCommits, DeletionEnded, DeletionLocks
    <2>2. \A i \in Inboxes : inboxes'[i] = "deleted" =>
            inboxes[i] = "deleted" \/ i \in deletion[x].inboxes
      BY <1>2 DEF DeletionCommits
    <2>3. DeliveryShape' /\ MessagesCommitted' /\ OneDelivery'
      BY <1>1, <2>1, Zenon DEF LockInv, DeliveryShape, MessagesCommitted, OneDelivery
    <2>4. LockedIsThere'
      <3>1. \A d \in Deliveries : delivery[d].rcpt \subseteq Inboxes
        BY DEF TypeInv, TypeOK, DeliveryRecord
      <3>. QED
        BY <1>1, <2>1, <2>2, <3>1, Zenon DEF LockInv, LockedIsThere, OneHolder
    <2>5. OneHolder'
      BY <1>1, <2>1, Zenon DEF LockInv, OneHolder
    <2>6. OneTarget'
      BY <1>1, <2>1, Zenon DEF LockInv, OneTarget
    <2>8. TargetsCommitted'
      BY <1>1, <2>1, Zenon DEF LockInv, TargetsCommitted
    <2>7. GoneIsTarget'
      BY <1>1, <2>1, Zenon DEF LockInv, GoneIsTarget
    <2>. QED
      BY <2>3, <2>4, <2>5, <2>6, <2>7, <2>8 DEF LockInv
  <1>. QED
    BY <1>1, <1>2, DeletionKeepsLocks, Zenon

\* CleanupExpiredInboxes: SKIP LOCKED passes over what is locked.
LEMMA CleanupEffect ==
  ASSUME TypeInv, BeginCleanup
  PROVE  /\ Sweeper \in Deleters
         /\ UNCHANGED <<inboxes, messages, delivery>>
         /\ \/ UNCHANGED deletion
            \/ /\ DeletionClaims(Sweeper) \/ deletion[Sweeper].msgs # {}
               /\ deletion[Sweeper].pc = "idle"
               /\ \A y \in Deleters : y # Sweeper => deletion'[y] = deletion[y]
  <1>. DEFINE old == deletion[Sweeper]
  <1>1. Sweeper \in Deleters /\ UNCHANGED <<inboxes, messages, delivery>>
    BY Zenon DEF Deleters, BeginCleanup, db
  <1>2. CASE ~UNCHANGED deletion
    <2>1. PICK I \in SUBSET {i \in Inboxes : inboxes[i] = "expired" /\ ~InboxLocked(i)} :
            deletion' = [deletion EXCEPT ![Sweeper] =
                           [@ EXCEPT !.pc = "locked", !.inboxes = I, !.refs = KeysIn(I)]]
      BY <1>2, Zenon DEF BeginCleanup
    <2>2. old.pc = "idle"
      BY Zenon DEF BeginCleanup
    <2>. DEFINE keys == KeysIn(I)
    <2>. HIDE DEF keys
    <2>3. deletion' = [deletion EXCEPT ![Sweeper] =
                         [@ EXCEPT !.pc = "locked", !.inboxes = I, !.refs = keys]]
      BY <2>1, Zenon DEF keys
    <2>4. old \in DeletionRecord /\ deletion \in [Deleters -> DeletionRecord]
      BY <1>1 DEF TypeInv, TypeOK
    <2>5. /\ deletion'[Sweeper].pc = "locked"
          /\ deletion'[Sweeper].msgs = old.msgs
          /\ deletion'[Sweeper].inboxes = I
          /\ \A y \in Deleters : y # Sweeper => deletion'[y] = deletion[y]
      BY <1>1, <2>3, <2>4 DEF DeletionRecord
    <2>. QED
      BY <1>1, <2>2, <2>5, Zenon DEF DeletionClaims
  <1>. QED
    BY <1>1, <1>2, Zenon

\* A crash ends the deliveries that hold the lease and every open deletion.
LEMMA CrashEffect ==
  ASSUME TypeInv, Crash
  PROVE  /\ \A d \in Deliveries :
              /\ delivery'[d].rcpt = delivery[d].rcpt
              /\ delivery'[d].key = delivery[d].key
              /\ IF d \in Leased THEN delivery'[d].pc = "done" /\ delivery'[d].reply = "lost"
                                 ELSE delivery'[d] = delivery[d]
         /\ \A x \in Deleters :
              \/ deletion'[x] = deletion[x] /\ deletion[x].pc \in {"idle", "done"}
              \/ DeletionEnded(x)
         /\ UNCHANGED <<inboxes, messages>>
  <1>1. \A d \in Deliveries : delivery[d] \in DeliveryRecord
    BY DEF TypeInv, TypeOK
  <1>2. \A d \in Deliveries : delivery'[d] =
          IF d \in Leased THEN [delivery[d] EXCEPT !.pc = "done", !.reply = "lost"] ELSE delivery[d]
    BY Zenon DEF Crash
  <1>3. \A x \in Deleters : deletion'[x] =
          IF deletion[x].pc \in {"idle", "done"} THEN deletion[x] ELSE Ended(x)
    BY Zenon DEF Crash
  <1>4. UNCHANGED <<inboxes, messages>>
    BY Zenon DEF Crash, db
  <1>5. \A x \in Deleters : Ended(x).pc \in {"idle", "done"} /\ Ended(x).msgs = {}
                            /\ Ended(x).inboxes = {} /\ Ended(x).gone = {}
    BY DEF Ended, NoDeletion
  <1>6. ASSUME NEW d \in Deliveries
        PROVE  /\ delivery'[d].rcpt = delivery[d].rcpt
               /\ delivery'[d].key = delivery[d].key
               /\ IF d \in Leased THEN delivery'[d].pc = "done" /\ delivery'[d].reply = "lost"
                                  ELSE delivery'[d] = delivery[d]
    BY <1>1, <1>2, Zenon DEF DeliveryRecord
  <1>7. \A x \in Deleters :
          \/ deletion'[x] = deletion[x] /\ deletion[x].pc \in {"idle", "done"}
          \/ DeletionEnded(x)
    BY <1>3, <1>5 DEF DeletionEnded
  <1>. QED
    BY <1>4, <1>6, <1>7, Zenon

\* The sweep, expiry and a crash take no lock but those SKIP LOCKED finds free.
LEMMA OtherLock ==
  ASSUME TypeInv, LockInv,
         \/ BeginCleanup \/ ListDeletions \/ NextDeletion \/ RecheckReference
         \/ RemoveObject \/ Acknowledge \/ SweepStepFails \/ SweepReturns
         \/ Crash \/ \E i \in Inboxes : Expire(i)
  PROVE  LockInv'
  <1>1. ASSUME UNCHANGED <<messages, delivery, deletion>>,
               \A i \in Inboxes : inboxes'[i] = "deleted" => inboxes[i] = "deleted"
        PROVE  LockInv'
    <2>1. \A d \in Deliveries : delivery[d].rcpt \subseteq Inboxes
      BY DEF TypeInv, TypeOK, DeliveryRecord
    <2>2. LockedIsThere'
      BY <1>1, <2>1 DEF LockInv, LockedIsThere
    <2>3. DeliveryShape' /\ MessagesCommitted' /\ OneDelivery' /\ OneHolder'
      BY <1>1, Zenon DEF LockInv, DeliveryShape, MessagesCommitted, OneDelivery, OneHolder
    <2>4. OneTarget' /\ GoneIsTarget' /\ TargetsCommitted'
      BY <1>1, Zenon DEF LockInv, OneTarget, GoneIsTarget, TargetsCommitted
    <2>. QED
      BY <2>2, <2>3, <2>4 DEF LockInv
  <1>2. CASE BeginCleanup
    <2>1. CASE UNCHANGED deletion
      BY <1>1, <1>2, <2>1, CleanupEffect, Zenon
    <2>2. CASE ~UNCHANGED deletion
      <3>1. deletion[Sweeper].pc = "idle" => deletion[Sweeper].msgs = {}
        BY <1>2, CleanupEffect DEF LockInv, OneTarget
      <3>. QED
        BY <1>2, <2>2, <3>1, CleanupEffect, DeletionKeepsLocks, Zenon
    <2>. QED
      BY <2>1, <2>2
  <1>3. CASE ListDeletions \/ NextDeletion \/ RecheckReference \/ RemoveObject \/ Acknowledge
             \/ SweepStepFails \/ SweepReturns
    BY <1>1, <1>3, Zenon DEF ListDeletions, NextDeletion, RecheckReference, RemoveObject, Acknowledge,
                      SweepStepFails, SweepReturns, db
  <1>4. CASE \E i \in Inboxes : Expire(i)
    <2>1. UNCHANGED <<messages, delivery, deletion>>
      BY <1>4, Zenon DEF Expire
    <2>2. \A i \in Inboxes : inboxes'[i] = "deleted" => inboxes[i] = "deleted"
      BY <1>4 DEF Expire, TypeInv, TypeOK
    <2>. QED
      BY <1>1, <2>1, <2>2
  <1>5. CASE Crash
    <2>1. /\ \A d \in Deliveries :
               /\ delivery'[d].rcpt = delivery[d].rcpt
               /\ delivery'[d].key = delivery[d].key
               /\ \/ delivery'[d].pc = "done" /\ delivery'[d].reply = "lost"
                  \/ delivery'[d] = delivery[d]
          /\ \A x \in Deleters :
               \/ deletion'[x] = deletion[x] /\ deletion[x].pc \in {"idle", "done"}
               \/ DeletionEnded(x)
          /\ UNCHANGED <<inboxes, messages>>
      BY <1>5, CrashEffect, Zenon
    <2>2. "done" \notin DeliveryLocks /\ "done" \notin LeasePoints
      BY DEF DeliveryLocks, LeasePoints
    <2>3. \A m \in messages : m.by \in Deliveries
      BY DEF TypeInv, TypeOK, Message
    <2>4. DeliveryShape'
      BY <2>1, <2>2, Zenon DEF LockInv, DeliveryShape
    <2>9. \A d \in Deliveries :
            delivery[d].pc \in CommittedPoints => delivery'[d].pc \in CommittedPoints
      BY <2>1, Zenon DEF CommittedPoints
    <2>10. MessagesCommitted'
      BY <2>1, <2>3, <2>9, Zenon DEF LockInv, MessagesCommitted
    <2>11. TargetsCommitted'
      <3>1. \A x \in Deleters : \A m \in deletion[x].msgs : m.by \in Deliveries
        BY TargetTypes, Zenon
      <3>2. \A x \in Deleters : deletion'[x].msgs \in {{}, deletion[x].msgs}
        BY <2>1, Zenon DEF DeletionEnded
      <3>. QED
        BY <2>1, <2>9, <3>1, <3>2, Zenon DEF LockInv, TargetsCommitted
    <2>5. LockedIsThere' /\ OneDelivery'
      BY <2>1, <2>2, Zenon DEF LockInv, LockedIsThere, OneDelivery
    <2>6. \A x \in Deleters : deletion'[x].pc \in {"idle", "done"}
      BY <2>1, Zenon DEF DeletionEnded
    <2>7. OneHolder' /\ GoneIsTarget'
      BY <2>6, Zenon DEF OneHolder, GoneIsTarget, DeletionLocks
    <2>8. OneTarget'
      <3>1. \A x \in Deleters : deletion'[x] = deletion[x]
                                \/ (deletion'[x].msgs = {} /\ deletion'[x].inboxes = {})
        BY <2>1, Zenon DEF DeletionEnded
      <3>. QED
        BY <3>1, Zenon DEF LockInv, OneTarget
    <2>. QED
      BY <2>4, <2>5, <2>7, <2>8, <2>10, <2>11 DEF LockInv
  <1>. QED
    BY <1>2, <1>3, <1>4, <1>5

\* LockInv is inductive.
LEMMA LockStep == TypeInv /\ LockInv /\ [Next]_vars => LockInv'
  <1>. SUFFICES ASSUME TypeInv, LockInv, [Next]_vars PROVE LockInv'
    OBVIOUS
  <1>1. CASE UNCHANGED vars
    <2>1. inboxes' = inboxes /\ messages' = messages /\ delivery' = delivery /\ deletion' = deletion
      BY <1>1 DEF vars
    <2>2. DeliveryShape' /\ MessagesCommitted' /\ TargetsCommitted'
      BY <2>1, Zenon DEF LockInv, DeliveryShape, MessagesCommitted, TargetsCommitted
    <2>3. LockedIsThere' /\ OneDelivery' /\ OneHolder'
      <3>1. LockedIsThere'
        BY <2>1 DEF LockInv, LockedIsThere
      <3>2. OneDelivery'
        BY <2>1 DEF LockInv, OneDelivery
      <3>3. OneHolder'
        BY <2>1 DEF LockInv, OneHolder
      <3>. QED
        BY <3>1, <3>2, <3>3
    <2>4. OneTarget' /\ GoneIsTarget'
      <3>1. OneTarget'
        BY <2>1 DEF LockInv, OneTarget
      <3>2. GoneIsTarget'
        BY <2>1 DEF LockInv, GoneIsTarget
      <3>. QED
        BY <3>1, <3>2
    <2>. QED
      BY <2>2, <2>3, <2>4 DEF LockInv
  <1>2. CASE Next
    BY <1>2, ReceiveLock, DeliveryLock, DeletionLock, OtherLock
       DEF Next, SweepStep, RequestStep, Deleters
  <1>. QED
    BY <1>1, <1>2

-----------------------------------------------------------------------------
(* What the retention job deletes by itself.                               *)

\* The sweeper's transaction holds no message and only Inboxes that have ended.
SweepsEnded ==
  /\ deletion[Sweeper].msgs = {}
  /\ \A i \in deletion[Sweeper].inboxes : inboxes[i] # "active"

\* The sweeper's transaction goes on with what it claimed, or ends.
LEMMA SweeperEffect ==
  ASSUME TypeInv, DeletionStep(Sweeper) \/ DeletionFails(Sweeper)
  PROVE  /\ Sweeper \in Deleters
         /\ UNCHANGED delivery
         /\ \A y \in Deleters : y # Sweeper => deletion'[y] = deletion[y]
         /\ \/ DeletionCommits(Sweeper)
            \/ /\ UNCHANGED <<inboxes, messages>>
               /\ DeletionRemoves(Sweeper) \/ DeletionPrunes(Sweeper) \/ DeletionEnded(Sweeper)
  <1>1. Sweeper \in Deleters
    BY DEF Deleters
  <1>2. /\ UNCHANGED delivery
        /\ \A y \in Deleters : y # Sweeper => deletion'[y] = deletion[y]
        /\ \/ DeletionCommits(Sweeper)
           \/ /\ UNCHANGED <<inboxes, messages>>
              /\ \/ DeletionBegins(Sweeper) \/ DeletionClaims(Sweeper) \/ DeletionRemoves(Sweeper)
                 \/ DeletionPrunes(Sweeper) \/ DeletionEnded(Sweeper)
    BY <1>1, DeletionEffect, Zenon DEF RequestStep
  <1>3. CASE DeletionStep(Sweeper)
    <2>1. deletion[Sweeper].pc \in {"locked", "removed", "pruning"}
      BY <1>3, Zenon DEF DeletionStep, RemoveRows, ScanContent, DropContent, CommitDeletion
    <2>2. ~DeletionBegins(Sweeper) /\ ~DeletionClaims(Sweeper)
      BY <2>1 DEF DeletionBegins, DeletionClaims
    <2>. QED
      BY <1>1, <1>2, <2>2, Zenon
  <1>4. CASE DeletionFails(Sweeper)
    <2>1. End(Sweeper) /\ UNCHANGED <<inboxes, messages>>
      BY <1>4, Zenon DEF DeletionFails, db
    <2>2. deletion'[Sweeper] = NoDeletion
      BY <1>1, <2>1 DEF End, Ended, TypeInv, TypeOK
    <2>3. DeletionEnded(Sweeper)
      BY <2>2 DEF DeletionEnded, NoDeletion
    <2>. QED
      BY <1>1, <1>2, <2>1, <2>3, Zenon
  <1>. QED
    BY <1>3, <1>4, Zenon

\* A commit turns no Inbox active again.
LEMMA NeverReopened ==
  ASSUME NEW x \in Deleters, DeletionCommits(x) \/ UNCHANGED inboxes
  PROVE  \A i \in Inboxes : inboxes[i] # "active" => inboxes'[i] # "active"
  <1>1. CASE DeletionCommits(x)
    BY <1>1 DEF DeletionCommits
  <1>2. CASE UNCHANGED inboxes
    BY <1>2
  <1>. QED
    BY <1>1, <1>2

\* SweepsEnded is inductive.
LEMMA SweepsEndedStep ==
  ASSUME TypeInv, SweepsEnded, [Next]_vars
  PROVE  SweepsEnded'
  <1>0. Sweeper \in Deleters /\ Sweeper \notin Requests /\ Requests \subseteq Deleters
    BY LifecycleAssumption DEF Deleters
  <1>1. ASSUME \A i \in Inboxes : inboxes[i] # "active" => inboxes'[i] # "active",
               \/ /\ deletion'[Sweeper].msgs = deletion[Sweeper].msgs
                  /\ deletion'[Sweeper].inboxes = deletion[Sweeper].inboxes
               \/ DeletionEnded(Sweeper)
        PROVE  SweepsEnded'
    <2>1. deletion[Sweeper].inboxes \subseteq Inboxes
      BY <1>0 DEF TypeInv, TypeOK, DeletionRecord
    <2>. QED
      BY <1>1, <2>1, Zenon DEF SweepsEnded, DeletionEnded
  <1>2. CASE UNCHANGED vars
    BY <1>1, <1>2, Zenon DEF vars
  <1>3. ASSUME NEW d \in Deliveries, Receive(d) \/ DeliveryStep(d) \/ DeliveryFault(d)
        PROVE  SweepsEnded'
    BY <1>1, <1>3, ReceiveEffect, DeliveryEffect, Zenon
  <1>4. ASSUME NEW x \in Requests,
               BeginDeleteInbox(x) \/ BeginDeleteMessage(x) \/ RequestStep(x) \/ DeletionFails(x)
        PROVE  SweepsEnded'
    <2>1. /\ \A y \in Deleters : y # x => deletion'[y] = deletion[y]
          /\ DeletionCommits(x) \/ UNCHANGED <<inboxes, messages>>
      BY <1>0, <1>4, DeletionEffect, Zenon
    <2>2. deletion'[Sweeper] = deletion[Sweeper]
      BY <1>0, <2>1, Zenon
    <2>3. \A i \in Inboxes : inboxes[i] # "active" => inboxes'[i] # "active"
      BY <1>0, <2>1, NeverReopened, Zenon
    <2>. QED
      BY <1>1, <2>2, <2>3, Zenon
  <1>5. ASSUME DeletionStep(Sweeper) \/ DeletionFails(Sweeper)
        PROVE  SweepsEnded'
    <2>1. \/ DeletionCommits(Sweeper)
          \/ /\ UNCHANGED <<inboxes, messages>>
             /\ DeletionRemoves(Sweeper) \/ DeletionPrunes(Sweeper) \/ DeletionEnded(Sweeper)
      BY <1>5, SweeperEffect, Zenon
    <2>2. \A i \in Inboxes : inboxes[i] # "active" => inboxes'[i] # "active"
      BY <1>0, <2>1, NeverReopened, Zenon
    <2>. QED
      BY <1>1, <2>1, <2>2, Zenon DEF DeletionCommits, DeletionRemoves, DeletionPrunes
  <1>6. CASE BeginCleanup
    <2>1. CASE UNCHANGED deletion
      BY <1>1, <1>6, <2>1, CleanupEffect, Zenon
    <2>2. CASE ~UNCHANGED deletion
      <3>1. PICK I \in SUBSET {i \in Inboxes : inboxes[i] = "expired" /\ ~InboxLocked(i)} :
              deletion' = [deletion EXCEPT ![Sweeper] =
                             [@ EXCEPT !.pc = "locked", !.inboxes = I, !.refs = KeysIn(I)]]
        BY <1>6, <2>2, Zenon DEF BeginCleanup
      <3>. DEFINE keys == KeysIn(I)
      <3>. HIDE DEF keys
      <3>2. deletion' = [deletion EXCEPT ![Sweeper] =
                           [@ EXCEPT !.pc = "locked", !.inboxes = I, !.refs = keys]]
        BY <3>1, Zenon DEF keys
      <3>3. deletion[Sweeper] \in DeletionRecord /\ deletion \in [Deleters -> DeletionRecord]
        BY <1>0 DEF TypeInv, TypeOK
      <3>4. deletion'[Sweeper].msgs = deletion[Sweeper].msgs /\ deletion'[Sweeper].inboxes = I
        BY <1>0, <3>2, <3>3 DEF DeletionRecord
      <3>5. UNCHANGED inboxes
        BY <1>6, CleanupEffect, Zenon
      <3>6. \A i \in I : inboxes[i] # "active"
        BY <3>1
      <3>. QED
        BY <3>4, <3>5, <3>6, Zenon DEF SweepsEnded
    <2>. QED
      BY <2>1, <2>2
  <1>7. CASE ListDeletions \/ NextDeletion \/ RecheckReference \/ RemoveObject \/ Acknowledge
             \/ SweepStepFails \/ SweepReturns
    BY <1>1, <1>7, Zenon DEF ListDeletions, NextDeletion, RecheckReference, RemoveObject,
                        Acknowledge, SweepStepFails, SweepReturns, db
  <1>8. CASE \E i \in Inboxes : Expire(i)
    <2>1. PICK i \in Inboxes : inboxes' = [inboxes EXCEPT ![i] = "expired"] /\ UNCHANGED deletion
      BY <1>8, Zenon DEF Expire
    <2>2. \A j \in Inboxes : inboxes[j] # "active" => inboxes'[j] # "active"
      BY <2>1 DEF TypeInv, TypeOK
    <2>. QED
      BY <1>1, <2>1, <2>2, Zenon
  <1>9. CASE Crash
    <2>1. /\ deletion'[Sweeper] = deletion[Sweeper] \/ DeletionEnded(Sweeper)
          /\ UNCHANGED inboxes
      BY <1>0, <1>9, CrashEffect, Zenon
    <2>. QED
      BY <1>1, <2>1, Zenon
  <1>. QED
    BY <1>2, <1>3, <1>4, <1>5, <1>6, <1>7, <1>8, <1>9 DEF Next, SweepStep, Deleters

-----------------------------------------------------------------------------
(* The refinement of Mailbox: every step is one of its steps or changes     *)
(* nothing it can see.                                                      *)

\* The variables of Mailbox as MailLifecycle implements them; by MessagesReadable
\* every committed message is kept.
To == [d \in Deliveries |-> delivery[d].rcpt]
Undecided == {d \in Deliveries : delivery[d].pc \in UndecidedPoints}
Stored == {Copy(m) : m \in messages}
Reply == [d \in Deliveries |-> delivery[d].reply]
Wish(x) == [msgs |-> {Copy(m) : m \in deletion[x].msgs}, inboxes |-> deletion[x].inboxes]
Asked == [x \in Requests |-> Wish(x)]

\* What the steps rely on.
RefineInv == TypeInv /\ RowsInv /\ StoreInv /\ LockInv /\ SweepsEnded

\* The kept messages are the committed ones, before and after a step.
LEMMA AllKept ==
  ASSUME RefineInv, RefineInv'
  PROVE  {Copy(m) : m \in Kept} = Stored /\ {Copy(m) : m \in Kept}' = Stored'
  <1>1. Kept = messages
    BY DEF RefineInv, RowsInv, StoreInv, MessagesHaveRow, ContentsStored, Kept
  <1>2. Kept' = messages'
    BY DEF RefineInv, RowsInv, StoreInv, MessagesHaveRow, ContentsStored, Kept
  <1>. QED
    BY <1>1, <1>2, Zenon DEF Stored, Copy

\* A delivery and an Inbox determine the message.
LEMMA CopyUnique ==
  ASSUME TypeInv, LockInv, NEW x \in Deleters, NEW m \in messages, NEW n \in deletion[x].msgs,
         Copy(m) = Copy(n)
  PROVE  m = n
  <1>1. m.by = n.by /\ m.inbox = n.inbox
    BY DEF Copy
  <1>2. m.key = n.key
    BY <1>1 DEF LockInv, MessagesCommitted, TargetsCommitted
  <1>3. m \in Message /\ n \in Message
    BY DEF TypeInv, TypeOK, DeletionRecord
  <1>. QED
    BY <1>1, <1>2, <1>3 DEF Message

\* The initial states correspond.
LEMMA RefineInit == Init => MB!Init
  <1>. SUFFICES ASSUME Init PROVE MB!Init
    OBVIOUS
  <1>1. Kept = {}
    BY DEF Init, Kept
  <1>2. \A d \in Deliveries : /\ delivery[d].rcpt = {} /\ delivery[d].reply = "none"
                              /\ delivery[d].pc = "idle"
    BY DEF Init, NoDelivery
  <1>3. inboxes = [i \in Inboxes |-> "active"]
    BY DEF Init
  <1>4. \A x \in Requests : deletion[x].msgs = {} /\ deletion[x].inboxes = {}
    BY DEF Init, NoDeletion, Deleters
  <1>5. {d \in Deliveries : delivery[d].pc \in UndecidedPoints} = Deliveries
    BY <1>2 DEF UndecidedPoints
  <1>6. \A x \in Requests : [msgs |-> {Copy(m) : m \in deletion[x].msgs},
                             inboxes |-> deletion[x].inboxes] = [msgs |-> {}, inboxes |-> {}]
    BY <1>4
  <1>7. /\ [d \in Deliveries |-> delivery[d].rcpt] = [d \in Deliveries |-> {}]
        /\ [d \in Deliveries |-> delivery[d].reply] = [d \in Deliveries |-> "none"]
        /\ {Copy(m) : m \in Kept} = {}
    BY <1>1, <1>2
  <1>8. [x \in Requests |-> [msgs |-> {Copy(m) : m \in deletion[x].msgs},
                             inboxes |-> deletion[x].inboxes]]
          = [x \in Requests |-> [msgs |-> {}, inboxes |-> {}]]
    BY <1>6, Zenon
  <1>. QED
    BY <1>3, <1>5, <1>7, <1>8, Zenon DEF MB!Init, MB!Nothing

\* A step of MailLifecycle that Mailbox does not see.
Unseen == UNCHANGED <<inboxes, To, Undecided, Stored, Reply, Asked>>

\* Receive is Start.
LEMMA ReceiveRefines ==
  ASSUME RefineInv, RefineInv', NEW d \in Deliveries, Receive(d)
  PROVE  MB!Start(d)
  <1>0. TypeInv /\ LockInv
    BY DEF RefineInv
  <1>1. PICK R \in SUBSET {i \in Inboxes : inboxes[i] = "active"} :
           /\ R # {}
           /\ delivery[d].pc = "idle"
           /\ delivery'[d].pc = "put"
           /\ delivery'[d].rcpt = R
           /\ delivery'[d].reply = delivery[d].reply
           /\ \A e \in Deliveries : e # d => delivery'[e] = delivery[e]
           /\ UNCHANGED <<inboxes, messages, deletion>>
    BY <1>0, ReceiveEffect, Zenon
  <1>2. To[d] = {}
    BY <1>0, <1>1 DEF LockInv, DeliveryShape, To
  <1>3. To' = [To EXCEPT ![d] = R]
    BY <1>1, Zenon DEF To
  <1>4. Reply' = Reply
    BY <1>1, Zenon DEF Reply
  <1>5. Stored' = Stored /\ Asked' = Asked
    BY <1>1, Zenon DEF Stored, Asked, Wish, Copy
  <1>6. \E S \in SUBSET {i \in Inboxes : inboxes[i] = "active"} : S # {} /\ To' = [To EXCEPT ![d] = S]
    BY <1>1, <1>3, Zenon
  <1>7. UNCHANGED inboxes
    BY <1>1
  <1>8. {Copy(m) : m \in Kept} = Stored /\ {Copy(m) : m \in Kept}' = Stored'
    BY AllKept
  <1>9. "idle" \in UndecidedPoints /\ "put" \in UndecidedPoints
    BY DEF UndecidedPoints, LeasePoints
  <1>10. Undecided' = Undecided
    BY <1>1, <1>9, Zenon DEF Undecided
  <1>. QED
    BY <1>2, <1>4, <1>5, <1>6, <1>7, <1>8, <1>10, Zenon
       DEF MB!Start, To, Reply, Undecided, Asked, Wish

\* The copies of the rows that a delivery writes.
LEMMA RowsStored ==
  ASSUME NEW d \in Deliveries, messages' = messages \union Rows(d)
  PROVE  Stored' = Stored \union {[by |-> d, inbox |-> i] : i \in To[d]}
  <1>. DEFINE copy(i) == [by |-> d, inbox |-> i]
              row(i) == [by |-> d, inbox |-> i, key |-> delivery[d].key]
  <1>1. \A i : Copy(row(i)) = copy(i)
    BY DEF Copy
  <1>2. Rows(d) = {row(i) : i \in To[d]}
    BY Zenon DEF Rows, To
  <1>. HIDE DEF row, copy
  <1>3. \A m : m \in Rows(d) <=> \E i \in To[d] : m = row(i)
    BY <1>2, Zenon
  <1>4. ASSUME NEW m \in Rows(d)
        PROVE  \E i \in To[d] : Copy(m) = copy(i)
    <2>1. PICK i \in To[d] : m = row(i)
      BY <1>3, <1>4, Zenon
    <2>. QED
      BY <1>1, <2>1, Zenon
  <1>5. ASSUME NEW i \in To[d]
        PROVE  \E m \in Rows(d) : Copy(m) = copy(i)
    <2>1. row(i) \in Rows(d)
      BY <1>3, <1>5, Zenon
    <2>. QED
      BY <1>1, <2>1, Zenon
  <1>6. {Copy(m) : m \in Rows(d)} = {copy(i) : i \in To[d]}
    BY <1>4, <1>5, Zenon
  <1>7. Stored' = Stored \union {Copy(m) : m \in Rows(d)}
    BY Zenon DEF Stored, Copy
  <1>. QED
    BY <1>6, <1>7, Zenon DEF copy

\* A step of a delivery is Store when it commits, Refuse when it ends without,
\* Accept or GiveUp when it answers, and unseen while it goes on.
LEMMA DeliveryRefines ==
  ASSUME RefineInv, RefineInv', NEW d \in Deliveries, DeliveryStep(d) \/ DeliveryFault(d)
  PROVE  MB!Store(d) \/ MB!Refuse(d) \/ MB!GiveUp(d) \/ MB!Accept(d) \/ Unseen
  <1>0. TypeInv /\ LockInv
    BY DEF RefineInv
  <1>1. /\ UNCHANGED <<inboxes, deletion>>
        /\ \A e \in Deliveries : /\ delivery'[e].rcpt = delivery[e].rcpt
                                 /\ e # d => delivery'[e] = delivery[e]
        /\ \/ DeliveryMoves(d) \/ DeliveryRefused(d) \/ DeliveryCommits(d)
           \/ DeliveryAnswers(d) \/ DeliveryLate(d)
    BY <1>0, DeliveryEffect, Zenon
  <1>2. To' = To /\ Asked' = Asked /\ UNCHANGED inboxes
    BY <1>1, Zenon DEF To, Asked, Wish, Copy
  <1>3. {Copy(m) : m \in Kept} = Stored /\ {Copy(m) : m \in Kept}' = Stored'
    BY AllKept, Zenon
  <1>4. delivery[d].pc \in LeasePoints => Reply[d] = "none" /\ To[d] # {}
    BY <1>0, Zenon DEF LockInv, DeliveryShape, Reply, To
  <1>5. delivery[d].pc = "limbo" => Reply[d] = "451" /\ To[d] # {}
    BY <1>0, Zenon DEF LockInv, DeliveryShape, Reply, To
  <1>6. Reply' = [Reply EXCEPT ![d] = delivery'[d].reply]
    BY <1>1, Zenon DEF Reply
  <1>7. delivery'[d].reply = delivery[d].reply => Reply' = Reply
    BY <1>1, Zenon DEF Reply
  <1>8. messages' = messages => Stored' = Stored
    BY Zenon DEF Stored
  <1>9. ASSUME (delivery[d].pc \in UndecidedPoints) <=> (delivery'[d].pc \in UndecidedPoints)
        PROVE  Undecided' = Undecided
    BY <1>1, <1>9 DEF Undecided
  <1>10. ASSUME delivery[d].pc \in UndecidedPoints, delivery'[d].pc \notin UndecidedPoints
         PROVE  d \in Undecided /\ Undecided' = Undecided \ {d}
    BY <1>1, <1>10, Zenon DEF Undecided
  <1>11. /\ StoredPoints \subseteq UndecidedPoints
         /\ LeasePoints \ {"committed"} \subseteq UndecidedPoints
         /\ "inserted" \in UndecidedPoints /\ "limbo" \in UndecidedPoints
         /\ "committed" \notin UndecidedPoints /\ "done" \notin UndecidedPoints
         /\ "late" \notin UndecidedPoints
         /\ "inserted" \in LeasePoints /\ "committed" \in LeasePoints
    BY DEF StoredPoints, LeasePoints, UndecidedPoints
  <1>12. delivery[d].pc \in {"inserted", "limbo"} => \A i \in To[d] : inboxes[i] # "deleted"
    BY <1>0 DEF LockInv, LockedIsThere, DeliveryLocks, To
  <1>13. CASE DeliveryMoves(d)
    <2>1. delivery'[d].reply = delivery[d].reply /\ messages' = messages
      BY <1>13, Zenon DEF DeliveryMoves
    <2>2. delivery[d].pc \in UndecidedPoints /\ delivery'[d].pc \in UndecidedPoints
      BY <1>11, <1>13, Zenon DEF DeliveryMoves
    <2>3. Undecided' = Undecided
      BY <1>9, <2>2, Zenon
    <2>. QED
      BY <1>2, <1>7, <1>8, <2>1, <2>3, Zenon DEF Unseen
  <1>14. CASE DeliveryRefused(d)
    <2>1. /\ delivery'[d].reply \in {"550", "552", "451"} /\ messages' = messages
          /\ Reply[d] = "none" /\ To[d] # {}
      BY <1>4, <1>14 DEF DeliveryRefused
    <2>2. d \in Undecided /\ Undecided' = Undecided \ {d}
      BY <1>10, <1>11, <1>14, Zenon DEF DeliveryRefused
    <2>3. \E r \in {"550", "552", "451"} : Reply' = [Reply EXCEPT ![d] = r]
      BY <1>6, <2>1, Zenon
    <2>4. Stored' = Stored
      BY <1>8, <2>1, Zenon
    <2>. QED
      BY <1>2, <1>3, <2>1, <2>2, <2>3, <2>4, Zenon
         DEF MB!Refuse, MB!Decide, To, Reply, Undecided, Asked, Wish
  <1>15. ASSUME delivery[d].pc \in {"inserted", "limbo"},
                delivery'[d].pc \notin UndecidedPoints,
                messages' = messages \union Rows(d),
                \/ delivery'[d].reply = delivery[d].reply
                \/ Reply[d] = "none" /\ delivery'[d].reply = "451"
         PROVE  MB!Store(d)
    <2>1. Reply[d] \in {"none", "451"} /\ To[d] # {}
      BY <1>4, <1>5, <1>11, <1>15
    <2>2. d \in Undecided /\ Undecided' = Undecided \ {d}
      BY <1>10, <1>11, <1>15, Zenon
    <2>3. Stored' = Stored \union {[by |-> d, inbox |-> i] : i \in To[d]}
      BY <1>15, RowsStored, Zenon
    <2>4. \/ Reply[d] \in {"none", "451"} /\ Reply' = Reply
          \/ Reply[d] = "none" /\ Reply' = [Reply EXCEPT ![d] = "451"]
      BY <1>6, <1>7, <1>15, <2>1, Zenon
    <2>5. \A i \in To[d] : inboxes[i] # "deleted"
      BY <1>12, <1>15, Zenon
    <2>. QED
      BY <1>2, <1>3, <2>1, <2>2, <2>3, <2>4, <2>5, Zenon
         DEF MB!Store, MB!Decide, MB!Copies, To, Reply, Undecided, Asked, Wish
  <1>16. CASE DeliveryCommits(d)
    <2>1. Reply[d] = "none"
      BY <1>4, <1>11, <1>16, Zenon DEF DeliveryCommits
    <2>2. /\ delivery[d].pc \in {"inserted", "limbo"}
          /\ delivery'[d].pc \notin UndecidedPoints
          /\ messages' = messages \union Rows(d)
          /\ \/ delivery'[d].reply = delivery[d].reply
             \/ delivery'[d].reply = "451"
      BY <1>11, <1>16, Zenon DEF DeliveryCommits
    <2>. QED
      BY <1>15, <2>1, <2>2, Zenon
  <1>17. CASE DeliveryAnswers(d)
    <2>1. /\ delivery'[d].reply \in {"250", "lost"} /\ messages' = messages
          /\ Reply[d] = "none"
      BY <1>4, <1>11, <1>17, Zenon DEF DeliveryAnswers
    <2>2. d \notin Undecided /\ Undecided' = Undecided
      <3>1. delivery[d].pc \notin UndecidedPoints /\ delivery'[d].pc \notin UndecidedPoints
        BY <1>11, <1>17, Zenon DEF DeliveryAnswers
      <3>. QED
        BY <1>9, <3>1 DEF Undecided
    <2>3. \E r \in {"250", "lost"} : Reply' = [Reply EXCEPT ![d] = r]
      BY <1>6, <2>1, Zenon
    <2>4. Stored' = Stored
      BY <1>8, <2>1, Zenon
    <2>. QED
      BY <1>2, <1>3, <2>1, <2>2, <2>3, <2>4, Zenon
         DEF MB!Accept, To, Reply, Undecided, Asked, Wish
  <1>18. CASE DeliveryLate(d)
    <2>1. CASE delivery[d].pc = "inserted" /\ delivery'[d].pc = "limbo"
               /\ delivery'[d].reply = "451" /\ messages' = messages
      <3>1. d \in Undecided /\ Undecided' = Undecided
        BY <1>9, <1>11, <2>1, Zenon DEF Undecided
      <3>2. Reply[d] = "none" /\ To[d] # {} /\ Reply' = [Reply EXCEPT ![d] = "451"]
        BY <1>4, <1>6, <1>11, <2>1, Zenon
      <3>3. Stored' = Stored
        BY <1>8, <2>1
      <3>. QED
        BY <1>2, <1>3, <3>1, <3>2, <3>3, Zenon
           DEF MB!GiveUp, To, Reply, Undecided, Asked, Wish
    <2>2. CASE delivery[d].pc = "limbo" /\ delivery'[d].reply = delivery[d].reply
               /\ delivery'[d].pc = "late" /\ messages' = messages \union Rows(d)
      BY <1>11, <1>15, <2>2, Zenon
    <2>3. CASE delivery[d].pc = "limbo" /\ delivery'[d].reply = delivery[d].reply
               /\ delivery'[d].pc = "done" /\ messages' = messages
      <3>1. d \in Undecided /\ Undecided' = Undecided \ {d}
        BY <1>10, <1>11, <2>3, Zenon
      <3>2. Reply[d] = "451" /\ To[d] # {} /\ Reply' = Reply
        BY <1>5, <1>7, <2>3, Zenon
      <3>3. Stored' = Stored
        BY <1>8, <2>3
      <3>. QED
        BY <1>2, <1>3, <3>1, <3>2, <3>3, Zenon
           DEF MB!Refuse, MB!Decide, To, Reply, Undecided, Asked, Wish
    <2>. QED
      BY <1>18, <2>1, <2>2, <2>3, Zenon DEF DeliveryLate
  <1>. QED
    BY <1>1, <1>13, <1>14, <1>16, <1>17, <1>18, Zenon

\* A step that leaves the target of every request alone changes no wish.
LEMMA AskedStays ==
  ASSUME \A x \in Requests : /\ deletion'[x].msgs = deletion[x].msgs
                             /\ deletion'[x].inboxes = deletion[x].inboxes
  PROVE  Asked' = Asked
  <1>1. \A x \in Requests : Wish(x)' = Wish(x)
    BY Zenon DEF Wish, Copy
  <1>. QED
    BY <1>1, Zenon DEF Asked

\* A request that ends wishes nothing more.
LEMMA AskedEnds ==
  ASSUME NEW x \in Requests, DeletionEnded(x),
         \A y \in Requests : y # x => deletion'[y] = deletion[y]
  PROVE  Asked' = [Asked EXCEPT ![x] = MB!Nothing]
  <1>1. Wish(x)' = MB!Nothing
    BY DEF Wish, DeletionEnded, MB!Nothing
  <1>2. \A y \in Requests : y # x => Wish(y)' = Wish(y)
    BY Zenon DEF Wish, Copy
  <1>. QED
    BY <1>1, <1>2, Zenon DEF Asked

\* What a deletion removes when it commits: its message, or all that is in its
\* Inboxes.
LEMMA CommitRemoves ==
  ASSUME TypeInv, LockInv, NEW x \in Deleters, DeletionCommits(x)
  PROVE  Stored' = {p \in Stored : /\ p \notin {Copy(m) : m \in deletion[x].msgs}
                                   /\ p.inbox \notin deletion[x].inboxes}
  <1>. DEFINE M == deletion[x].msgs
              I == deletion[x].inboxes
              Wished == {Copy(m) : m \in M}
  <1>1. /\ messages' = messages \ deletion[x].gone
        /\ \A m \in deletion[x].gone : m \in M \/ m.inbox \in I
        /\ \A m \in messages : m \in M \/ m.inbox \in I => m \in deletion[x].gone
    BY Zenon DEF DeletionCommits, LockInv, GoneIsTarget
  <1>2. \A m \in messages : Copy(m) \in Wished => m \in M
    BY CopyUnique, Zenon
  <1>3. \A m : m \in M => Copy(m) \in Wished
    BY Zenon
  <1>4. \A m : Copy(m).inbox = m.inbox
    BY DEF Copy
  <1>. HIDE DEF M, I, Wished
  <1>5. \A m \in messages : m \in messages' <=> (Copy(m) \notin Wished /\ Copy(m).inbox \notin I)
    BY <1>1, <1>2, <1>3, <1>4, Zenon
  <1>6. messages' \subseteq messages
    BY <1>1
  <1>7. Stored' = {Copy(m) : m \in messages'}
    BY Zenon DEF Stored, Copy
  <1>8. Stored' = {p \in Stored : p \notin Wished /\ p.inbox \notin I}
    BY <1>5, <1>6, <1>7, Zenon DEF Stored
  <1>. QED
    BY <1>8, Zenon DEF M, I, Wished

\* Without a target a commit removes nothing.
LEMMA CommitNothing ==
  ASSUME TypeInv, LockInv, NEW x \in Deleters, DeletionCommits(x),
         deletion[x].msgs = {}, deletion[x].inboxes = {}
  PROVE  UNCHANGED <<inboxes, messages>>
  <1>1. deletion[x].gone = {}
    BY DEF DeletionCommits, LockInv, GoneIsTarget
  <1>2. inboxes' = [i \in Inboxes |-> inboxes[i]] /\ messages' = messages
    BY <1>1 DEF DeletionCommits
  <1>. QED
    BY <1>2 DEF TypeInv, TypeOK

\* A request is asked when its transaction begins, granted when it commits and
\* withdrawn when it ends otherwise.
LEMMA RequestRefines ==
  ASSUME RefineInv, RefineInv', NEW x \in Requests,
         BeginDeleteInbox(x) \/ BeginDeleteMessage(x) \/ RequestStep(x) \/ DeletionFails(x)
  PROVE  MB!Ask(x) \/ MB!Grant(x) \/ MB!Withdraw(x) \/ Unseen
  <1>0. /\ TypeInv /\ LockInv /\ x \in Deleters /\ x # Sweeper
        /\ Requests \subseteq Deleters
    BY LifecycleAssumption DEF RefineInv, Deleters
  <1>1. /\ UNCHANGED delivery
        /\ \A y \in Deleters : y # x => deletion'[y] = deletion[y]
        /\ \/ DeletionCommits(x)
           \/ /\ UNCHANGED <<inboxes, messages>>
              /\ \/ DeletionBegins(x) \/ DeletionClaims(x) \/ DeletionRemoves(x)
                 \/ DeletionPrunes(x) \/ DeletionEnded(x)
    BY <1>0, DeletionEffect, Zenon
  <1>2. To' = To /\ Reply' = Reply /\ Undecided' = Undecided
    BY <1>1, Zenon DEF To, Reply, Undecided
  <1>3. {Copy(m) : m \in Kept} = Stored /\ {Copy(m) : m \in Kept}' = Stored'
    BY AllKept, Zenon
  <1>4. messages' = messages => Stored' = Stored
    BY Zenon DEF Stored
  <1>5. \A y \in Requests : y # x => deletion'[y] = deletion[y]
    BY <1>0, <1>1, Zenon
  <1>6. \A y \in Requests : y # x => Wish(y)' = Wish(y)
    BY <1>5, Zenon DEF Wish, Copy
  <1>7. Asked[x] = Wish(x)
    BY DEF Asked
  <1>8. deletion[x].pc = "idle" => Wish(x) = MB!Nothing
    BY <1>0, Zenon DEF LockInv, OneTarget, Wish, MB!Nothing
  <1>9. Wish(x) = MB!Nothing => deletion[x].msgs = {} /\ deletion[x].inboxes = {}
    BY Zenon DEF Wish, MB!Nothing
  <1>10. deletion[x] \in DeletionRecord /\ deletion \in [Deleters -> DeletionRecord]
    BY <1>0 DEF TypeInv, TypeOK
  <1>11. CASE BeginDeleteInbox(x)
    <2>1. PICK i \in Inboxes :
            /\ inboxes[i] = "active"
            /\ deletion' = [deletion EXCEPT ![x] = [@ EXCEPT !.pc = "begun", !.inboxes = {i}]]
      BY <1>11, Zenon DEF BeginDeleteInbox
    <2>2. deletion[x].pc = "idle" /\ UNCHANGED <<inboxes, messages>>
      BY <1>11, Zenon DEF BeginDeleteInbox, db
    <2>3. deletion'[x].msgs = {} /\ deletion'[x].inboxes = {i}
      <3>1. deletion[x].msgs = {}
        BY <1>8, <1>9, <2>2
      <3>. QED
        BY <1>0, <1>10, <2>1, <3>1 DEF DeletionRecord
    <2>4. Wish(x)' = [MB!Nothing EXCEPT !.inboxes = {i}]
      BY <2>3 DEF Wish, MB!Nothing
    <2>5. Asked' = [Asked EXCEPT ![x] = [MB!Nothing EXCEPT !.inboxes = {i}]]
      BY <1>6, <2>4, Zenon DEF Asked
    <2>6. \E j \in Inboxes : inboxes[j] = "active"
                             /\ Asked' = [Asked EXCEPT ![x] = [MB!Nothing EXCEPT !.inboxes = {j}]]
      BY <2>1, <2>5, Zenon
    <2>7. Asked[x] = MB!Nothing /\ Stored' = Stored
      BY <1>4, <1>7, <1>8, <2>2, Zenon
    <2>. QED
      BY <1>2, <1>3, <2>2, <2>6, <2>7, Zenon
         DEF MB!Ask, To, Reply, Undecided, Asked, Wish
  <1>12. CASE BeginDeleteMessage(x)
    <2>1. PICK m \in messages :
            /\ inboxes[m.inbox] = "active"
            /\ deletion' = [deletion EXCEPT ![x] = [@ EXCEPT !.pc = "begun", !.msgs = {m}]]
      BY <1>12, Zenon DEF BeginDeleteMessage
    <2>2. deletion[x].pc = "idle" /\ UNCHANGED <<inboxes, messages>>
      BY <1>12, Zenon DEF BeginDeleteMessage, db
    <2>3. deletion'[x].msgs = {m} /\ deletion'[x].inboxes = {}
      <3>1. deletion[x].inboxes = {}
        BY <1>8, <1>9, <2>2
      <3>. QED
        BY <1>0, <1>10, <2>1, <3>1 DEF DeletionRecord
    <2>4. {Copy(n) : n \in {m}} = {Copy(m)}
      BY Zenon
    <2>5. Wish(x)' = [MB!Nothing EXCEPT !.msgs = {Copy(m)}]
      <3>1. Wish(x)' = [msgs |-> {Copy(n) : n \in deletion'[x].msgs}, inboxes |-> deletion'[x].inboxes]
        BY Zenon DEF Wish, Copy
      <3>2. Wish(x)' = [msgs |-> {Copy(m)}, inboxes |-> {}]
        BY <2>3, <2>4, <3>1, Zenon
      <3>. QED
        BY <3>2 DEF MB!Nothing
    <2>6. Asked' = [Asked EXCEPT ![x] = [MB!Nothing EXCEPT !.msgs = {Copy(m)}]]
      BY <1>6, <2>5, Zenon DEF Asked
    <2>7. Copy(m) \in Stored /\ Copy(m).inbox = m.inbox
      BY DEF Stored, Copy
    <2>8. \E p \in Stored : inboxes[p.inbox] = "active"
                            /\ Asked' = [Asked EXCEPT ![x] = [MB!Nothing EXCEPT !.msgs = {p}]]
      BY <2>1, <2>6, <2>7, Zenon
    <2>9. Asked[x] = MB!Nothing /\ Stored' = Stored
      BY <1>4, <1>7, <1>8, <2>2, Zenon
    <2>. QED
      BY <1>2, <1>3, <2>2, <2>8, <2>9, Zenon
         DEF MB!Ask, To, Reply, Undecided, Asked, Wish
  <1>13. CASE RequestStep(x) \/ DeletionFails(x)
    <2>1. deletion[x].pc # "idle"
      BY <1>13, Zenon DEF RequestStep, LockInbox, LockMessage, DeletionStep, RemoveRows,
                          ScanContent, DropContent, CommitDeletion, DeletionFails, DeletionLocks
    <2>2. ~DeletionBegins(x)
      BY <2>1 DEF DeletionBegins
    <2>3. CASE DeletionCommits(x)
      <3>1. CASE Asked[x] = MB!Nothing
        <4>1. deletion[x].msgs = {} /\ deletion[x].inboxes = {}
          BY <1>7, <1>9, <3>1, Zenon
        <4>2. UNCHANGED <<inboxes, messages>>
          BY <1>0, <2>3, <4>1, CommitNothing, Zenon
        <4>3. deletion'[x].msgs = {} /\ deletion'[x].inboxes = {}
          BY <2>3, Zenon DEF DeletionCommits, DeletionEnded
        <4>4. Asked' = Asked
          BY <1>5, <4>1, <4>3, AskedStays, Zenon
        <4>. QED
          BY <1>2, <1>4, <4>2, <4>4, Zenon DEF Unseen
      <3>2. CASE Asked[x] # MB!Nothing
        <4>1. Asked' = [Asked EXCEPT ![x] = MB!Nothing]
          BY <1>5, <2>3, AskedEnds, Zenon DEF DeletionCommits
        <4>2. Asked[x].msgs = {Copy(m) : m \in deletion[x].msgs}
              /\ Asked[x].inboxes = deletion[x].inboxes
          BY <1>7 DEF Wish
        <4>3. Stored' = {p \in Stored : p \notin Asked[x].msgs /\ p.inbox \notin Asked[x].inboxes}
          BY <1>0, <2>3, <4>2, CommitRemoves, Zenon
        <4>4. inboxes' = [i \in Inboxes |-> IF i \in Asked[x].inboxes THEN "deleted" ELSE inboxes[i]]
          BY <2>3, <4>2, Zenon DEF DeletionCommits
        <4>. QED
          BY <1>2, <1>3, <3>2, <4>1, <4>3, <4>4, Zenon
             DEF MB!Grant, MB!Remove, To, Reply, Undecided, Asked, Wish
      <3>. QED
        BY <3>1, <3>2
    <2>4. CASE DeletionEnded(x) /\ UNCHANGED <<inboxes, messages>>
      <3>1. Asked' = [Asked EXCEPT ![x] = MB!Nothing]
        BY <1>5, <2>4, AskedEnds, Zenon
      <3>2. Stored' = Stored
        BY <1>4, <2>4
      <3>3. CASE Asked[x] = MB!Nothing
        <4>1. Asked' = Asked
          BY <3>1, <3>3, Zenon DEF Asked
        <4>. QED
          BY <1>2, <2>4, <3>2, <4>1, Zenon DEF Unseen
      <3>4. CASE Asked[x] # MB!Nothing
        BY <1>2, <1>3, <2>4, <3>1, <3>2, <3>4, Zenon
           DEF MB!Withdraw, To, Reply, Undecided, Asked, Wish
      <3>. QED
        BY <3>3, <3>4
    <2>5. CASE /\ UNCHANGED <<inboxes, messages>>
               /\ DeletionClaims(x) \/ DeletionRemoves(x) \/ DeletionPrunes(x)
      <3>1. deletion'[x].msgs = deletion[x].msgs /\ deletion'[x].inboxes = deletion[x].inboxes
        BY <1>0, <2>5, Zenon DEF DeletionClaims, DeletionRemoves, DeletionPrunes
      <3>2. Asked' = Asked
        BY <1>5, <3>1, AskedStays, Zenon
      <3>. QED
        BY <1>2, <1>4, <2>5, <3>2, Zenon DEF Unseen
    <2>. QED
      BY <1>1, <2>2, <2>3, <2>4, <2>5, Zenon
  <1>. QED
    BY <1>11, <1>12, <1>13, Zenon

\* The transaction of the sweeper is RemoveEnded when it commits.
LEMMA SweeperRefines ==
  ASSUME RefineInv, RefineInv', DeletionStep(Sweeper) \/ DeletionFails(Sweeper)
  PROVE  MB!RemoveEnded \/ Unseen
  <1>0. TypeInv /\ LockInv /\ SweepsEnded /\ Sweeper \notin Requests /\ Requests \subseteq Deleters
    BY LifecycleAssumption DEF RefineInv, Deleters
  <1>1. /\ Sweeper \in Deleters
        /\ UNCHANGED delivery
        /\ \A y \in Deleters : y # Sweeper => deletion'[y] = deletion[y]
        /\ DeletionCommits(Sweeper) \/ UNCHANGED <<inboxes, messages>>
    BY <1>0, SweeperEffect, Zenon
  <1>2. To' = To /\ Reply' = Reply /\ Undecided' = Undecided
    BY <1>1, Zenon DEF To, Reply, Undecided
  <1>3. {Copy(m) : m \in Kept} = Stored /\ {Copy(m) : m \in Kept}' = Stored'
    BY AllKept, Zenon
  <1>4. \A x \in Requests : deletion'[x] = deletion[x]
    BY <1>0, <1>1, Zenon
  <1>5. Asked' = Asked
    BY <1>4, AskedStays, Zenon
  <1>6. CASE UNCHANGED <<inboxes, messages>>
    <2>1. Stored' = Stored
      BY <1>6 DEF Stored
    <2>. QED
      BY <1>2, <1>5, <1>6, <2>1 DEF Unseen
  <1>7. CASE DeletionCommits(Sweeper)
    <2>. DEFINE I == deletion[Sweeper].inboxes
    <2>1. {Copy(m) : m \in deletion[Sweeper].msgs} = {}
      BY <1>0 DEF SweepsEnded
    <2>2. Stored' = {p \in Stored : p \notin {} /\ p.inbox \notin I}
      BY <1>0, <1>1, <1>7, <2>1, CommitRemoves, Zenon
    <2>3. inboxes' = [i \in Inboxes |-> IF i \in I THEN "deleted" ELSE inboxes[i]]
      BY <1>7, Zenon DEF DeletionCommits
    <2>4. I \in SUBSET {i \in Inboxes : inboxes[i] # "active"}
      BY <1>0, <1>1, Zenon DEF SweepsEnded, TypeInv, TypeOK, DeletionRecord
    <2>. HIDE DEF I
    <2>5. \E J \in SUBSET {i \in Inboxes : inboxes[i] # "active"} :
            /\ inboxes' = [i \in Inboxes |-> IF i \in J THEN "deleted" ELSE inboxes[i]]
            /\ Stored' = {p \in Stored : p \notin {} /\ p.inbox \notin J}
      BY <2>2, <2>3, <2>4, Zenon
    <2>. QED
      BY <1>2, <1>3, <1>5, <2>5, Zenon
         DEF MB!RemoveEnded, MB!Remove, To, Reply, Undecided, Asked, Wish
  <1>. QED
    BY <1>1, <1>6, <1>7

\* The sweep is unseen, expiry is Expire, and a crash loses the connections of
\* the deliveries that hold the lease.
LEMMA OtherRefines ==
  ASSUME RefineInv, RefineInv',
         \/ BeginCleanup \/ ListDeletions \/ NextDeletion \/ RecheckReference
         \/ RemoveObject \/ Acknowledge \/ SweepStepFails \/ SweepReturns
         \/ Crash \/ \E i \in Inboxes : Expire(i)
  PROVE  MB!Crash \/ (\E i \in Inboxes : MB!Expire(i)) \/ Unseen
  <1>0. TypeInv /\ LockInv /\ Sweeper \notin Requests /\ Requests \subseteq Deleters
    BY LifecycleAssumption DEF RefineInv, Deleters
  <1>1. {Copy(m) : m \in Kept} = Stored /\ {Copy(m) : m \in Kept}' = Stored'
    BY AllKept, Zenon
  <1>2. messages' = messages => Stored' = Stored
    BY DEF Stored
  <1>3. CASE \/ BeginCleanup \/ ListDeletions \/ NextDeletion \/ RecheckReference
             \/ RemoveObject \/ Acknowledge \/ SweepStepFails \/ SweepReturns
    <2>1. UNCHANGED <<inboxes, messages, delivery>>
      BY <1>3, Zenon DEF BeginCleanup, ListDeletions, NextDeletion, RecheckReference, RemoveObject,
           Acknowledge, SweepStepFails, SweepReturns, db
    <2>2. To' = To /\ Reply' = Reply /\ Undecided' = Undecided
      BY <2>1, Zenon DEF To, Reply, Undecided
    <2>3. BeginCleanup \/ UNCHANGED deletion
      BY <1>3, Zenon DEF ListDeletions, NextDeletion, RecheckReference, RemoveObject,
           Acknowledge, SweepStepFails, SweepReturns, db
    <2>4. \A x \in Requests : deletion'[x] = deletion[x]
      BY <1>0, <2>3, CleanupEffect, Zenon
    <2>5. Asked' = Asked
      BY <2>4, AskedStays, Zenon
    <2>. QED
      BY <1>2, <2>1, <2>2, <2>5, Zenon DEF Unseen
  <1>4. CASE \E i \in Inboxes : Expire(i)
    <2>1. PICK i \in Inboxes : Expire(i)
      BY <1>4
    <2>2. /\ inboxes[i] = "active" /\ inboxes' = [inboxes EXCEPT ![i] = "expired"]
          /\ UNCHANGED <<messages, delivery, deletion>>
      BY <2>1, Zenon DEF Expire
    <2>3. To' = To /\ Reply' = Reply /\ Undecided' = Undecided /\ Asked' = Asked
      BY <2>2, AskedStays, Zenon DEF To, Reply, Undecided
    <2>4. Stored' = Stored
      BY <1>2, <2>2
    <2>. QED
      BY <1>1, <2>2, <2>3, <2>4, Zenon DEF MB!Expire, To, Reply, Undecided, Asked, Wish
  <1>5. CASE Crash
    <2>. DEFINE talking == {d \in Deliveries : To[d] # {} /\ Reply[d] = "none"}
    <2>1. /\ \A d \in Deliveries :
               /\ delivery'[d].rcpt = delivery[d].rcpt
               /\ IF d \in Leased THEN delivery'[d].pc = "done" /\ delivery'[d].reply = "lost"
                                  ELSE delivery'[d] = delivery[d]
          /\ \A x \in Deleters :
               \/ deletion'[x] = deletion[x] /\ deletion[x].pc \in {"idle", "done"}
               \/ DeletionEnded(x)
          /\ UNCHANGED <<inboxes, messages>>
      BY <1>0, <1>5, CrashEffect, Zenon
    <2>2. To' = To
      BY <2>1, Zenon DEF To
    <2>3. Leased = talking
      <3>1. \A d \in Deliveries : delivery[d].pc \in LeasePoints \union {"idle", "limbo", "late", "done"}
        BY <1>0 DEF TypeInv, TypeOK, DeliveryRecord, DeliveryPoints
      <3>2. \A d \in Deliveries : To[d] = delivery[d].rcpt /\ Reply[d] = delivery[d].reply
        BY DEF To, Reply
      <3>3. ASSUME NEW d \in Deliveries
            PROVE  delivery[d].pc \in LeasePoints <=> To[d] # {} /\ Reply[d] = "none"
        BY <1>0, <3>1, <3>2 DEF LockInv, DeliveryShape
      <3>. QED
        BY <3>3 DEF Leased
    <2>4. Reply' = [d \in Deliveries |-> IF d \in talking THEN "lost" ELSE Reply[d]]
      <3>1. Reply' = [d \in Deliveries |-> IF d \in Leased THEN "lost" ELSE Reply[d]]
        BY <2>1, Zenon DEF Reply
      <3>. QED
        BY <2>3, <3>1, Zenon
    <2>5. Undecided' = Undecided \ talking
      <3>1. "done" \notin UndecidedPoints
        BY DEF UndecidedPoints, LeasePoints
      <3>2. Undecided' = Undecided \ Leased
        BY <2>1, <3>1, Zenon DEF Undecided
      <3>. QED
        BY <2>3, <3>2, Zenon
    <2>6. Asked' = [x \in Requests |-> MB!Nothing]
      <3>1. \A x \in Requests : deletion'[x].msgs = {} /\ deletion'[x].inboxes = {}
        BY <1>0, <2>1, Zenon DEF DeletionEnded, LockInv, OneTarget
      <3>2. \A x \in Requests : Wish(x)' = MB!Nothing
        BY <3>1, Zenon DEF Wish, MB!Nothing
      <3>. QED
        BY <3>2, Zenon DEF Asked
    <2>7. Stored' = Stored /\ UNCHANGED inboxes
      BY <1>2, <2>1
    <2>. QED
      BY <1>1, <2>2, <2>4, <2>5, <2>6, <2>7, Zenon
         DEF MB!Crash, To, Reply, Undecided, Asked, Wish
  <1>. QED
    BY <1>3, <1>4, <1>5

\* Every step is a step of Mailbox or unseen by it.
LEMMA RefineStep == RefineInv /\ RefineInv' /\ [Next]_vars => [MB!Next]_MB!vars
  <1>. SUFFICES ASSUME RefineInv, RefineInv', [Next]_vars PROVE [MB!Next]_MB!vars
    OBVIOUS
  <1>1. ASSUME Unseen
        PROVE  UNCHANGED MB!vars
    <2>1. {Copy(m) : m \in Kept} = Stored /\ {Copy(m) : m \in Kept}' = Stored'
      BY AllKept, Zenon
    <2>. QED
      BY <1>1, <2>1, Zenon DEF MB!vars, Unseen, To, Reply, Undecided, Asked, Wish
  <1>2. CASE UNCHANGED vars
    <2>1. UNCHANGED <<inboxes, messages, delivery, deletion>>
      BY <1>2 DEF vars
    <2>2. Asked' = Asked
      BY <2>1, AskedStays, Zenon
    <2>3. Unseen
      BY <2>1, <2>2, Zenon DEF Unseen, To, Reply, Undecided, Stored
    <2>. QED
      BY <1>1, <2>3
  <1>3. ASSUME NEW d \in Deliveries, Receive(d) \/ DeliveryStep(d) \/ DeliveryFault(d)
        PROVE  MB!Next \/ Unseen
    BY <1>3, ReceiveRefines, DeliveryRefines, Zenon DEF MB!Next
  <1>4. ASSUME NEW x \in Requests,
               BeginDeleteInbox(x) \/ BeginDeleteMessage(x) \/ RequestStep(x) \/ DeletionFails(x)
        PROVE  MB!Next \/ Unseen
    BY <1>4, RequestRefines, Zenon DEF MB!Next
  <1>5. ASSUME DeletionStep(Sweeper) \/ DeletionFails(Sweeper)
        PROVE  MB!Next \/ Unseen
    BY <1>5, SweeperRefines, Zenon DEF MB!Next
  <1>6. ASSUME \/ BeginCleanup \/ ListDeletions \/ NextDeletion \/ RecheckReference
               \/ RemoveObject \/ Acknowledge \/ SweepStepFails \/ SweepReturns
               \/ Crash \/ \E i \in Inboxes : Expire(i)
        PROVE  MB!Next \/ Unseen
    BY <1>6, OtherRefines, Zenon DEF MB!Next
  <1>7. CASE Next
    BY <1>1, <1>3, <1>4, <1>5, <1>6, <1>7 DEF Next, SweepStep, Deleters
  <1>. QED
    BY <1>2, <1>7

\* The two-phase delivery, the statement-wise deletions and the sweeper implement
\* the atomic mailbox, for any number of Inboxes, deliveries and requests, any faults
\* and crashes, and COMMITs that take effect after their delivery gave up.
THEOREM MailboxImplemented == Spec => ImplementsMailbox
  <1>1. Init => RefineInv
    <2>1. Init => SweepsEnded
      BY DEF Init, SweepsEnded, NoDeletion, Deleters
    <2>. QED
      BY <2>1, TypeInvInit, RowsInit, StoreInit, LockInit DEF RefineInv
  <1>2. RefineInv /\ [Next]_vars => RefineInv'
    BY TypeStep, RowsStep, StoreStep, LockStep, SweepsEndedStep DEF RefineInv
  <1>. QED
    BY <1>1, <1>2, RefineInit, RefineStep, PTL DEF Spec, ImplementsMailbox, MB!Spec
=============================================================================
