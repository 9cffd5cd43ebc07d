----------------------------- MODULE MessageApi -----------------------------
(***************************************************************************)
(* Reading, marking, deleting and paging the messages of one Inbox through *)
(* the four HTTP APIs, while mail arrives, messages go and the Inbox ends. *)
(*                                                                         *)
(* A handler is the sequence of calls that Plan gives for it; one step is  *)
(* one SQL statement, one file opened or one stream written.  Pages of the *)
(* canonical API are followed by a client that walks the cursors; the      *)
(* offset pages of the adapters are answered one at a time.  Each message  *)
(* has a content of its own (sharing is MailLifecycle's subject), and      *)
(* bodies, presentation and the totals beside a page are left out.         *)
(***************************************************************************)
EXTENDS Integers, Sequences, FiniteSets, Functions

CONSTANTS
  Messages,    \* message identifiers, numbers ordered as the UUIDs are
  Attached,    \* the messages that have an attachment
  Times,       \* values of received_at; messages may share one
  Requests,
  Limit,       \* page size of the canonical walk
  PageLimit,   \* page size of the adapters' pages
  HeavySlots,  \* capacity of heavyReads
  CfSlots,     \* capacity of cloudflareTempHeavy
  MaxStarts,   \* bound on the number of requests
  MaxFaults    \* bound on failing calls

ASSUME ApiAssumption ==
  /\ Messages \subseteq Nat \ {0} /\ IsFiniteSet(Messages) /\ IsFiniteSet(Requests)
  /\ Times \subseteq Nat /\ Limit \in Nat \ {0}
  /\ PageLimit \in Nat \ {0} /\ HeavySlots \in Nat /\ CfSlots \in Nat
  /\ MaxStarts \in Nat /\ MaxFaults \in Nat

VARIABLES
  open,     \* the Inbox is active and unexpired
  rows,     \* messages: id -> received_at, for those that exist
  gone,     \* messages that were deleted
  seen,     \* messages with seen_at
  listed,   \* messages whose parse is stored and lists an attachment
  files,    \* messages whose raw object is on disk
  numbers,  \* cloudflare_temp_message_ids: id -> number
  sequence, \* the identity column's sequence
  slots,    \* slots in use of the two semaphores
  req, walk, starts, faults,
  told      \* history: pairs of number and message for the answers of lists

data == <<open, rows, gone, seen, listed, files>>
numbering == <<numbers, sequence, told>>
vars == <<data, numbering, slots, req, walk, starts, faults>>

Live == IF open THEN DOMAIN rows ELSE {}

NoRequest ==
  [op |-> "none", pool |-> "none", todo |-> <<>>, page |-> <<>>, msg |-> 0, number |-> 0,
   part |-> "none", queue |-> <<>>, ids |-> <<>>, own |-> {}, asked |-> {}, wrong |-> FALSE]
NoWalk == [pc |-> "idle", before |-> <<>>, got |-> <<>>, kept |-> {}]

\* The union of two functions; where both are defined the first one counts.
Over(f, g) == [x \in DOMAIN f \union DOMAIN g |-> IF x \in DOMAIN f THEN f[x] ELSE g[x]]

\* The calls of each handler; a list handler's are followed by Item for each row.
CanonicalPlan ==
  [get |-> <<"message">>, seen |-> <<"mark">>, delete |-> <<"remove">>,
   source |-> <<"content", "open", "stream">>,
   attachment |-> <<"message", "content", "open", "stream">>]
DuckMailPlan ==
  [page |-> <<"inbox", "list">>, adapter_get |-> <<"message", "inbox">>,
   seen |-> <<"mark">>, delete |-> <<"remove">>, source |-> <<"content", "open", "stream">>]
YydsPlan ==
  [page |-> <<"inbox", "list">>, adapter_get |-> <<"message", "inbox">>,
   seen |-> <<"mark">>, delete |-> <<"remove">>, source |-> <<"content", "open", "stream">>,
   attachment |-> <<"message", "content", "open", "stream">>]
CloudflareRawPlan ==
  [raw_list |-> <<"inbox", "list", "number">>,
   raw |-> <<"find", "inbox", "message", "content", "open">>]
CloudflareParsedPlan ==
  [parsed_list |-> <<"inbox", "list", "number">>, parsed |-> <<"find", "inbox", "message">>]
CloudflareDeletePlan == [delete_number |-> <<"find", "remove">>]

AdapterPlan == Over(DuckMailPlan, YydsPlan)
CloudflarePlan == Over(CloudflareRawPlan, Over(CloudflareParsedPlan, CloudflareDeletePlan))
Plan == Over(CanonicalPlan, Over(AdapterPlan, CloudflarePlan))
Item(op) == IF op = "raw_list" THEN <<"message", "content", "open">> ELSE <<"message">>

Pools(op) ==
  CASE op \in {"source", "attachment"} -> {"heavy", "none"}  \* adapters take no slot
    [] op \in {"raw_list", "parsed_list", "raw", "parsed"} -> {"cf"}
    [] OTHER -> {"none"}
Capacity == [p \in {"heavy", "cf"} |-> IF p = "heavy" THEN HeavySlots ELSE CfSlots]

\* What is in the tables: a message is there or gone, and one that is there has its file.
RowTypes == DOMAIN rows \subseteq Messages /\ \A m \in DOMAIN rows : rows[m] \in Nat
DataTypes ==
  /\ open \in BOOLEAN /\ RowTypes
  /\ gone \subseteq Messages /\ DOMAIN rows \intersect gone = {}
  /\ DOMAIN rows \subseteq files

\* Types, and the capacity of both semaphores.
TypeOK ==
  /\ DataTypes /\ files \subseteq Messages
  /\ DOMAIN numbers \subseteq DOMAIN rows /\ seen \subseteq DOMAIN rows /\ listed \subseteq DOMAIN rows
  /\ \A p \in DOMAIN slots : slots[p] \in 0 .. Capacity[p]

Init ==
  /\ open = TRUE /\ rows = <<>> /\ gone = {} /\ seen = {} /\ listed = {} /\ files = {}
  /\ numbers = <<>> /\ sequence = 0 /\ told = {}
  /\ slots = [p \in {"heavy", "cf"} |-> 0]
  /\ req = [r \in Requests |-> NoRequest] /\ walk = NoWalk /\ starts = 0 /\ faults = 0

-----------------------------------------------------------------------------
\* Deliveries commit in any order of received_at and identifier.
Arrive(m) ==
  /\ open /\ m \notin DOMAIN rows \union gone
  /\ \E t \in Times : rows' = [x \in DOMAIN rows \union {m} |-> IF x = m THEN t ELSE rows[x]]
  /\ files' = files \union {m}
  /\ UNCHANGED <<open, gone, seen, listed, numbering, slots, req, walk, starts, faults>>

\* The parse worker stores what it found; until then a message lists no attachments.
Parsed(m) ==
  /\ m \in (DOMAIN rows \intersect Attached) \ listed
  /\ listed' = listed \union {m}
  /\ UNCHANGED <<open, rows, gone, seen, files, numbering, slots, req, walk, starts, faults>>

\* A row whose number another transaction has inserted and not committed.
Numbering(m) == \E r \in Requests : m \in req[r].own

Drop(ms) ==
  /\ rows' = [x \in DOMAIN rows \ ms |-> rows[x]]
  /\ gone' = gone \union ms
  /\ seen' = seen \ ms /\ listed' = listed \ ms
  /\ numbers' = [x \in DOMAIN numbers \ ms |-> numbers[x]]
  /\ walk' = [walk EXCEPT !.kept = @ \ ms]

\* The Inbox is deleted, or its time is over and its rows wait for the sweeper.
EndInbox ==
  /\ open /\ open' = FALSE
  /\ \/ /\ \A m \in DOMAIN rows : ~Numbering(m)
        /\ Drop(DOMAIN rows)
     \/ UNCHANGED <<rows, gone, seen, listed, numbers>> /\ walk' = [walk EXCEPT !.kept = {}]
  /\ UNCHANGED <<files, sequence, told, slots, req, starts, faults>>

\* The sweeper removes the file of a deleted message.
SweepFile ==
  /\ \E m \in files \intersect gone : files' = files \ {m}
  /\ UNCHANGED <<open, rows, gone, seen, listed, numbering, slots, req, walk, starts, faults>>

-----------------------------------------------------------------------------
HasSlot(pool) == pool = "none" \/ slots[pool] < Capacity[pool]
Take(pool) ==
  slots' = IF pool = "none" THEN slots ELSE [slots EXCEPT ![pool] = @ + 1]

Become(r, s) == req' = [req EXCEPT ![r] = s]

\* A request for a message the client has heard of, a number it was given, or a page.
\* Without a free slot it is answered 503 at once.
Begin(r, s) ==
  /\ req[r].todo = <<>> /\ starts < MaxStarts /\ starts' = starts + 1
  /\ \E pool \in Pools(s.op) :
       IF HasSlot(pool)
         THEN Become(r, [s EXCEPT !.pool = pool, !.todo = Plan[s.op]]) /\ Take(pool)
         ELSE Become(r, NoRequest) /\ UNCHANGED slots
  /\ UNCHANGED <<data, numbering, walk, faults>>

\* The part path of an attachment: one that the message has, which the client may have
\* seen listed, or one that it has not.
PartsOf(m) ==
  {"absent"} \union (IF m \in listed THEN {"shown"} ELSE IF m \in Attached THEN {"unshown"} ELSE {})

Start(r) ==
  \/ \E op \in {"get", "adapter_get", "seen", "delete", "source"}, m \in DOMAIN rows \union gone :
       Begin(r, [NoRequest EXCEPT !.op = op, !.msg = m, !.asked = {m}])
  \/ \E m \in DOMAIN rows \union gone : \E part \in PartsOf(m) :
       Begin(r, [NoRequest EXCEPT !.op = "attachment", !.msg = m, !.asked = {m}, !.part = part])
  \/ \E op \in {"page", "raw_list", "parsed_list"} : Begin(r, [NoRequest EXCEPT !.op = op])
  \/ \E op \in {"raw", "parsed", "delete_number"}, p \in told :
       Begin(r, [NoRequest EXCEPT !.op = op, !.number = p[1], !.asked = {p[2]}])

\* Mutant: the slot of a failed read is not given back.
ReleaseAnswered(r, code) ==
  slots' = IF req[r].pool = "none" \/ code = "error" THEN slots
           ELSE [slots EXCEPT ![req[r].pool] = @ - 1]

\* The deferred release, whatever the answer.
Release(r, code) ==
  slots' = IF req[r].pool = "none" THEN slots ELSE [slots EXCEPT ![req[r].pool] = @ - 1]

\* The answers that deny a message, or a part of one that the client was shown.
Denies(r, code) == code \in {"missing", "error"} \/ (code = "no_part" /\ req[r].part = "shown")

\* The answer; a transaction that is still open rolls back.  History: wrong, the answer
\* denies messages that are all there.
Reply(r, code) ==
  /\ Become(r, [NoRequest EXCEPT !.wrong =
       Denies(r, code) /\ open /\ req[r].asked \intersect gone = {}])
  /\ Release(r, code)

\* The next call of the handler, the next row of a list, or the answer.
Continue(r, s) ==
  IF Len(s.todo) > 1 THEN Become(r, [s EXCEPT !.todo = Tail(@)]) /\ UNCHANGED slots
  ELSE IF s.page # <<>>
    THEN /\ Become(r, [s EXCEPT !.todo = Item(s.op), !.msg = Head(s.page), !.page = Tail(@)])
         /\ UNCHANGED slots
    ELSE Reply(r, "ok")
Advance(r) == Continue(r, req[r])
At(r, call) == req[r].todo # <<>> /\ Head(req[r].todo) = call

\* A message that is not there: 404, or null in the Cloudflare API.
Missing(r) == Reply(r, "missing")

-----------------------------------------------------------------------------
GetInbox(r) ==
  /\ At(r, "inbox")
  /\ IF open THEN Advance(r) ELSE Missing(r)
  /\ UNCHANGED <<data, numbering, walk, starts, faults>>

\* OpenAttachment looks the part up in what GetMessage returned.
PartFound(r) ==
  req[r].op = "attachment" /\ At(r, "message") =>
    req[r].msg \in listed /\ req[r].part # "absent"

\* GetMessage and GetMessageContent.  A part that is not among the attachments is answered
\* like a message that is not there.
GetMessage(r) ==
  /\ At(r, "message") \/ At(r, "content")
  /\ IF req[r].msg \notin Live THEN Missing(r)
     ELSE IF PartFound(r) THEN Advance(r) ELSE Reply(r, "no_part")
  /\ UNCHANGED <<data, numbering, walk, starts, faults>>

\* OpenRaw: the file may be gone although its row was just read.
OpenRaw(r) ==
  /\ At(r, "open")
  /\ IF req[r].msg \in files THEN Advance(r) ELSE Reply(r, "error")
  /\ UNCHANGED <<data, numbering, walk, starts, faults>>

Stream(r) ==
  /\ At(r, "stream") /\ Advance(r)
  /\ UNCHANGED <<data, numbering, walk, starts, faults>>

\* What a Cloudflare answer may hold is exceeded.
TooLarge(r) ==
  /\ req[r].pool = "cf" /\ (At(r, "message") \/ At(r, "open"))
  /\ Reply(r, "too_large")
  /\ UNCHANGED <<data, numbering, walk, starts, faults>>

MarkMessageSeen(r) ==
  /\ At(r, "mark")
  /\ IF req[r].msg \in Live THEN seen' = seen \union {req[r].msg} /\ Advance(r)
     ELSE Missing(r) /\ UNCHANGED seen
  /\ UNCHANGED <<open, rows, gone, listed, files, numbering, walk, starts, faults>>

\* DeleteMessage waits for a transaction that refers to the row.
DeleteMessage(r) ==
  /\ At(r, "remove") /\ ~Numbering(req[r].msg)
  /\ IF req[r].msg \in Live THEN Drop({req[r].msg}) /\ Advance(r)
     ELSE Missing(r) /\ UNCHANGED <<rows, gone, seen, listed, numbers, walk>>
  /\ UNCHANGED <<open, files, sequence, told, starts, faults>>

-----------------------------------------------------------------------------
\* ORDER BY received_at DESC, id DESC.
Newer(m, n) == rows[m] > rows[n] \/ (rows[m] = rows[n] /\ m > n)
Sorted(q) == \A i, j \in DOMAIN q : i < j => Newer(q[i], q[j])
Newest(ms) == CHOOSE q \in [1 .. Cardinality(ms) -> ms] : Sorted(q)
First(n, s) == SubSeq(s, 1, IF Len(s) < n THEN Len(s) ELSE n)

\* Mutant: the page continues below the cursor's time.
BelowTime(before) == {m \in Live : before # <<>> => rows[m] < before[1]}

\* (received_at, id) < (cursor's received_at, cursor's id).
Below(before) ==
  {m \in Live : before # <<>> =>
     rows[m] < before[1] \/ (rows[m] = before[1] /\ m < before[2])}

\* One page: one row more than the limit tells whether there is a next one.
ListMessages(w, before) ==
  LET found == First(Limit + 1, Newest(Below(before)))
      items == First(Limit, found)
      last == items[Len(items)]
      more == Len(found) > Limit
  IN walk' = [w EXCEPT !.got = @ \o items,
                       !.pc = IF more THEN "walking" ELSE "end",
                       !.before = IF more THEN <<rows[last], last>> ELSE <<>>]

\* A session outlives its Inbox: its pages are then empty, and the walk ends.
StartWalk ==
  /\ walk.pc = "idle" /\ starts < MaxStarts /\ starts' = starts + 1
  /\ ListMessages([NoWalk EXCEPT !.kept = Live], <<>>)
  /\ UNCHANGED <<data, numbering, slots, req, faults>>

NextPage ==
  /\ walk.pc = "walking"
  /\ ListMessages(walk, walk.before)
  /\ UNCHANGED <<data, numbering, slots, req, starts, faults>>

\* Mutant: the parsed list is numbered in the opposite order.
OrderByHandler(op, items) ==
  IF op = "parsed_list" THEN [i \in DOMAIN items |-> items[Len(items) + 1 - i]] ELSE items

\* EnsureMessageIDs goes through the page as it was listed.
Order(op, items) == items

\* An adapter's page; an offset beyond the last message shows as much as that of the end.
ListMessagePage(r) ==
  /\ At(r, "list")
  /\ LET sorted == Newest(Live)
     IN \E offset \in 0 .. Len(sorted) :
          LET items == First(PageLimit, SubSeq(sorted, offset + 1, Len(sorted)))
              s == [req[r] EXCEPT !.page = items, !.queue = Order(req[r].op, items),
                                  !.asked = Range(items)]
          IN IF req[r].op = "page" \/ items = <<>> THEN Reply(r, "ok")
             ELSE Become(r, [s EXCEPT !.todo = Tail(@)]) /\ UNCHANGED slots
  /\ UNCHANGED <<data, numbering, walk, starts, faults>>

-----------------------------------------------------------------------------
\* EnsureMessageIDs, one transaction.  First SELECT: msg notes that there is no row.
LookUp(r) ==
  /\ At(r, "number") /\ req[r].queue # <<>> /\ req[r].msg = 0
  /\ LET m == Head(req[r].queue)
     IN IF m \in DOMAIN numbers
          THEN Become(r, [req[r] EXCEPT !.queue = Tail(@), !.ids = Over(@, [x \in {m} |-> numbers[m]])])
          ELSE Become(r, [req[r] EXCEPT !.msg = m])
  /\ UNCHANGED <<data, numbering, slots, walk, starts, faults>>

\* Mutant: the identity is the number of rows plus one.
NextNumberFree == 1 + Cardinality(DOMAIN numbers)

\* The sequence behind the identity column; what it gave is not given again.
NextNumber == sequence + 1

Numbered(r, m, n) == [req[r] EXCEPT !.queue = Tail(@), !.msg = 0, !.ids = Over(@, [x \in {m} |-> n])]
Inserted(r, m) ==
  /\ Become(r, [Numbered(r, m, NextNumber) EXCEPT !.own = @ \union {m}])
  /\ sequence' = NextNumber /\ UNCHANGED slots
NotNumbered(r) == Reply(r, "error") /\ UNCHANGED sequence

\* Mutant: the row another request inserted in between is not read again.
InsertOnly(r, m) ==
  IF m \in DOMAIN rows \ DOMAIN numbers THEN Inserted(r, m) ELSE NotNumbered(r)

\* INSERT ... ON CONFLICT DO NOTHING, and SELECT if it inserted nothing.
InsertOrSelect(r, m) ==
  IF m \in DOMAIN rows \ DOMAIN numbers THEN Inserted(r, m)
  ELSE IF m \in DOMAIN numbers
    THEN Become(r, Numbered(r, m, numbers[m])) /\ UNCHANGED <<slots, sequence>>
    ELSE NotNumbered(r)

\* The INSERT waits for another transaction that has inserted the same row.
InsertNumber(r) ==
  /\ At(r, "number") /\ req[r].msg # 0 /\ ~Numbering(req[r].msg)
  /\ InsertOrSelect(r, req[r].msg)
  /\ UNCHANGED <<data, numbers, told, walk, starts, faults>>

CommitNumbers(r) ==
  /\ At(r, "number") /\ req[r].queue = <<>>
  /\ numbers' = Over([m \in req[r].own |-> req[r].ids[m]], numbers)
  /\ told' = told \union {<<req[r].ids[m], m>> : m \in DOMAIN req[r].ids}
  /\ Continue(r, [req[r] EXCEPT !.own = {}, !.ids = <<>>])
  /\ UNCHANGED <<data, sequence, walk, starts, faults>>

\* The COMMIT is applied and its answer lost: the numbers stay, nobody is told of them.
CommitUnconfirmed(r) ==
  /\ At(r, "number") /\ req[r].queue = <<>>
  /\ faults < MaxFaults /\ faults' = faults + 1
  /\ numbers' = Over([m \in req[r].own |-> req[r].ids[m]], numbers)
  /\ Reply(r, "fault")
  /\ UNCHANGED <<data, sequence, told, walk, starts>>

\* FindMessageID.  A deletion of what is not there succeeds.
FindNumber(r) ==
  /\ At(r, "find")
  /\ \/ \E m \in DOMAIN numbers :
          numbers[m] = req[r].number /\ Continue(r, [req[r] EXCEPT !.msg = m])
     \/ (\A m \in DOMAIN numbers : numbers[m] # req[r].number) /\ Missing(r)
  /\ UNCHANGED <<data, numbering, walk, starts, faults>>

\* A call fails or the client goes away: the request ends there.  The parser that does
\* not find the part again in the raw message is a failing call before the stream.
CallFails(r) ==
  /\ req[r].todo # <<>> /\ faults < MaxFaults /\ faults' = faults + 1
  /\ Reply(r, "fault")
  /\ UNCHANGED <<data, numbering, walk, starts>>

Step(r) ==
  \/ GetInbox(r) \/ GetMessage(r) \/ OpenRaw(r) \/ TooLarge(r) \/ Stream(r) \/ MarkMessageSeen(r)
  \/ DeleteMessage(r) \/ ListMessagePage(r) \/ LookUp(r) \/ InsertNumber(r)
  \/ CommitNumbers(r) \/ FindNumber(r)

Next ==
  \/ \E m \in Messages : Arrive(m) \/ Parsed(m)
  \/ EndInbox \/ SweepFile \/ StartWalk \/ NextPage
  \/ \E r \in Requests : Start(r) \/ Step(r) \/ CallFails(r) \/ CommitUnconfirmed(r)

Spec == Init /\ [][Next]_vars

\* r cannot take its next step before the transaction of s ends.
WaitsFor(r, s) ==
  /\ r # s /\ req[r].msg \in req[s].own
  /\ At(r, "remove") \/ At(r, "number")

-----------------------------------------------------------------------------
\* The slots in use are those of the requests at work, and no more than there are:
\* none is lost or handed out twice on any path.
SlotsHeld ==
  \A p \in DOMAIN slots :
    /\ slots[p] = Cardinality({r \in Requests : req[r].pool = p /\ req[r].todo # <<>>})
    /\ slots[p] <= Capacity[p]

\* Following the cursors shows no message twice, although mail arrives and goes in
\* any order and messages share an instant; at the end every message that was there
\* all the time was shown.
WalkComplete ==
  /\ \A i, j \in DOMAIN walk.got : i # j => walk.got[i] # walk.got[j]
  /\ walk.pc = "end" => walk.kept \subseteq Range(walk.got)

\* A number means one message for ever and a message has one number, although two
\* requests may assign it at once, transactions roll back and messages are deleted.
NumbersStable ==
  /\ \A p, q \in told : (p[1] = q[1]) <=> (p[2] = q[2])
  /\ \A p \in told : p[2] \in DOMAIN numbers => numbers[p[2]] = p[1]

\* A request is told that a message or an attachment it was shown is missing, or fails
\* without a failing call, only if a message it dealt with was deleted or the Inbox has
\* ended: a request that takes several steps is not misled by what changes in between.
MissingMeansGone == \A r \in Requests : ~req[r].wrong

\* Transactions that number and delete the same rows never wait in a circle: of the
\* requests that wait, one waits only for a request that can go on.
NoCircularWait ==
  \A S \in (SUBSET Requests) \ {{}} : \E r \in S : \A s \in S : ~WaitsFor(r, s)
=============================================================================
