------------------------- MODULE MessageStepProofs -------------------------
(***************************************************************************)
(* What each step of the four HTTP APIs does to a request and the tables,  *)
(* for any number of messages and requests, any page sizes and capacities. *)
(* The invariant comes in layers: what a handler is at (BaseInv), the      *)
(* numbers of messages (NumberInv), what a request may say is missing      *)
(* (AskInv) and the order in which it inserts (OrderInv).  Here are the    *)
(* lemmas of every layer that hold whatever a page lists.                  *)
(***************************************************************************)
EXTENDS MessageApi, TLAPS

-----------------------------------------------------------------------------
(* The tables.                                                             *)

LEMMA LiveFacts ==
  ASSUME DataTypes
  PROVE  Live \in SUBSET DOMAIN rows /\ Live \in SUBSET Messages /\ RowTypes
BY DEF DataTypes, RowTypes, Live

LEMMA SameData ==
  ASSUME DataTypes, UNCHANGED <<open, rows, gone, files>>
  PROVE  DataTypes'
BY DEF DataTypes, RowTypes

\* Rows go, and are not there again.
Dropped(ms) ==
  /\ rows' = [x \in DOMAIN rows \ ms |-> rows[x]]
  /\ gone' = gone \union ms /\ listed' = listed \ ms
  /\ numbers' = [x \in DOMAIN numbers \ ms |-> numbers[x]]
  /\ walk' = [walk EXCEPT !.kept = @ \ ms]

LEMMA DroppedData ==
  ASSUME DataTypes, NEW ms \in SUBSET DOMAIN rows, Dropped(ms), open' \in BOOLEAN, UNCHANGED files
  PROVE  DataTypes'
BY DEF DataTypes, RowTypes, Dropped

LEMMA ArriveData ==
  ASSUME DataTypes, NEW m \in Messages, Arrive(m)
  PROVE  /\ DataTypes' /\ DOMAIN rows' = DOMAIN rows \union {m} /\ m \notin DOMAIN rows \union gone
         /\ \A x \in DOMAIN rows : rows'[x] = rows[x]
<1>1. PICK t \in Times : rows' = [x \in DOMAIN rows \union {m} |-> IF x = m THEN t ELSE rows[x]]
  BY DEF Arrive
<1>2. /\ DOMAIN rows' = DOMAIN rows \union {m} /\ \A x \in DOMAIN rows' : rows'[x] \in Nat
      /\ m \notin DOMAIN rows \union gone /\ \A x \in DOMAIN rows : rows'[x] = rows[x]
  BY <1>1, ApiAssumption DEF DataTypes, RowTypes, Arrive
<1>3. DataTypes'
  BY <1>2, Zenon DEF Arrive, DataTypes, RowTypes
<1> QED
  BY <1>2, <1>3

-----------------------------------------------------------------------------
(* The calls that a handler has before it.                                 *)

ListOps == {"page", "raw_list", "parsed_list"}
Ops == {"get", "seen", "delete", "source", "attachment", "page", "adapter_get", "raw_list",
        "parsed_list", "raw", "parsed", "delete_number"}
Calls == {"message", "mark", "remove", "content", "open", "stream", "inbox", "list", "number", "find"}

\* The lists of calls that occur, with names of their own: the provers reason about
\* names and not about tuples.
TMessage == <<"message">>
TMark == <<"mark">>
TRemove == <<"remove">>
TStream == <<"stream">>
TInbox == <<"inbox">>
TListing == <<"list">>
TNumber == <<"number">>
TOpen == <<"open">>
TOpenStream == <<"open", "stream">>
TContentOpen == <<"content", "open">>
TSource == <<"content", "open", "stream">>
TRawItem == <<"message", "content", "open">>
TAttachment == <<"message", "content", "open", "stream">>
TPagePlan == <<"inbox", "list">>
TAdapterGet == <<"message", "inbox">>
TListNumber == <<"list", "number">>
TListPlan == <<"inbox", "list", "number">>
TRaw == <<"find", "inbox", "message", "content", "open">>
TInboxRaw == <<"inbox", "message", "content", "open">>
TParsed == <<"find", "inbox", "message">>
TInboxMessage == <<"inbox", "message">>
TDeleteNumber == <<"find", "remove">>

Doing(op, t) ==
  \/ op = "get" /\ t = TMessage
  \/ op = "seen" /\ t = TMark
  \/ op = "delete" /\ t = TRemove
  \/ op = "source" /\ t \in {TSource, TOpenStream, TStream}
  \/ op = "attachment" /\ t \in {TAttachment, TSource, TOpenStream, TStream}
  \/ op = "page" /\ t \in {TPagePlan, TListing}
  \/ op = "adapter_get" /\ t \in {TAdapterGet, TInbox}
  \/ op = "raw_list" /\ t \in {TListPlan, TListNumber, TNumber, TRawItem, TContentOpen, TOpen}
  \/ op = "parsed_list" /\ t \in {TListPlan, TListNumber, TNumber, TMessage}
  \/ op = "raw" /\ t \in {TRaw, TInboxRaw, TRawItem, TContentOpen, TOpen}
  \/ op = "parsed" /\ t \in {TParsed, TInboxMessage, TMessage}
  \/ op = "delete_number" /\ t \in {TDeleteNumber, TRemove}

\* The handler has no message in hand yet.
Unfocused(op, t) ==
  Head(t) \in {"find", "list", "number"} \/ (Head(t) = "inbox" /\ op \in ListOps)

LEMMA Heads ==
  /\ Head(TMessage) = "message" /\ Head(TRawItem) = "message" /\ Head(TAttachment) = "message" /\ Head(TAdapterGet) = "message"
  /\ Head(TMark) = "mark"
  /\ Head(TRemove) = "remove"
  /\ Head(TStream) = "stream"
  /\ Head(TInbox) = "inbox" /\ Head(TPagePlan) = "inbox" /\ Head(TListPlan) = "inbox" /\ Head(TInboxRaw) = "inbox" /\ Head(TInboxMessage) = "inbox"
  /\ Head(TListing) = "list" /\ Head(TListNumber) = "list"
  /\ Head(TNumber) = "number"
  /\ Head(TOpen) = "open" /\ Head(TOpenStream) = "open"
  /\ Head(TContentOpen) = "content" /\ Head(TSource) = "content"
  /\ Head(TRaw) = "find" /\ Head(TParsed) = "find" /\ Head(TDeleteNumber) = "find"
BY DEF TMessage, TMark, TRemove, TStream, TInbox, TListing, TNumber, TOpen, TOpenStream,
  TContentOpen, TSource, TRawItem, TAttachment, TPagePlan, TAdapterGet, TListNumber,
  TListPlan, TRaw, TInboxRaw, TParsed, TInboxMessage, TDeleteNumber

LEMMA Lens ==
  /\ ~(Len(TMessage) > 1) /\ ~(Len(TMark) > 1) /\ ~(Len(TRemove) > 1) /\ ~(Len(TStream) > 1) /\ ~(Len(TInbox) > 1) /\ ~(Len(TListing) > 1) /\ ~(Len(TNumber) > 1) /\ ~(Len(TOpen) > 1)
  /\ Len(TOpenStream) > 1 /\ Len(TContentOpen) > 1 /\ Len(TPagePlan) > 1 /\ Len(TAdapterGet) > 1 /\ Len(TListNumber) > 1 /\ Len(TInboxMessage) > 1 /\ Len(TDeleteNumber) > 1
  /\ Len(TSource) > 1 /\ Len(TRawItem) > 1 /\ Len(TListPlan) > 1 /\ Len(TParsed) > 1
  /\ Len(TAttachment) > 1 /\ Len(TInboxRaw) > 1
  /\ Len(TRaw) > 1
BY DEF TMessage, TMark, TRemove, TStream, TInbox, TListing, TNumber, TOpen, TOpenStream,
  TContentOpen, TSource, TRawItem, TAttachment, TPagePlan, TAdapterGet, TListNumber,
  TListPlan, TRaw, TInboxRaw, TParsed, TInboxMessage, TDeleteNumber

LEMMA Tails ==
  /\ Tail(TOpenStream) = TStream
  /\ Tail(TContentOpen) = TOpen
  /\ Tail(TSource) = TOpenStream
  /\ Tail(TRawItem) = TContentOpen
  /\ Tail(TAttachment) = TSource
  /\ Tail(TPagePlan) = TListing
  /\ Tail(TAdapterGet) = TInbox
  /\ Tail(TListNumber) = TNumber
  /\ Tail(TListPlan) = TListNumber
  /\ Tail(TRaw) = TInboxRaw
  /\ Tail(TInboxRaw) = TRawItem
  /\ Tail(TParsed) = TInboxMessage
  /\ Tail(TInboxMessage) = TMessage
  /\ Tail(TDeleteNumber) = TRemove
BY DEF TMessage, TMark, TRemove, TStream, TInbox, TListing, TNumber, TOpen, TOpenStream,
  TContentOpen, TSource, TRawItem, TAttachment, TPagePlan, TAdapterGet, TListNumber,
  TListPlan, TRaw, TInboxRaw, TParsed, TInboxMessage, TDeleteNumber

LEMMA Seqs ==
  /\ TMessage \in Seq(Calls) /\ TMessage # <<>>
  /\ TMark \in Seq(Calls) /\ TMark # <<>>
  /\ TRemove \in Seq(Calls) /\ TRemove # <<>>
  /\ TStream \in Seq(Calls) /\ TStream # <<>>
  /\ TInbox \in Seq(Calls) /\ TInbox # <<>>
  /\ TListing \in Seq(Calls) /\ TListing # <<>>
  /\ TNumber \in Seq(Calls) /\ TNumber # <<>>
  /\ TOpen \in Seq(Calls) /\ TOpen # <<>>
  /\ TOpenStream \in Seq(Calls) /\ TOpenStream # <<>>
  /\ TContentOpen \in Seq(Calls) /\ TContentOpen # <<>>
  /\ TSource \in Seq(Calls) /\ TSource # <<>>
  /\ TRawItem \in Seq(Calls) /\ TRawItem # <<>>
  /\ TAttachment \in Seq(Calls) /\ TAttachment # <<>>
  /\ TPagePlan \in Seq(Calls) /\ TPagePlan # <<>>
  /\ TAdapterGet \in Seq(Calls) /\ TAdapterGet # <<>>
  /\ TListNumber \in Seq(Calls) /\ TListNumber # <<>>
  /\ TListPlan \in Seq(Calls) /\ TListPlan # <<>>
  /\ TRaw \in Seq(Calls) /\ TRaw # <<>>
  /\ TInboxRaw \in Seq(Calls) /\ TInboxRaw # <<>>
  /\ TParsed \in Seq(Calls) /\ TParsed # <<>>
  /\ TInboxMessage \in Seq(Calls) /\ TInboxMessage # <<>>
  /\ TDeleteNumber \in Seq(Calls) /\ TDeleteNumber # <<>>
BY DEF Calls, TMessage, TMark, TRemove, TStream, TInbox, TListing, TNumber, TOpen, TOpenStream,
  TContentOpen, TSource, TRawItem, TAttachment, TPagePlan, TAdapterGet, TListNumber,
  TListPlan, TRaw, TInboxRaw, TParsed, TInboxMessage, TDeleteNumber

LEMMA Plans ==
  /\ Plan["get"] = TMessage
  /\ Plan["seen"] = TMark
  /\ Plan["delete"] = TRemove
  /\ Plan["source"] = TSource
  /\ Plan["attachment"] = TAttachment
  /\ Plan["page"] = TPagePlan
  /\ Plan["adapter_get"] = TAdapterGet
  /\ Plan["raw_list"] = TListPlan
  /\ Plan["parsed_list"] = TListPlan
  /\ Plan["raw"] = TRaw
  /\ Plan["parsed"] = TParsed
  /\ Plan["delete_number"] = TDeleteNumber
BY Zenon DEF Plan, Over, AdapterPlan, CloudflarePlan, CanonicalPlan, DuckMailPlan, YydsPlan,
  CloudflareRawPlan, CloudflareParsedPlan, CloudflareDeletePlan,
  TMessage, TMark, TRemove, TStream, TInbox, TListing, TNumber, TOpen, TOpenStream,
  TContentOpen, TSource, TRawItem, TAttachment, TPagePlan, TAdapterGet, TListNumber,
  TListPlan, TRaw, TInboxRaw, TParsed, TInboxMessage, TDeleteNumber

LEMMA PlanFacts ==
  ASSUME NEW op \in Ops
  PROVE  /\ Doing(op, Plan[op]) /\ Plan[op] # <<>>
         /\ Unfocused(op, Plan[op]) <=> op \in ListOps \union {"raw", "parsed", "delete_number"}
         /\ Head(Plan[op]) # "number" /\ Head(Plan[op]) # "list"
         /\ Head(Plan[op]) = "find" <=> op \in {"raw", "parsed", "delete_number"}
<1>1. Doing(op, Plan[op]) /\ Plan[op] # <<>>
  BY Plans, Seqs, Zenon DEF Doing, Ops
<1>2. Head(Plan[op]) # "number" /\ Head(Plan[op]) # "list"
  BY Plans, Heads DEF Ops
<1>3. Head(Plan[op]) = "find" <=> op \in {"raw", "parsed", "delete_number"}
  BY Plans, Heads DEF Ops
<1>4. Head(Plan[op]) = "inbox" <=> op \in ListOps
  BY Plans, Heads DEF Ops, ListOps
<1> QED
  BY <1>1, <1>2, <1>3, <1>4 DEF Unfocused

LEMMA ItemFacts ==
  ASSUME NEW op \in {"raw_list", "parsed_list"}
  PROVE  Doing(op, Item(op)) /\ Item(op) # <<>> /\ ~Unfocused(op, Item(op)) /\ Head(Item(op)) # "number"
<1>1. Item(op) = IF op = "raw_list" THEN TRawItem ELSE TMessage
  BY DEF Item, TRawItem, TMessage
<1> QED
  BY <1>1, Heads, Seqs, Zenon DEF Doing, Unfocused, ListOps

LEMMA TodoFacts ==
  ASSUME NEW op, NEW t, Doing(op, t)
  PROVE  /\ op \in Ops /\ t \in Seq(Calls) /\ t # <<>>
         /\ Head(t) = "number" => t = TNumber /\ op \in {"raw_list", "parsed_list"}
         /\ Head(t) = "list" => op \in ListOps
         /\ Head(t) = "find" => op \in {"raw", "parsed", "delete_number"} /\ Len(t) > 1
<1>1. op \in Ops /\ t \in Seq(Calls) /\ t # <<>>
  BY Seqs, Zenon DEF Doing, Ops
<1>2. /\ Head(t) = "number" => t = TNumber /\ op \in {"raw_list", "parsed_list"}
      /\ Head(t) = "list" => op \in ListOps
  BY Heads DEF Doing, ListOps
<1>3. Head(t) = "find" => op \in {"raw", "parsed", "delete_number"} /\ t \in {TRaw, TParsed, TDeleteNumber}
  <2>1. CASE op \in {"get", "seen", "delete"}
    BY <2>1, Heads DEF Doing
  <2>2. CASE op \in {"source", "attachment"}
    BY <2>2, Heads DEF Doing
  <2>3. CASE op \in {"page", "adapter_get"}
    BY <2>3, Heads DEF Doing
  <2>4. CASE op = "raw_list"
    BY <2>4, Heads DEF Doing
  <2>5. CASE op = "parsed_list"
    BY <2>5, Heads DEF Doing
  <2>6. CASE op = "raw"
    BY <2>6, Heads DEF Doing
  <2>7. CASE op \in {"parsed", "delete_number"}
    BY <2>7, Heads DEF Doing
  <2> QED
    BY <2>1, <2>2, <2>3, <2>4, <2>5, <2>6, <2>7 DEF Doing
<1> QED
  BY <1>1, <1>2, <1>3, Lens, Zenon

LEMMA TailFacts ==
  ASSUME NEW op, NEW t, Doing(op, t), Len(t) > 1
  PROVE  /\ Doing(op, Tail(t))
         /\ Head(t) = "list" => Tail(t) = TNumber
         /\ Head(t) # "list" => Head(Tail(t)) # "number"
         /\ Head(Tail(t)) # "find"
         /\ Unfocused(op, Tail(t)) => Unfocused(op, t) /\ Head(t) \notin {"find", "number"}
         /\ Unfocused(op, t) => Unfocused(op, Tail(t)) \/ Head(t) = "find"
<1>1. \/ op = "source" /\ t \in {TSource, TOpenStream}
      \/ op = "attachment" /\ t \in {TAttachment, TSource, TOpenStream}
      \/ op = "page" /\ t = TPagePlan
      \/ op = "adapter_get" /\ t = TAdapterGet
      \/ op = "raw_list" /\ t \in {TListPlan, TListNumber, TRawItem, TContentOpen}
      \/ op = "parsed_list" /\ t \in {TListPlan, TListNumber}
      \/ op = "raw" /\ t \in {TRaw, TInboxRaw, TRawItem, TContentOpen}
      \/ op = "parsed" /\ t \in {TParsed, TInboxMessage}
      \/ op = "delete_number" /\ t = TDeleteNumber
  <2>1. CASE op \in {"get", "seen", "delete"}
    BY <2>1, Lens, Zenon DEF Doing
  <2>2. CASE op \in {"source", "attachment"}
    BY <2>2, Lens, Zenon DEF Doing
  <2>3. CASE op \in {"page", "adapter_get"}
    BY <2>3, Lens, Zenon DEF Doing
  <2>4. CASE op = "raw_list"
    BY <2>4, Lens, Zenon DEF Doing
  <2>5. CASE op = "parsed_list"
    BY <2>5, Lens, Zenon DEF Doing
  <2>6. CASE op = "raw"
    BY <2>6, Lens DEF Doing
  <2>7. CASE op \in {"parsed", "delete_number"}
    BY <2>7, Lens, Zenon DEF Doing
  <2> QED
    BY <2>1, <2>2, <2>3, <2>4, <2>5, <2>6, <2>7 DEF Doing
<1>2. Doing(op, Tail(t))
  BY <1>1, Tails, Zenon DEF Doing
<1>3. /\ Head(t) = "list" => Tail(t) = TNumber
      /\ Head(t) # "list" => Head(Tail(t)) # "number"
      /\ Head(Tail(t)) # "find"
  BY <1>1, Tails, Heads, Zenon
<1>4. Unfocused(op, Tail(t)) => Unfocused(op, t) /\ Head(t) \notin {"find", "number"}
  <2>1. CASE op \in {"source", "attachment", "adapter_get"}
    <3>1. t \in {TSource, TOpenStream, TAttachment, TAdapterGet}
      BY <1>1, <2>1, Zenon
    <3>2. Head(Tail(t)) \in {"open", "stream", "content", "inbox"}
      BY <3>1, Tails, Heads, Zenon
    <3> QED
      BY <2>1, <3>2, Zenon DEF Unfocused, ListOps
  <2>2. CASE op \in {"raw", "parsed", "delete_number"}
    <3>1. t \in {TRaw, TInboxRaw, TRawItem, TContentOpen, TParsed, TInboxMessage, TDeleteNumber}
      BY <1>1, <2>2, Zenon
    <3>2. Head(Tail(t)) \in {"inbox", "message", "content", "open", "remove"}
      <4>1. CASE t \in {TRaw, TInboxRaw, TRawItem}
        BY <4>1, Tails, Heads, Zenon
      <4>2. CASE t \in {TContentOpen, TParsed}
        BY <4>2, Tails, Heads, Zenon
      <4>3. CASE t \in {TInboxMessage, TDeleteNumber}
        BY <4>3, Tails, Heads, Zenon
      <4> QED
        BY <3>1, <4>1, <4>2, <4>3, Zenon
    <3> QED
      BY <2>2, <3>2, Zenon DEF Unfocused, ListOps
  <2>3. CASE op \in ListOps /\ t \in {TPagePlan, TListPlan, TListNumber}
    BY <2>3, Heads, Zenon DEF Unfocused
  <2>4. CASE t \in {TRawItem, TContentOpen}
    BY <2>4, Tails, Heads, Zenon DEF Unfocused
  <2> QED
    BY <1>1, <2>1, <2>2, <2>3, <2>4, Zenon DEF ListOps
<1>5. Unfocused(op, t) => Unfocused(op, Tail(t)) \/ Head(t) = "find"
  <2>1. CASE op \in {"source", "attachment", "adapter_get"}
    <3>1. t \in {TSource, TOpenStream, TAttachment, TAdapterGet}
      BY <1>1, <2>1, Zenon
    <3> QED
      BY <2>1, <3>1, Heads, Zenon DEF Unfocused, ListOps
  <2>2. CASE op \in {"raw", "parsed", "delete_number"}
    <3>1. t \in {TRaw, TInboxRaw, TRawItem, TContentOpen, TParsed, TInboxMessage, TDeleteNumber}
      BY <1>1, <2>2, Zenon
    <3> QED
      BY <2>2, <3>1, Heads, Zenon DEF Unfocused, ListOps
  <2>3. CASE t \in {TPagePlan, TListPlan, TListNumber}
    BY <2>3, Tails, Heads, Zenon DEF Unfocused
  <2>4. CASE t \in {TRawItem, TContentOpen}
    BY <2>4, Heads, Zenon DEF Unfocused
  <2> QED
    BY <1>1, <2>1, <2>2, <2>3, <2>4, Zenon
<1> QED
  BY <1>2, <1>3, <1>4, <1>5

-----------------------------------------------------------------------------
(* What a handler is at.                                                   *)

Numberings == UNION {[D -> Nat] : D \in SUBSET Messages}
Parts == {"none", "absent", "shown", "unshown"}
ReqRecord ==
  [op: Ops \union {"none"}, pool: {"none", "heavy", "cf"}, todo: Seq(Calls), page: Seq(Messages),
   msg: Messages \union {0}, number: Nat, part: Parts, queue: Seq(Messages), ids: Numberings,
   own: SUBSET Messages, asked: SUBSET Messages, wrong: BOOLEAN]

Shape(s) ==
  /\ s.todo # <<>> => Doing(s.op, s.todo)
  /\ s.page # <<>> => s.op \in {"raw_list", "parsed_list"}
  /\ s.own \subseteq DOMAIN s.ids
  /\ s.part # "none" => s.op = "attachment"
  /\ s.todo # <<>> /\ Unfocused(s.op, s.todo) /\ Head(s.todo) \notin {"number", "find"} => s.msg = 0
  /\ s.todo # <<>> /\ Head(s.todo) = "number" /\ s.msg # 0 => s.queue # <<>> /\ s.msg = Head(s.queue)

NumberTypes ==
  /\ numbers \in Numberings /\ DOMAIN numbers \subseteq DOMAIN rows
  /\ sequence \in Nat /\ told \subseteq Nat \X Messages

BaseInv ==
  /\ DataTypes /\ NumberTypes
  /\ slots \in [{"heavy", "cf"} -> Int]
  /\ req \in [Requests -> ReqRecord]
  /\ \A r \in Requests : Shape(req[r]) /\ req[r].own \subseteq DOMAIN rows

\* The number after a number, and those before it.
LEMMA Following ==
  ASSUME NEW k \in Nat
  PROVE  /\ k + 1 \in Nat /\ k < k + 1
         /\ \A i \in Nat : i <= k => i <= k + 1 /\ i # k + 1
OBVIOUS

LEMMA NumberingFacts ==
  ASSUME NEW f \in Numberings
  PROVE  DOMAIN f \subseteq Messages /\ f = [x \in DOMAIN f |-> f[x]] /\ \A x \in DOMAIN f : f[x] \in Nat
BY DEF Numberings

LEMMA NumberingIs ==
  ASSUME NEW D \in SUBSET Messages, NEW f \in [D -> Nat]
  PROVE  f \in Numberings
BY DEF Numberings

LEMMA OverFacts ==
  ASSUME NEW f \in Numberings, NEW g \in Numberings
  PROVE  /\ Over(f, g) \in Numberings
         /\ DOMAIN Over(f, g) = DOMAIN f \union DOMAIN g
         /\ \A x \in DOMAIN f : Over(f, g)[x] = f[x]
         /\ \A x \in DOMAIN g \ DOMAIN f : Over(f, g)[x] = g[x]
<1>1. Over(f, g) \in [DOMAIN f \union DOMAIN g -> Nat] /\ DOMAIN f \union DOMAIN g \in SUBSET Messages
  BY NumberingFacts DEF Over
<1>2. Over(f, g) \in Numberings
  BY <1>1, NumberingIs
<1> QED
  BY <1>1, <1>2 DEF Over

LEMMA SingleFacts ==
  ASSUME NEW m \in Messages, NEW n \in Nat
  PROVE  /\ [x \in {m} |-> n] \in Numberings
         /\ DOMAIN [x \in {m} |-> n] = {m} /\ [x \in {m} |-> n][m] = n
<1>1. [x \in {m} |-> n] \in [{m} -> Nat]
  OBVIOUS
<1> QED
  BY <1>1, NumberingIs

\* f with the number n for m, unless it has one.
Added(f, m, n) == Over(f, [x \in {m} |-> n])

LEMMA AddedFacts ==
  ASSUME NEW f \in Numberings, NEW m \in Messages, NEW n \in Nat
  PROVE  /\ Added(f, m, n) \in Numberings
         /\ DOMAIN Added(f, m, n) = DOMAIN f \union {m}
         /\ \A x \in DOMAIN f : Added(f, m, n)[x] = f[x]
         /\ m \notin DOMAIN f => Added(f, m, n)[m] = n
<1> DEFINE g == [x \in {m} |-> n]
<1>1. g \in Numberings /\ DOMAIN g = {m} /\ g[m] = n
  BY SingleFacts, Zenon
<1> HIDE DEF g
<1>2. /\ Over(f, g) \in Numberings
      /\ DOMAIN Over(f, g) = DOMAIN f \union DOMAIN g
      /\ \A x \in DOMAIN f : Over(f, g)[x] = f[x]
      /\ \A x \in DOMAIN g \ DOMAIN f : Over(f, g)[x] = g[x]
  BY <1>1, OverFacts, Zenon
<1>3. Added(f, m, n) = Over(f, g)
  BY DEF Added, g
<1> QED
  BY <1>1, <1>2, <1>3

\* A request that has been answered.
Ended(b) == [NoRequest EXCEPT !.wrong = b]

LEMMA NoRequestType == NoRequest \in ReqRecord
<1>1. <<>> \in Numberings
  <2>1. [x \in {} |-> 0] \in [{} -> Nat] /\ [x \in {} |-> 0] = <<>>
    OBVIOUS
  <2> QED
    BY <2>1, NumberingIs, Zenon
<1>2. {} \in SUBSET Messages /\ FALSE \in BOOLEAN
  OBVIOUS
<1>3. <<>> \in Seq(Messages) /\ <<>> \in Seq(Calls)
  OBVIOUS
<1> QED
  BY <1>1, <1>2, <1>3, SMTT(20) DEF NoRequest, ReqRecord, Parts

LEMMA EndedFacts ==
  ASSUME NEW b \in BOOLEAN
  PROVE  /\ Ended(b) \in ReqRecord /\ Shape(Ended(b))
         /\ Ended(b).todo = <<>> /\ Ended(b).own = {} /\ Ended(b).msg = 0 /\ Ended(b).wrong = b
         /\ Ended(b).pool = "none" /\ Ended(b).part = "none"
<1>1. Ended(b) \in ReqRecord
  BY NoRequestType, Zenon DEF Ended, ReqRecord
<1>2. /\ Ended(b).todo = <<>> /\ Ended(b).own = {} /\ Ended(b).msg = 0 /\ Ended(b).wrong = b
      /\ Ended(b).pool = "none" /\ Ended(b).page = <<>> /\ Ended(b).part = "none"
  BY DEF Ended, NoRequest
<1> QED
  BY <1>1, <1>2 DEF Shape

\* The next call of a handler, or the next row of its list.
Advanced(s, t) ==
  \/ /\ Len(s.todo) > 1
     /\ t = [s EXCEPT !.todo = Tail(@)]
  \/ /\ ~(Len(s.todo) > 1) /\ s.page # <<>>
     /\ t = [s EXCEPT !.todo = Item(s.op), !.msg = Head(s.page), !.page = Tail(@)]

LEMMA AdvancedFacts ==
  ASSUME NEW s \in ReqRecord, Shape(s), s.todo # <<>>, Head(s.todo) # "list", NEW t, Advanced(s, t)
  PROVE  /\ t \in ReqRecord /\ Shape(t) /\ t.todo # <<>> /\ t.op = s.op /\ t.pool = s.pool
         /\ t.number = s.number /\ t.queue = s.queue /\ t.ids = s.ids /\ t.own = s.own
         /\ t.asked = s.asked /\ t.wrong = s.wrong /\ t.part = s.part
         /\ Head(t.todo) # "number" /\ Head(t.todo) # "find"
         /\ \/ /\ t.msg = s.msg /\ t.page = s.page
               /\ Unfocused(s.op, s.todo) => Unfocused(t.op, t.todo) \/ Head(s.todo) = "find"
            \/ /\ s.page # <<>> /\ t.msg = Head(s.page) /\ t.page = Tail(s.page)
               /\ ~Unfocused(t.op, t.todo)
<1>1. CASE Len(s.todo) > 1 /\ t = [s EXCEPT !.todo = Tail(@)]
  <2> DEFINE x == Tail(s.todo)
  <2>1. /\ Doing(s.op, x) /\ Head(x) # "number" /\ Head(x) # "find"
        /\ Unfocused(s.op, x) => Unfocused(s.op, s.todo) /\ Head(s.todo) \notin {"find", "number"}
        /\ Unfocused(s.op, s.todo) => Unfocused(s.op, x) \/ Head(s.todo) = "find"
    <3>1. Doing(s.op, s.todo)
      BY DEF Shape
    <3> QED
      BY <1>1, <3>1, TailFacts
  <2>2. x \in Seq(Calls) /\ x # <<>>
    BY <2>1, TodoFacts, Zenon
  <2> HIDE DEF x
  <2>3. /\ t \in ReqRecord /\ t.todo = x /\ t.op = s.op /\ t.pool = s.pool /\ t.page = s.page
        /\ t.number = s.number /\ t.queue = s.queue /\ t.ids = s.ids /\ t.own = s.own
        /\ t.asked = s.asked /\ t.wrong = s.wrong /\ t.part = s.part /\ t.msg = s.msg
    BY <1>1, <2>2, Zenon DEF ReqRecord, x
  <2>4. Shape(t)
    BY <2>1, <2>2, <2>3 DEF Shape
  <2> QED
    BY <2>1, <2>2, <2>3, <2>4
<1>2. CASE s.page # <<>> /\ t = [s EXCEPT !.todo = Item(s.op), !.msg = Head(s.page), !.page = Tail(@)]
  <2> DEFINE x == Item(s.op)
             h == Head(s.page)
             y == Tail(s.page)
  <2>1. s.op \in {"raw_list", "parsed_list"}
    BY <1>2 DEF Shape
  <2>2. /\ Doing(s.op, x) /\ x # <<>> /\ ~Unfocused(s.op, x)
        /\ Head(x) # "number" /\ Head(x) # "find"
    BY <2>1, ItemFacts DEF Unfocused
  <2>3. x \in Seq(Calls)
    BY <2>2, TodoFacts
  <2>4. h \in Messages /\ y \in Seq(Messages)
    BY <1>2 DEF ReqRecord
  <2> HIDE DEF x, h, y
  <2>5. /\ t \in ReqRecord /\ t.todo = x /\ t.op = s.op /\ t.pool = s.pool
        /\ t.number = s.number /\ t.queue = s.queue /\ t.ids = s.ids /\ t.own = s.own
        /\ t.asked = s.asked /\ t.wrong = s.wrong /\ t.part = s.part /\ t.msg = h /\ t.page = y
    BY <1>2, <2>3, <2>4, Zenon DEF ReqRecord, x, h, y
  <2>6. Shape(t)
    BY <2>1, <2>2, <2>5 DEF Shape
  <2>7. t.msg = Head(s.page) /\ t.page = Tail(s.page)
    BY <2>5 DEF h, y
  <2> QED
    BY <1>2, <2>2, <2>5, <2>6, <2>7
<1> QED
  BY <1>1, <1>2 DEF Advanced

-----------------------------------------------------------------------------
(* What the steps do: the part of their effect that the proofs need.       *)

Freed(r) == Release(r, "ok")
Ends(r, b) == Become(r, Ended(b)) /\ Freed(r)
Goes(r, t) == Become(r, t) /\ UNCHANGED slots

\* The request goes on to its next call or ends well.
GoesOn(r, s) ==
  \/ \E t : Advanced(s, t) /\ Goes(r, t)
  \/ Ends(r, FALSE)

\* A request that ends with an answer that history calls wrong, and its reason.
Denied(r) ==
  /\ open /\ req[r].asked \intersect gone = {}
  /\ Head(req[r].todo) \in {"message", "content", "open", "mark", "remove"}
  /\ \/ req[r].msg \notin Live \/ req[r].msg \notin files
     \/ req[r].part = "shown" /\ req[r].msg \notin listed

LEMMA ReplyEffect ==
  ASSUME NEW r \in Requests, NEW code, Reply(r, code)
  PROVE  \E b \in BOOLEAN :
           Ends(r, b) /\ (b => Denies(r, code) /\ open /\ req[r].asked \intersect gone = {})
<1> DEFINE b == Denies(r, code) /\ open /\ req[r].asked \intersect gone = {}
<1>1. Become(r, Ended(b)) /\ Freed(r)
  BY DEF Reply, Ended, Freed, Release
<1>2. b \in BOOLEAN
  BY DEF Denies
<1> QED
  BY <1>1, <1>2, Zenon DEF Ends

LEMMA ContinueEffect ==
  ASSUME NEW r \in Requests, NEW s, Continue(r, s)
  PROVE  GoesOn(r, s)
<1>1. CASE Len(s.todo) > 1
  BY <1>1, Zenon DEF Continue, GoesOn, Advanced, Goes
<1>2. CASE ~(Len(s.todo) > 1) /\ s.page # <<>>
  BY <1>2, Zenon DEF Continue, GoesOn, Advanced, Goes
<1>3. CASE ~(Len(s.todo) > 1) /\ s.page = <<>>
  <2>1. Reply(r, "ok")
    BY <1>3 DEF Continue
  <2>2. PICK b \in BOOLEAN : Ends(r, b) /\ (b => Denies(r, "ok"))
    BY <2>1, ReplyEffect
  <2>3. b = FALSE
    BY <2>2 DEF Denies
  <2> QED
    BY <2>2, <2>3, Zenon DEF GoesOn
<1> QED
  BY <1>1, <1>2, <1>3

\* Calls that only read, or mark a message seen, and calls that fail.
Reads(r) ==
  \/ GetInbox(r) \/ GetMessage(r) \/ OpenRaw(r) \/ TooLarge(r) \/ Stream(r)
  \/ MarkMessageSeen(r) \/ CallFails(r)

LEMMA ReadEffect ==
  ASSUME NEW r \in Requests, Reads(r)
  PROVE  /\ UNCHANGED <<open, rows, gone, listed, files, numbers, sequence, told, walk>>
         /\ req[r].todo # <<>>
         /\ \/ GoesOn(r, req[r]) /\ Head(req[r].todo) \notin {"find", "list", "number"}
            \/ \E b \in BOOLEAN : Ends(r, b) /\ (b => Denied(r))
<1> DEFINE On == GoesOn(r, req[r]) /\ Head(req[r].todo) \notin {"find", "list", "number"}
           Off == \E b \in BOOLEAN : Ends(r, b) /\ (b => Denied(r))
<1>1. UNCHANGED <<open, rows, gone, listed, files, numbers, sequence, told, walk>>
  BY DEF Reads, GetInbox, GetMessage, OpenRaw, TooLarge, Stream, MarkMessageSeen, CallFails, data, numbering
<1>2. req[r].todo # <<>>
  BY DEF Reads, GetInbox, GetMessage, OpenRaw, TooLarge, Stream, MarkMessageSeen, CallFails, At
<1>3. ASSUME Advance(r), Head(req[r].todo) \notin {"find", "list", "number"}
      PROVE  On
  BY <1>3, ContinueEffect DEF Advance
<1>4. ASSUME NEW code, Reply(r, code), code \notin {"missing", "error", "no_part"} \/ ~open
      PROVE  Off
  BY <1>4, ReplyEffect DEF Denies
<1>5. ASSUME NEW code, Reply(r, code), req[r].msg \notin Live \/ req[r].msg \notin files,
             Head(req[r].todo) \in {"message", "content", "open", "mark", "remove"}
      PROVE  Off
  BY <1>5, ReplyEffect DEF Denied
<1> SUFFICES On \/ Off
  BY <1>1, <1>2
<1> HIDE DEF On, Off
<1>6. CASE GetInbox(r)
  <2>1. Head(req[r].todo) = "inbox" /\ IF open THEN Advance(r) ELSE Reply(r, "missing")
    BY <1>6 DEF GetInbox, Missing, At
  <2> QED
    BY <2>1, <1>3, <1>4
<1>7. CASE GetMessage(r)
  <2>1. /\ Head(req[r].todo) \in {"message", "content"}
        /\ IF req[r].msg \notin Live THEN Reply(r, "missing")
           ELSE IF PartFound(r) THEN Advance(r) ELSE Reply(r, "no_part")
    BY <1>7 DEF GetMessage, Missing, At
  <2>2. ASSUME ~PartFound(r), Reply(r, "no_part")
        PROVE  Off
    <3>1. ~(req[r].msg \in listed /\ req[r].part # "absent")
      BY <2>2 DEF PartFound
    <3>2. PICK b \in BOOLEAN : Ends(r, b) /\ (b => Denies(r, "no_part") /\ open /\ req[r].asked \intersect gone = {})
      BY <2>2, ReplyEffect
    <3>3. b => Denied(r)
      BY <2>1, <3>1, <3>2 DEF Denies, Denied
    <3> QED
      BY <3>2, <3>3 DEF Off
  <2> QED
    BY <2>1, <2>2, <1>3, <1>5
<1>8. CASE OpenRaw(r)
  <2>1. /\ Head(req[r].todo) = "open"
        /\ IF req[r].msg \in files THEN Advance(r) ELSE Reply(r, "error")
    BY <1>8 DEF OpenRaw, At
  <2> QED
    BY <2>1, <1>3, <1>5
<1>9. CASE TooLarge(r)
  BY <1>9, <1>4 DEF TooLarge
<1>10. CASE CallFails(r)
  BY <1>10, <1>4 DEF CallFails
<1>11. CASE Stream(r)
  BY <1>11, <1>3 DEF Stream, At
<1>12. CASE MarkMessageSeen(r)
  <2>1. /\ Head(req[r].todo) = "mark"
        /\ IF req[r].msg \in Live THEN Advance(r) ELSE Reply(r, "missing")
    BY <1>12 DEF MarkMessageSeen, Missing, At
  <2> QED
    BY <2>1, <1>3, <1>5
<1> QED
  BY <1>6, <1>7, <1>8, <1>9, <1>10, <1>11, <1>12 DEF Reads

LEMMA DeleteEffect ==
  ASSUME NEW r \in Requests, DeleteMessage(r)
  PROVE  /\ req[r].todo # <<>> /\ Head(req[r].todo) = "remove" /\ ~Numbering(req[r].msg)
         /\ UNCHANGED <<open, files, sequence, told>>
         /\ \/ req[r].msg \in Live /\ Dropped({req[r].msg}) /\ GoesOn(r, req[r])
            \/ /\ UNCHANGED <<rows, gone, listed, numbers, walk>>
               /\ \E b \in BOOLEAN : Ends(r, b) /\ (b => Denied(r))
<1>1. /\ req[r].todo # <<>> /\ Head(req[r].todo) = "remove" /\ ~Numbering(req[r].msg)
      /\ UNCHANGED <<open, files, sequence, told>>
  BY DEF DeleteMessage, At
<1>2. CASE req[r].msg \in Live
  <2>1. Drop({req[r].msg}) /\ Continue(r, req[r])
    BY <1>2 DEF DeleteMessage, Advance
  <2>2. Dropped({req[r].msg})
    BY <2>1 DEF Drop, Dropped
  <2> QED
    BY <1>1, <1>2, <2>1, <2>2, ContinueEffect
<1>3. CASE req[r].msg \notin Live
  <2>1. Reply(r, "missing") /\ UNCHANGED <<rows, gone, listed, numbers, walk>>
    BY <1>3 DEF DeleteMessage, Missing
  <2>2. \E b \in BOOLEAN : Ends(r, b) /\ (b => Denied(r))
    BY <1>1, <1>3, <2>1, ReplyEffect DEF Denied
  <2> QED
    BY <1>1, <2>1, <2>2
<1> QED
  BY <1>2, <1>3

\* A request that has found and done nothing yet.
Blank(s) ==
  /\ s \in ReqRecord /\ s.page = <<>> /\ s.queue = <<>> /\ s.ids = <<>> /\ s.own = {}
  /\ s.wrong = FALSE

\* A request as it starts.
Fresh(s) ==
  /\ Blank(s) /\ Shape(s) /\ s.todo = Plan[s.op] /\ s.op \in Ops
  /\ \/ /\ s.op \notin ListOps \union {"raw", "parsed", "delete_number"}
        /\ s.msg \in DOMAIN rows \union gone /\ s.asked = {s.msg}
        /\ s.part = "shown" => s.msg \in listed
     \/ s.op \in ListOps /\ s.msg = 0 /\ s.asked = {} /\ s.part = "none"
     \/ /\ s.op \in {"raw", "parsed", "delete_number"} /\ s.msg = 0 /\ s.part = "none"
        /\ \E p \in told : s.number = p[1] /\ s.asked = {p[2]}

LEMMA BlankFacts ==
  /\ Blank(NoRequest) /\ NoRequest = Ended(FALSE) /\ NoRequest.msg = 0 /\ NoRequest.asked = {}
  /\ NoRequest.part = "none"
<1>1. /\ NoRequest.page = <<>> /\ NoRequest.queue = <<>> /\ NoRequest.ids = <<>> /\ NoRequest.own = {}
      /\ NoRequest.wrong = FALSE /\ NoRequest.msg = 0 /\ NoRequest.asked = {}
      /\ NoRequest.part = "none"
  BY DEF NoRequest
<1>2. NoRequest = Ended(FALSE)
  BY <1>1, NoRequestType DEF ReqRecord, Ended
<1> QED
  BY <1>1, <1>2, NoRequestType, Zenon DEF Blank

\* s is what the request s0 begins as.
Begun(s, s0) ==
  /\ Blank(s) /\ Shape(s) /\ s.op = s0.op /\ s.todo = Plan[s0.op] /\ s.msg = s0.msg
  /\ s.number = s0.number /\ s.part = s0.part /\ s.asked = s0.asked
Enters(r, s) == HasSlot(s.pool) /\ Become(r, s) /\ Take(s.pool)
TurnedAway(r) == Become(r, Ended(FALSE)) /\ UNCHANGED slots

LEMMA BeginEffect ==
  ASSUME NEW r \in Requests, NEW s0, s0.op \in Ops, Blank(s0), Begin(r, s0),
         s0.op \in ListOps \union {"raw", "parsed", "delete_number"} => s0.msg = 0,
         s0.part # "none" => s0.op = "attachment"
  PROVE  (\E s : Begun(s, s0) /\ Enters(r, s)) \/ TurnedAway(r)
<1> DEFINE op == s0.op
<1>2. /\ Doing(op, Plan[op]) /\ Plan[op] # <<>> /\ Plan[op] \in Seq(Calls)
      /\ Unfocused(op, Plan[op]) => op \in ListOps \union {"raw", "parsed", "delete_number"}
      /\ Head(Plan[op]) # "number"
  BY PlanFacts, TodoFacts
<1>3. PICK pool \in Pools(op) :
        IF HasSlot(pool)
          THEN Become(r, [s0 EXCEPT !.pool = pool, !.todo = Plan[op]]) /\ Take(pool)
          ELSE Become(r, NoRequest) /\ UNCHANGED slots
  BY Zenon DEF Begin
<1>4. pool \in {"none", "heavy", "cf"}
  BY DEF Pools
<1> DEFINE s == [s0 EXCEPT !.pool = pool, !.todo = Plan[op]]
           t == Plan[op]
<1> HIDE DEF t
<1>5. /\ s \in ReqRecord /\ s.op = op /\ s.msg = s0.msg /\ s.number = s0.number /\ s.asked = s0.asked
      /\ s.part = s0.part /\ s.page = <<>> /\ s.queue = <<>> /\ s.ids = <<>> /\ s.own = {} /\ s.wrong = FALSE
      /\ s.todo = t /\ s.pool = pool
  BY <1>2, <1>4, Zenon DEF Blank, ReqRecord, t
<1>6. CASE HasSlot(pool)
  <2>1. Become(r, s) /\ Take(pool)
    BY <1>3, <1>6
  <2> HIDE DEF s
  <2>2. Begun(s, s0)
    BY <1>2, <1>5 DEF Begun, Shape, Blank, t
  <2> QED
    BY <1>5, <1>6, <2>1, <2>2 DEF Enters
<1>7. CASE ~HasSlot(pool)
  BY <1>3, <1>7, BlankFacts, Zenon DEF TurnedAway
<1> QED
  BY <1>6, <1>7

LEMMA StartEffect ==
  ASSUME BaseInv, NEW r \in Requests, Start(r)
  PROVE  /\ UNCHANGED <<open, rows, gone, listed, files, numbers, sequence, told, walk>>
         /\ req[r].todo = <<>>
         /\ (\E s : Fresh(s) /\ Enters(r, s)) \/ TurnedAway(r)
<1> DEFINE In == \E s : Fresh(s) /\ Enters(r, s)
           Full == TurnedAway(r)
<1>1. ASSUME NEW s, Begin(r, s)
      PROVE  /\ UNCHANGED <<open, rows, gone, listed, files, numbers, sequence, told, walk>>
             /\ req[r].todo = <<>>
  BY <1>1 DEF Begin, data, numbering
<1>2. CASE \E op \in {"get", "adapter_get", "seen", "delete", "source"}, m \in DOMAIN rows \union gone :
             Begin(r, [NoRequest EXCEPT !.op = op, !.msg = m, !.asked = {m}])
  <2>1. PICK op \in {"get", "adapter_get", "seen", "delete", "source"}, m \in DOMAIN rows \union gone :
             Begin(r, [NoRequest EXCEPT !.op = op, !.msg = m, !.asked = {m}])
    BY <1>2, Zenon
  <2>2. op \in Ops /\ op \notin ListOps \union {"raw", "parsed", "delete_number"} /\ m \in Messages
    BY DEF BaseInv, DataTypes, RowTypes, Ops, ListOps
  <2> DEFINE s0 == [NoRequest EXCEPT !.op = op, !.msg = m, !.asked = {m}]
  <2>3. Blank(s0) /\ s0.op = op /\ s0.msg = m /\ s0.asked = {m} /\ s0.part = "none"
    BY <2>2, BlankFacts, Zenon DEF Blank, ReqRecord
  <2> HIDE DEF s0
  <2>4. In \/ Full
    <3>1. Begin(r, s0)
      BY <2>1 DEF s0
    <3>2. ASSUME NEW s, Begun(s, s0) PROVE Fresh(s)
      BY <2>2, <2>3, <3>2 DEF Fresh, Begun
    <3> QED
      BY <2>2, <2>3, <3>1, <3>2, BeginEffect
  <2> QED
    BY <1>1, <2>1, <2>4
<1>5. CASE \E m \in DOMAIN rows \union gone : \E part \in PartsOf(m) :
             Begin(r, [NoRequest EXCEPT !.op = "attachment", !.msg = m, !.asked = {m}, !.part = part])
  <2>1. PICK m \in DOMAIN rows \union gone : \E part \in PartsOf(m) :
             Begin(r, [NoRequest EXCEPT !.op = "attachment", !.msg = m, !.asked = {m}, !.part = part])
    BY <1>5, Zenon
  <2>2. PICK part \in PartsOf(m) :
             Begin(r, [NoRequest EXCEPT !.op = "attachment", !.msg = m, !.asked = {m}, !.part = part])
    BY <2>1, Zenon
  <2>3. /\ "attachment" \in Ops /\ "attachment" \notin ListOps \union {"raw", "parsed", "delete_number"}
        /\ m \in Messages
    BY DEF BaseInv, DataTypes, RowTypes, Ops, ListOps
  <2>4. part \in Parts /\ (part = "shown" => m \in listed)
    BY DEF PartsOf, Parts
  <2> DEFINE s0 == [NoRequest EXCEPT !.op = "attachment", !.msg = m, !.asked = {m}, !.part = part]
  <2>5. Blank(s0) /\ s0.op = "attachment" /\ s0.msg = m /\ s0.asked = {m} /\ s0.part = part
    BY <2>3, <2>4, BlankFacts, Zenon DEF Blank, ReqRecord
  <2> HIDE DEF s0
  <2>6. In \/ Full
    <3>1. Begin(r, s0)
      BY <2>2 DEF s0
    <3>2. ASSUME NEW s, Begun(s, s0) PROVE Fresh(s)
      BY <2>3, <2>4, <2>5, <3>2 DEF Fresh, Begun
    <3> QED
      BY <2>3, <2>5, <3>1, <3>2, BeginEffect
  <2> QED
    BY <1>1, <2>2, <2>6
<1>3. CASE \E op \in {"page", "raw_list", "parsed_list"} : Begin(r, [NoRequest EXCEPT !.op = op])
  <2>1. PICK op \in {"page", "raw_list", "parsed_list"} : Begin(r, [NoRequest EXCEPT !.op = op])
    BY <1>3
  <2>2. op \in Ops /\ op \in ListOps
    BY DEF Ops, ListOps
  <2> DEFINE s0 == [NoRequest EXCEPT !.op = op]
  <2>3. Blank(s0) /\ s0.op = op /\ s0.msg = 0 /\ s0.asked = {} /\ s0.part = "none"
    BY <2>2, BlankFacts, Zenon DEF Blank, ReqRecord
  <2> HIDE DEF s0
  <2>4. In \/ Full
    <3>1. Begin(r, s0)
      BY <2>1 DEF s0
    <3>2. ASSUME NEW s, Begun(s, s0) PROVE Fresh(s)
      BY <2>2, <2>3, <3>2 DEF Fresh, Begun
    <3> QED
      BY <2>2, <2>3, <3>1, <3>2, BeginEffect
  <2> QED
    BY <1>1, <2>1, <2>4
<1>4. CASE \E op \in {"raw", "parsed", "delete_number"}, p \in told :
             Begin(r, [NoRequest EXCEPT !.op = op, !.number = p[1], !.asked = {p[2]}])
  <2>1. PICK op \in {"raw", "parsed", "delete_number"}, p \in told :
             Begin(r, [NoRequest EXCEPT !.op = op, !.number = p[1], !.asked = {p[2]}])
    BY <1>4, Zenon
  <2>2. op \in Ops /\ p[1] \in Nat /\ p[2] \in Messages
    BY DEF BaseInv, NumberTypes, Ops
  <2> DEFINE s0 == [NoRequest EXCEPT !.op = op, !.number = p[1], !.asked = {p[2]}]
  <2>3. Blank(s0) /\ s0.op = op /\ s0.msg = 0 /\ s0.number = p[1] /\ s0.asked = {p[2]}
        /\ s0.part = "none"
    BY <2>2, BlankFacts, Zenon DEF Blank, ReqRecord
  <2> HIDE DEF s0
  <2>4. In \/ Full
    <3>1. Begin(r, s0)
      BY <2>1 DEF s0
    <3>2. ASSUME NEW s, Begun(s, s0) PROVE Fresh(s)
      BY <2>2, <2>3, <3>2 DEF Fresh, Begun
    <3> QED
      BY <2>2, <2>3, <3>1, <3>2, BeginEffect
  <2> QED
    BY <1>1, <2>1, <2>4
<1> QED
  BY <1>2, <1>3, <1>4, <1>5, Zenon DEF Start

-----------------------------------------------------------------------------
(* Pages, and the numbers of their messages.                               *)

\* What a page holds: messages that are there, in order.
Listed(items) == items \in Seq(Live) /\ items # <<>> /\ Sorted(items)

PageFrom(offset) == First(PageLimit, SubSeq(Newest(Live), offset + 1, Len(Newest(Live))))
PagesListed == \A offset \in Nat : PageFrom(offset) # <<>> => Listed(PageFrom(offset))

\* What a step of numbering leaves of a request.
Same(s, t) ==
  /\ t \in ReqRecord /\ t.op = s.op /\ t.pool = s.pool /\ t.number = s.number /\ t.wrong = s.wrong
  /\ t.part = s.part
Paged(s, t, items) ==
  /\ Same(s, t) /\ t.todo = TNumber /\ t.page = items /\ t.queue = items /\ t.asked = Range(items)
  /\ t.msg = s.msg /\ t.ids = s.ids /\ t.own = s.own
Noted(s, t) ==
  /\ Same(s, t) /\ t.todo = s.todo /\ t.page = s.page /\ t.queue = s.queue /\ t.asked = s.asked
  /\ t.msg = Head(s.queue) /\ t.ids = s.ids /\ t.own = s.own
Known(s, t, m, n) ==
  /\ Same(s, t) /\ t.todo = s.todo /\ t.page = s.page /\ t.queue = Tail(s.queue) /\ t.asked = s.asked
  /\ t.msg = 0 /\ t.ids = Added(s.ids, m, n) /\ t.own = s.own
Given(s, t, m, n) ==
  /\ Same(s, t) /\ t.todo = s.todo /\ t.page = s.page /\ t.queue = Tail(s.queue) /\ t.asked = s.asked
  /\ t.msg = 0 /\ t.ids = Added(s.ids, m, n) /\ t.own = s.own \union {m}
Closed(s, t) ==
  /\ Same(s, t) /\ t.todo = s.todo /\ t.page = s.page /\ t.queue = s.queue /\ t.asked = s.asked
  /\ t.msg = s.msg /\ t.ids = <<>> /\ t.own = {}
Found(s, t, m) ==
  /\ Same(s, t) /\ t.todo = s.todo /\ t.page = s.page /\ t.queue = s.queue /\ t.asked = s.asked
  /\ t.msg = m /\ t.ids = s.ids /\ t.own = s.own

LEMMA Positions ==
  ASSUME NEW n, NEW i \in 0 .. n
  PROVE  i \in Nat
OBVIOUS

LEMMA ListEffect ==
  ASSUME BaseInv, PagesListed, NEW r \in Requests, ListMessagePage(r)
  PROVE  /\ UNCHANGED <<open, rows, gone, listed, files, numbers, sequence, told, walk>>
         /\ req[r].todo # <<>> /\ Head(req[r].todo) = "list"
         /\ \/ Ends(r, FALSE)
            \/ \E items, t : /\ Listed(items) /\ Paged(req[r], t, items) /\ Goes(r, t)
                             /\ t.op \in {"raw_list", "parsed_list"}
<1>1. /\ UNCHANGED <<open, rows, gone, listed, files, numbers, sequence, told, walk>>
      /\ req[r].todo # <<>> /\ Head(req[r].todo) = "list"
  BY DEF ListMessagePage, data, numbering, At
<1>2. PICK offset \in 0 .. Len(Newest(Live)) :
        LET sorted == Newest(Live)
            items == First(PageLimit, SubSeq(sorted, offset + 1, Len(sorted)))
            s == [req[r] EXCEPT !.page = items, !.queue = items, !.asked = Range(items)]
        IN IF req[r].op = "page" \/ items = <<>> THEN Reply(r, "ok")
           ELSE Become(r, [s EXCEPT !.todo = Tail(@)]) /\ UNCHANGED slots
  BY Zenon DEF ListMessagePage, Order
<1> DEFINE items == First(PageLimit, SubSeq(Newest(Live), offset + 1, Len(Newest(Live))))
<1>3. CASE req[r].op = "page" \/ items = <<>>
  <2>1. Reply(r, "ok")
    BY <1>2, <1>3
  <2>2. PICK b \in BOOLEAN : Ends(r, b) /\ (b => Denies(r, "ok"))
    BY <2>1, ReplyEffect
  <2>3. b = FALSE
    BY <2>2 DEF Denies
  <2> QED
    BY <1>1, <2>2, <2>3, Zenon
<1>4. CASE ~(req[r].op = "page" \/ items = <<>>)
  <2> DEFINE s == req[r]
             t == [[s EXCEPT !.page = items, !.queue = items, !.asked = Range(items)]
                     EXCEPT !.todo = Tail(@)]
             x == Tail(s.todo)
  <2>1. Goes(r, t)
    BY <1>2, <1>4 DEF Goes
  <2>2. Listed(items)
    <3>1. offset \in Nat
      BY Positions
    <3>2. items = PageFrom(offset) /\ items # <<>>
      BY <1>4 DEF PageFrom
    <3> HIDE DEF items
    <3> QED
      BY <3>1, <3>2 DEF PagesListed
  <2>3. s \in ReqRecord /\ Doing(s.op, s.todo)
    BY <1>1 DEF BaseInv, Shape
  <2>4. x = TNumber /\ s.op \in {"raw_list", "parsed_list"}
    <3>1. s.op \in {"raw_list", "parsed_list"}
      BY <1>1, <1>4, <2>3, TodoFacts DEF ListOps
    <3>2. s.todo = TListNumber
      BY <1>1, <2>3, <3>1, Heads DEF Doing
    <3> QED
      BY <3>1, <3>2, Tails
  <2>5. items \in Seq(Messages) /\ Range(items) \in SUBSET Messages
    <3> HIDE DEF items
    <3>1. items \in Seq(Live) /\ Live \subseteq Messages
      BY <2>2, LiveFacts DEF Listed, BaseInv
    <3>2. items \in Seq(Messages)
      BY <3>1
    <3> QED
      BY <3>2 DEF Range
  <2>6. TNumber \in Seq(Calls)
    BY Seqs
  <2> HIDE DEF s, items
  <2> DEFINE A == Range(items)
  <2> HIDE DEF A
  <2>7. /\ t \in ReqRecord /\ t.op = s.op /\ t.pool = s.pool /\ t.number = s.number /\ t.wrong = s.wrong
        /\ t.todo = x /\ t.page = items /\ t.queue = items /\ t.asked = A
        /\ t.msg = s.msg /\ t.ids = s.ids /\ t.own = s.own /\ t.part = s.part
    <3> HIDE DEF x
    <3>1. x \in Seq(Calls) /\ A \in SUBSET Messages
      BY <2>4, <2>5, <2>6 DEF A
    <3>2. t = [s EXCEPT !.page = items, !.queue = items, !.asked = A, !.todo = x]
      BY <2>3 DEF ReqRecord, A, x
    <3> HIDE DEF t
    <3> QED
      BY <2>3, <2>5, <3>1, <3>2, Zenon DEF ReqRecord
  <2>8. Paged(s, t, items)
    BY <2>4, <2>7 DEF Paged, Same, A
  <2> QED
    BY <1>1, <2>1, <2>2, <2>4, <2>7, <2>8, Zenon DEF s
<1> QED
  BY <1>3, <1>4, Zenon

LEMMA QueueFacts ==
  ASSUME BaseInv, NEW r \in Requests, req[r].queue # <<>>
  PROVE  Head(req[r].queue) \in Messages /\ Tail(req[r].queue) \in Seq(Messages)
BY DEF BaseInv, ReqRecord

LEMMA LookUpEffect ==
  ASSUME BaseInv, NEW r \in Requests, LookUp(r)
  PROVE  /\ UNCHANGED <<open, rows, gone, listed, files, numbers, sequence, told, walk>>
         /\ req[r].todo # <<>> /\ Head(req[r].todo) = "number" /\ req[r].queue # <<>> /\ req[r].msg = 0
         /\ \/ \E t : Noted(req[r], t) /\ Goes(r, t)
            \/ \E t, m : /\ m = Head(req[r].queue) /\ m \in DOMAIN numbers
                         /\ Known(req[r], t, m, numbers[m]) /\ Goes(r, t)
<1>1. /\ UNCHANGED <<open, rows, gone, listed, files, numbers, sequence, told, walk>>
      /\ req[r].todo # <<>> /\ Head(req[r].todo) = "number" /\ req[r].queue # <<>> /\ req[r].msg = 0
  BY DEF LookUp, data, numbering, At
<1> DEFINE s == req[r]
           m == Head(s.queue)
           y == Tail(s.queue)
<1>2. s \in ReqRecord /\ m \in Messages /\ y \in Seq(Messages)
  BY <1>1, QueueFacts DEF BaseInv
<1>3. CASE m \in DOMAIN numbers
  <2> DEFINE f == Over(s.ids, [x \in {m} |-> numbers[m]])
             t == [s EXCEPT !.queue = Tail(@), !.ids = Over(@, [x \in {m} |-> numbers[m]])]
  <2>1. Goes(r, t)
    BY <1>3 DEF LookUp, Goes
  <2>2. f \in Numberings
    <3>1. numbers[m] \in Nat /\ s.ids \in Numberings
      BY <1>2, <1>3, NumberingFacts DEF BaseInv, NumberTypes, ReqRecord
    <3> DEFINE g == [x \in {m} |-> numbers[m]]
    <3>2. g \in Numberings
      BY <1>2, <3>1, SingleFacts, Zenon
    <3> HIDE DEF g, s, m
    <3>3. Over(s.ids, g) \in Numberings
      BY <3>1, <3>2, OverFacts, Zenon
    <3> QED
      BY <3>3, Zenon DEF g
  <2>3. t = [s EXCEPT !.queue = y, !.ids = f]
    OBVIOUS
  <2> HIDE DEF t, s, f, y
  <2>4. Same(s, t) /\ t.todo = s.todo /\ t.page = s.page /\ t.queue = y /\ t.asked = s.asked
        /\ t.msg = s.msg /\ t.ids = f /\ t.own = s.own
    BY <1>2, <2>2, <2>3, Zenon DEF ReqRecord, Same
  <2>5. Known(s, t, m, numbers[m])
    BY <1>1, <2>4 DEF Known, s, y, f, Added
  <2> QED
    BY <1>1, <1>3, <2>1, <2>5 DEF s
<1>4. CASE m \notin DOMAIN numbers
  <2> DEFINE t == [s EXCEPT !.msg = m]
  <2>1. Goes(r, t)
    BY <1>4 DEF LookUp, Goes
  <2> HIDE DEF s, m
  <2>2. Noted(s, t)
    BY <1>2, Zenon DEF ReqRecord, Same, Noted, m
  <2> QED
    BY <1>1, <2>1, <2>2 DEF s
<1> QED
  BY <1>3, <1>4

LEMMA InsertEffect ==
  ASSUME BaseInv, NEW r \in Requests, InsertNumber(r)
  PROVE  LET m == req[r].msg
         IN /\ UNCHANGED <<open, rows, gone, listed, files, numbers, told, walk>>
            /\ req[r].todo # <<>> /\ Head(req[r].todo) = "number"
            /\ req[r].queue # <<>> /\ m = Head(req[r].queue) /\ m \in Messages /\ ~Numbering(m)
            /\ \/ /\ m \in DOMAIN rows \ DOMAIN numbers /\ sequence' = sequence + 1
                  /\ \E t : Given(req[r], t, m, sequence + 1) /\ Goes(r, t)
               \/ /\ m \in DOMAIN numbers /\ UNCHANGED sequence
                  /\ \E t : Known(req[r], t, m, numbers[m]) /\ Goes(r, t)
               \/ /\ m \notin DOMAIN rows /\ UNCHANGED sequence
                  /\ \E b \in BOOLEAN : Ends(r, b) /\ (b => open /\ req[r].asked \intersect gone = {})
<1> DEFINE s == req[r]
           m == s.msg
           y == Tail(s.queue)
           Tells == \/ /\ m \in DOMAIN rows \ DOMAIN numbers /\ sequence' = sequence + 1
                       /\ \E t : Given(req[r], t, m, sequence + 1) /\ Goes(r, t)
                    \/ /\ m \in DOMAIN numbers /\ UNCHANGED sequence
                       /\ \E t : Known(req[r], t, m, numbers[m]) /\ Goes(r, t)
                    \/ /\ m \notin DOMAIN rows /\ UNCHANGED sequence
                       /\ \E b \in BOOLEAN : Ends(r, b) /\ (b => open /\ req[r].asked \intersect gone = {})
<1>1. /\ UNCHANGED <<open, rows, gone, listed, files, numbers, told, walk>>
      /\ s.todo # <<>> /\ Head(s.todo) = "number" /\ ~Numbering(m) /\ m # 0
  BY DEF InsertNumber, data, At
<1>2. s.queue # <<>> /\ m = Head(s.queue)
  BY <1>1, Zenon DEF BaseInv, Shape
<1>3. s \in ReqRecord /\ m \in Messages /\ y \in Seq(Messages)
  BY <1>2, QueueFacts DEF BaseInv
<1>4. ASSUME NEW n \in Nat
      PROVE  LET f == Over(s.ids, [x \in {m} |-> n])
                 t == Numbered(r, m, n)
             IN /\ f \in Numberings /\ t \in ReqRecord /\ Same(s, t)
                /\ t.todo = s.todo /\ t.page = s.page /\ t.queue = y
                /\ t.asked = s.asked /\ t.msg = 0 /\ t.ids = f /\ t.own = s.own
  <2> DEFINE f == Over(s.ids, [x \in {m} |-> n])
             t == Numbered(r, m, n)
  <2>1. f \in Numberings
    <3>1. s.ids \in Numberings
      BY <1>3 DEF ReqRecord
    <3> DEFINE g == [x \in {m} |-> n]
    <3>2. g \in Numberings
      BY <1>3, SingleFacts, Zenon
    <3> HIDE DEF g, s, m
    <3>3. Over(s.ids, g) \in Numberings
      BY <3>1, <3>2, OverFacts, Zenon
    <3> QED
      BY <3>3, Zenon DEF g
  <2>2. t = [s EXCEPT !.queue = y, !.msg = 0, !.ids = f]
    BY DEF Numbered
  <2> HIDE DEF t, s, f, y, m
  <2>3. /\ t \in ReqRecord /\ Same(s, t) /\ t.todo = s.todo /\ t.page = s.page /\ t.queue = y
        /\ t.asked = s.asked /\ t.msg = 0 /\ t.ids = f /\ t.own = s.own
    BY <1>3, <2>1, <2>2, Zenon DEF ReqRecord, Same
  <2> QED
    BY <2>1, <2>3, Zenon DEF t, f
<1>5. CASE m \in DOMAIN rows \ DOMAIN numbers
  <2> DEFINE n == sequence + 1
             t == [Numbered(r, m, n) EXCEPT !.own = @ \union {m}]
             v == Numbered(r, m, n)
             f == Over(s.ids, [x \in {m} |-> n])
  <2>1. Inserted(r, m)
    BY <1>5 DEF InsertNumber, InsertOrSelect
  <2>2. Goes(r, t) /\ sequence' = n /\ n \in Nat
    BY <2>1 DEF Inserted, NextNumber, Goes, BaseInv, NumberTypes
  <2>3. /\ v \in ReqRecord /\ Same(s, v) /\ v.todo = s.todo /\ v.page = s.page /\ v.queue = y
        /\ v.asked = s.asked /\ v.msg = 0 /\ v.ids = f /\ v.own = s.own
    BY <1>4, <2>2, Zenon
  <2>4. t = [v EXCEPT !.own = v.own \union {m}]
    OBVIOUS
  <2>5. v.own \union {m} \in SUBSET Messages
    BY <1>3, <2>3, Zenon DEF ReqRecord
  <2> HIDE DEF v, f, t
  <2>6. Same(s, t) /\ t.todo = s.todo /\ t.page = s.page /\ t.queue = y
        /\ t.asked = s.asked /\ t.msg = 0 /\ t.ids = f /\ t.own = s.own \union {m}
    BY <2>3, <2>4, <2>5, Zenon DEF ReqRecord, Same
  <2>7. Given(s, t, m, n)
    BY <2>6 DEF Given, f, Added
  <2> HIDE DEF n
  <2>8. \E u : Given(req[r], u, m, sequence + 1) /\ Goes(r, u)
    BY <2>2, <2>7 DEF n
  <2>9. Tells
    BY <1>5, <2>2, <2>8 DEF n
  <2> QED
    BY <1>1, <1>2, <1>3, <2>9, Zenon
<1>6. CASE m \in DOMAIN numbers
  <2> DEFINE n == numbers[m]
             t == Numbered(r, m, n)
  <2>1. Goes(r, t) /\ UNCHANGED sequence
    BY <1>6, Zenon DEF InsertNumber, InsertOrSelect, Goes
  <2>2. n \in Nat
    BY <1>6, NumberingFacts DEF BaseInv, NumberTypes
  <2>3. Known(s, t, m, n)
    BY <1>4, <2>2, Zenon DEF Known, Added
  <2> HIDE DEF t
  <2>4. Tells
    BY <1>6, <2>1, <2>3
  <2> QED
    BY <1>1, <1>2, <1>3, <2>4, Zenon
<1>7. CASE m \notin DOMAIN rows /\ m \notin DOMAIN numbers
  <2>1. Reply(r, "error") /\ UNCHANGED sequence
    BY <1>7, Zenon DEF InsertNumber, InsertOrSelect, NotNumbered
  <2>2. \E b \in BOOLEAN : Ends(r, b) /\ (b => open /\ req[r].asked \intersect gone = {})
    BY <2>1, ReplyEffect
  <2>3. Tells
    BY <1>7, <2>1, <2>2
  <2> QED
    BY <1>1, <1>2, <1>3, <2>3, Zenon
<1> QED
  BY <1>5, <1>6, <1>7, Zenon

LEMMA CommitEffect ==
  ASSUME BaseInv, NEW r \in Requests, CommitNumbers(r)
  PROVE  /\ UNCHANGED <<open, rows, gone, listed, files, sequence, walk>>
         /\ req[r].todo # <<>> /\ Head(req[r].todo) = "number" /\ req[r].queue = <<>>
         /\ numbers' = Over([m \in req[r].own |-> req[r].ids[m]], numbers)
         /\ told' = told \union {<<req[r].ids[m], m>> : m \in DOMAIN req[r].ids}
         /\ \E c : Closed(req[r], c) /\ GoesOn(r, c)
<1> DEFINE s == req[r]
           c == [s EXCEPT !.own = {}, !.ids = <<>>]
<1>1. /\ UNCHANGED <<open, rows, gone, listed, files, sequence, walk>>
      /\ req[r].todo # <<>> /\ Head(req[r].todo) = "number" /\ req[r].queue = <<>>
      /\ numbers' = Over([m \in req[r].own |-> req[r].ids[m]], numbers)
      /\ told' = told \union {<<req[r].ids[m], m>> : m \in DOMAIN req[r].ids}
  BY DEF CommitNumbers, data, At
<1>2. GoesOn(r, c)
  BY ContinueEffect DEF CommitNumbers
<1>3. s \in ReqRecord /\ <<>> \in Numberings
  BY BlankFacts, Zenon DEF BaseInv, Blank, ReqRecord
<1> HIDE DEF s
<1>4. Closed(s, c)
  BY <1>3, Zenon DEF Closed, Same, ReqRecord
<1> HIDE DEF c
<1> QED
  BY <1>1, <1>2, <1>4, Zenon DEF s

LEMMA UnconfirmedEffect ==
  ASSUME NEW r \in Requests, CommitUnconfirmed(r)
  PROVE  /\ UNCHANGED <<open, rows, gone, listed, files, sequence, told, walk>>
         /\ req[r].todo # <<>> /\ Head(req[r].todo) = "number"
         /\ numbers' = Over([m \in req[r].own |-> req[r].ids[m]], numbers)
         /\ Ends(r, FALSE)
<1>1. /\ UNCHANGED <<open, rows, gone, listed, files, sequence, told, walk>>
      /\ req[r].todo # <<>> /\ Head(req[r].todo) = "number"
      /\ numbers' = Over([m \in req[r].own |-> req[r].ids[m]], numbers)
  BY DEF CommitUnconfirmed, data, At
<1>2. PICK b \in BOOLEAN : Ends(r, b) /\ (b => Denies(r, "fault"))
  <2>1. Reply(r, "fault")
    BY DEF CommitUnconfirmed
  <2> QED
    BY <2>1, ReplyEffect
<1>3. b = FALSE
  BY <1>2 DEF Denies
<1> QED
  BY <1>1, <1>2, <1>3, Zenon

LEMMA FindEffect ==
  ASSUME BaseInv, NEW r \in Requests, FindNumber(r)
  PROVE  /\ UNCHANGED <<open, rows, gone, listed, files, numbers, sequence, told, walk>>
         /\ req[r].todo # <<>> /\ Head(req[r].todo) = "find"
         /\ \/ \E m \in DOMAIN numbers : /\ numbers[m] = req[r].number
                                         /\ \E c : Found(req[r], c, m) /\ GoesOn(r, c)
            \/ /\ \A m \in DOMAIN numbers : numbers[m] # req[r].number
               /\ \E b \in BOOLEAN : Ends(r, b) /\ (b => open /\ req[r].asked \intersect gone = {})
<1>1. /\ UNCHANGED <<open, rows, gone, listed, files, numbers, sequence, told, walk>>
      /\ req[r].todo # <<>> /\ Head(req[r].todo) = "find"
  BY DEF FindNumber, data, numbering, At
<1>2. ASSUME NEW m \in DOMAIN numbers, Continue(r, [req[r] EXCEPT !.msg = m])
      PROVE  \E c : Found(req[r], c, m) /\ GoesOn(r, c)
  <2> DEFINE s == req[r]
             c == [s EXCEPT !.msg = m]
  <2>1. GoesOn(r, c)
    BY <1>2, ContinueEffect
  <2>2. s \in ReqRecord /\ m \in Messages
    BY NumberingFacts DEF BaseInv, NumberTypes
  <2> HIDE DEF s
  <2>3. Found(s, c, m)
    BY <2>2, Zenon DEF Found, Same, ReqRecord
  <2> QED
    BY <2>1, <2>3 DEF s
<1>3. ASSUME Reply(r, "missing")
      PROVE  \E b \in BOOLEAN : Ends(r, b) /\ (b => open /\ req[r].asked \intersect gone = {})
  BY <1>3, ReplyEffect
<1>4. \/ \E m \in DOMAIN numbers : numbers[m] = req[r].number /\ Continue(r, [req[r] EXCEPT !.msg = m])
      \/ (\A m \in DOMAIN numbers : numbers[m] # req[r].number) /\ Reply(r, "missing")
  BY Zenon DEF FindNumber, Missing
<1> QED
  BY <1>1, <1>2, <1>3, <1>4, Zenon

-----------------------------------------------------------------------------
(* What a handler is at: preserved by every step.                          *)

SlotTypes == slots \in [{"heavy", "cf"} -> Int]
\* What the requests have inserted stays there.
OwnKept == \A r \in Requests : req[r].own \subseteq DOMAIN rows'

LEMMA SlotTypesKept ==
  ASSUME BaseInv, NEW r \in Requests, Freed(r) \/ (\E s \in ReqRecord : Take(s.pool)) \/ UNCHANGED slots
  PROVE  SlotTypes'
<1>1. req[r].pool \in {"none", "heavy", "cf"} /\ SlotTypes
  BY DEF BaseInv, ReqRecord, SlotTypes
<1>2. CASE Freed(r)
  BY <1>1, <1>2 DEF Freed, Release, SlotTypes
<1>3. CASE \E s \in ReqRecord : Take(s.pool)
  <2>1. PICK p \in {"none", "heavy", "cf"} : Take(p)
    BY <1>3 DEF ReqRecord
  <2> QED
    BY <1>1, <2>1 DEF Take, SlotTypes
<1>4. CASE UNCHANGED slots
  BY <1>1, <1>4 DEF SlotTypes
<1> QED
  BY <1>2, <1>3, <1>4

LEMMA BaseKept ==
  ASSUME BaseInv, NEW r \in Requests, NEW t, t \in ReqRecord, Shape(t), Become(r, t),
         DataTypes', NumberTypes', SlotTypes', OwnKept, t.own \subseteq DOMAIN rows'
  PROVE  BaseInv'
<1>1. req' \in [Requests -> ReqRecord]
  BY DEF BaseInv, Become
<1>2. \A q \in Requests : Shape(req'[q]) /\ req'[q].own \subseteq DOMAIN rows'
  BY DEF BaseInv, Become, OwnKept
<1> QED
  BY <1>1, <1>2 DEF BaseInv, SlotTypes

LEMMA BaseQuiet ==
  ASSUME BaseInv, DataTypes', NumberTypes', OwnKept, UNCHANGED <<slots, req>>
  PROVE  BaseInv'
BY DEF BaseInv, OwnKept

LEMMA BaseEnds ==
  ASSUME BaseInv, NEW r \in Requests, NEW b \in BOOLEAN, Ends(r, b), DataTypes', NumberTypes', OwnKept
  PROVE  BaseInv'
BY EndedFacts, SlotTypesKept, BaseKept DEF Ends

LEMMA BaseGoes ==
  ASSUME BaseInv, NEW r \in Requests, NEW t, t \in ReqRecord, Shape(t), Goes(r, t),
         DataTypes', NumberTypes', OwnKept, t.own \subseteq DOMAIN rows'
  PROVE  BaseInv'
BY SlotTypesKept, BaseKept DEF Goes

LEMMA BaseGoesOn ==
  ASSUME BaseInv, NEW r \in Requests, NEW s, s \in ReqRecord, Shape(s), s.todo # <<>>,
         Head(s.todo) # "list", GoesOn(r, s), DataTypes', NumberTypes',
         OwnKept, s.own \subseteq DOMAIN rows'
  PROVE  BaseInv'
<1>1. CASE Ends(r, FALSE)
  BY <1>1, BaseEnds, Zenon
<1>2. ASSUME NEW t, Advanced(s, t), Goes(r, t)
      PROVE  BaseInv'
  <2>1. t \in ReqRecord /\ Shape(t) /\ t.own = s.own
    BY <1>2, AdvancedFacts
  <2> QED
    BY <1>2, <2>1, BaseGoes
<1> QED
  BY <1>1, <1>2, Zenon DEF GoesOn

LEMMA SameNumbers ==
  ASSUME NumberTypes, UNCHANGED <<rows, numbers, sequence, told>>
  PROVE  NumberTypes'
BY DEF NumberTypes

LEMMA DroppedTypes ==
  ASSUME DataTypes, NumberTypes, NEW ms \in SUBSET DOMAIN rows, Dropped(ms), open' \in BOOLEAN,
         UNCHANGED <<files, sequence, told>>
  PROVE  DataTypes' /\ NumberTypes'
<1>1. DataTypes'
  BY DroppedData
<1>2. numbers' \in [DOMAIN numbers \ ms -> Nat] /\ DOMAIN numbers \ ms \in SUBSET Messages
  BY NumberingFacts DEF Dropped, NumberTypes
<1>3. numbers' \in Numberings
  BY <1>2, NumberingIs
<1>4. DOMAIN numbers' \subseteq DOMAIN rows'
  BY <1>2 DEF Dropped, NumberTypes
<1> QED
  BY <1>1, <1>3, <1>4 DEF NumberTypes

\* The steps of the mail system and of the walk, on the tables.
Outside ==
  \/ \E m \in Messages : Arrive(m) \/ Parsed(m)
  \/ EndInbox \/ SweepFile \/ StartWalk \/ NextPage

LEMMA OutsideTypes ==
  ASSUME BaseInv, Outside
  PROVE  DataTypes' /\ NumberTypes' /\ OwnKept /\ UNCHANGED <<slots, req>>
<1>1. ASSUME NEW m \in Messages, Arrive(m)
      PROVE  DataTypes' /\ NumberTypes' /\ OwnKept /\ UNCHANGED <<slots, req>>
  <2>2. DataTypes' /\ DOMAIN rows' = DOMAIN rows \union {m}
    BY <1>1, ArriveData DEF BaseInv
  <2>4. NumberTypes'
    BY <1>1, <2>2 DEF Arrive, BaseInv, NumberTypes, numbering
  <2>5. OwnKept
    BY <2>2 DEF OwnKept, BaseInv
  <2> QED
    BY <1>1, <2>2, <2>4, <2>5 DEF Arrive
<1>2. CASE EndInbox
  <2>1. UNCHANGED <<slots, req, files, sequence, told>> /\ open' \in BOOLEAN
    BY <1>2, Zenon DEF EndInbox
  <2>2. CASE Drop(DOMAIN rows) /\ \A m \in DOMAIN rows : ~Numbering(m)
    <3>1. Dropped(DOMAIN rows)
      BY <2>2 DEF Drop, Dropped
    <3>2. CASE \A m \in DOMAIN rows : ~Numbering(m)
      <4>1. OwnKept
        BY <3>2 DEF OwnKept, BaseInv, Numbering
      <4> QED
        BY <2>1, <3>1, <4>1, DroppedTypes DEF BaseInv
    <3> QED
      BY <2>2, <3>2
  <2>3. CASE UNCHANGED <<rows, gone, seen, listed, numbers>>
    <3>1. DataTypes'
      BY <2>1, <2>3 DEF BaseInv, DataTypes, RowTypes
    <3> QED
      BY <2>1, <2>3, <3>1, SameNumbers DEF BaseInv, OwnKept
  <2> QED
    BY <1>2, <2>2, <2>3 DEF EndInbox
<1>3. CASE SweepFile
  <2>1. UNCHANGED <<open, rows, gone, numbers, sequence, told, slots, req>> /\ \E m \in gone : files' = files \ {m}
    BY <1>3 DEF SweepFile, numbering
  <2>2. DataTypes'
    BY <2>1 DEF BaseInv, DataTypes, RowTypes
  <2> QED
    BY <2>1, <2>2, SameNumbers DEF BaseInv, OwnKept
<1>4. CASE StartWalk \/ NextPage \/ \E m \in Messages : Parsed(m)
  <2>1. UNCHANGED <<open, rows, gone, files, numbers, sequence, told, slots, req>>
    BY <1>4 DEF StartWalk, NextPage, Parsed, data, numbering
  <2> QED
    BY <2>1, SameData, SameNumbers DEF BaseInv, OwnKept
<1> QED
  BY <1>1, <1>2, <1>3, <1>4 DEF Outside

LEMMA NumberDoing ==
  ASSUME NEW s, Shape(s), s.todo # <<>>, Head(s.todo) = "number"
  PROVE  s.todo = TNumber /\ s.op \in {"raw_list", "parsed_list"} /\ Doing(s.op, TNumber)
<1>1. Doing(s.op, s.todo)
  BY DEF Shape
<1> QED
  BY <1>1, TodoFacts

\* The records that the steps of numbering leave have the shape of a handler.
LEMMA PagedShape ==
  ASSUME NEW s, Shape(s), s.todo # <<>>, Head(s.todo) = "list", NEW t, NEW items,
         Paged(s, t, items), t.op \in {"raw_list", "parsed_list"}
  PROVE  Shape(t)
<1>1. s.msg = 0 /\ s.own \subseteq DOMAIN s.ids
  BY DEF Shape, Unfocused
<1>2. Doing(t.op, TNumber)
  BY DEF Doing
<1> QED
  BY <1>1, <1>2, Heads DEF Paged, Same, Shape

LEMMA NumberedShape ==
  ASSUME NEW s \in ReqRecord, Shape(s), s.todo # <<>>, Head(s.todo) = "number", s.queue # <<>>, NEW t
  PROVE  /\ Noted(s, t) => Shape(t)
         /\ \A m \in Messages, n \in Nat : Known(s, t, m, n) \/ Given(s, t, m, n) => Shape(t)
<1>1. /\ Doing(s.op, s.todo) /\ s.own \subseteq DOMAIN s.ids
      /\ s.page # <<>> => s.op \in {"raw_list", "parsed_list"}
      /\ s.part # "none" => s.op = "attachment"
  BY DEF Shape
<1>2. ASSUME Noted(s, t) PROVE Shape(t)
  BY <1>1, <1>2 DEF Shape, Noted, Same
<1>3. ASSUME NEW m \in Messages, NEW n \in Nat, Known(s, t, m, n) \/ Given(s, t, m, n)
      PROVE  Shape(t)
  <2>1. DOMAIN t.ids = DOMAIN s.ids \union {m}
    <3>1. s.ids \in Numberings
      BY DEF ReqRecord
    <3>2. DOMAIN Added(s.ids, m, n) = DOMAIN s.ids \union {m}
      BY <3>1, AddedFacts, Zenon
    <3> QED
      BY <1>3, <3>2 DEF Known, Given
  <2>2. t.own \subseteq s.own \union {m}
    BY <1>3 DEF Known, Given
  <2>3. t.todo = s.todo /\ t.op = s.op /\ t.page = s.page /\ t.msg = 0 /\ t.part = s.part
    BY <1>3 DEF Known, Given, Same
  <2> QED
    BY <1>1, <2>1, <2>2, <2>3 DEF Shape
<1> QED
  BY <1>2, <1>3

LEMMA ClosedShape ==
  ASSUME NEW s, Shape(s), NEW c, Closed(s, c)
  PROVE  Shape(c)
BY DEF Closed, Same, Shape

LEMMA FoundShape ==
  ASSUME NEW s, Shape(s), s.todo # <<>>, Head(s.todo) = "find", NEW c, NEW m, Found(s, c, m)
  PROVE  Shape(c)
BY DEF Found, Same, Shape

LEMMA CommittedTypes ==
  ASSUME BaseInv, NEW r \in Requests,
         UNCHANGED <<rows, sequence>>,
         numbers' = Over([m \in req[r].own |-> req[r].ids[m]], numbers),
         told' = told \/ told' = told \union {<<req[r].ids[m], m>> : m \in DOMAIN req[r].ids}
  PROVE  NumberTypes'
<1>1. /\ req[r].ids \in Numberings /\ req[r].own \in SUBSET Messages
      /\ req[r].own \subseteq DOMAIN req[r].ids /\ req[r].own \subseteq DOMAIN rows
  BY DEF BaseInv, ReqRecord, Shape
<1> DEFINE f == [m \in req[r].own |-> req[r].ids[m]]
<1>2. f \in [req[r].own -> Nat]
  BY <1>1, NumberingFacts
<1>3. f \in Numberings /\ numbers \in Numberings /\ DOMAIN numbers \subseteq DOMAIN rows
  BY <1>1, <1>2, NumberingIs DEF BaseInv, NumberTypes
<1>4. numbers' \in Numberings /\ DOMAIN numbers' = req[r].own \union DOMAIN numbers
  BY <1>3, OverFacts, Zenon
<1>5. told' \subseteq Nat \X Messages
  <2>1. \A m \in DOMAIN req[r].ids : req[r].ids[m] \in Nat /\ m \in Messages
    BY <1>1, NumberingFacts
  <2>2. told \subseteq Nat \X Messages
    BY DEF BaseInv, NumberTypes
  <2>3. {<<req[r].ids[m], m>> : m \in DOMAIN req[r].ids} \subseteq Nat \X Messages
    BY <2>1
  <2> QED
    BY <2>2, <2>3
<1> QED
  BY <1>1, <1>3, <1>4, <1>5 DEF BaseInv, NumberTypes

LEMMA BaseInit ==
  ASSUME Init
  PROVE  BaseInv
<1>1. Blank(NoRequest) /\ NoRequest.todo = <<>> /\ NoRequest.part = "none"
  BY BlankFacts DEF NoRequest
<1>2. NoRequest \in ReqRecord /\ Shape(NoRequest) /\ NoRequest.own = {}
  BY <1>1 DEF Blank, Shape
<1>3. <<>> \in Numberings /\ DOMAIN <<>> = {}
  BY <1>1 DEF Blank, ReqRecord
<1>4. req \in [Requests -> ReqRecord] /\ \A r \in Requests : Shape(req[r]) /\ req[r].own \subseteq DOMAIN rows
  BY <1>2 DEF Init
<1>5. DataTypes
  BY <1>3 DEF Init, DataTypes, RowTypes
<1>6. NumberTypes
  BY <1>3 DEF Init, NumberTypes
<1>7. slots \in [{"heavy", "cf"} -> Int]
  BY DEF Init
<1> QED
  BY <1>4, <1>5, <1>6, <1>7 DEF BaseInv

LEMMA StepCases ==
  ASSUME Next
  PROVE  \/ Outside
         \/ \E r \in Requests :
              \/ Start(r) \/ Reads(r) \/ DeleteMessage(r) \/ ListMessagePage(r) \/ LookUp(r)
              \/ InsertNumber(r) \/ CommitNumbers(r) \/ FindNumber(r) \/ CommitUnconfirmed(r)
BY DEF Next, Step, Outside, Reads

LEMMA BaseStep ==
  ASSUME BaseInv, PagesListed, [Next]_vars
  PROVE  BaseInv'
<1>1. CASE UNCHANGED vars
  BY <1>1, SameData, SameNumbers, BaseQuiet DEF vars, data, numbering, BaseInv, OwnKept
<1>2. CASE Outside
  BY <1>2, OutsideTypes, BaseQuiet
<1>3. ASSUME UNCHANGED <<open, rows, gone, files, numbers, sequence, told>>
      PROVE  DataTypes' /\ NumberTypes' /\ OwnKept /\ \A q \in Requests : req[q].own \subseteq DOMAIN rows'
  BY <1>3, SameData, SameNumbers DEF BaseInv, OwnKept
<1>4. ASSUME NEW r \in Requests, Start(r)
      PROVE  BaseInv'
  <2>1. DataTypes' /\ NumberTypes' /\ OwnKept
    BY <1>3, <1>4, StartEffect
  <2>2. ASSUME NEW s, Fresh(s), Enters(r, s)
        PROVE  BaseInv'
    <3>1. s \in ReqRecord /\ Shape(s) /\ s.own = {} /\ Become(r, s) /\ Take(s.pool)
      BY <2>2 DEF Fresh, Blank, Enters
    <3>2. SlotTypes'
      BY <3>1, SlotTypesKept
    <3> QED
      BY <2>1, <3>1, <3>2, BaseKept
  <2>3. CASE TurnedAway(r)
    <3>1. Ended(FALSE) \in ReqRecord /\ Shape(Ended(FALSE)) /\ Ended(FALSE).own = {} /\ Goes(r, Ended(FALSE))
      BY <2>3, EndedFacts, Zenon DEF TurnedAway, Goes
    <3> QED
      BY <2>1, <3>1, BaseGoes, Zenon
  <2> QED
    BY <1>4, <2>2, <2>3, StartEffect
<1>5. ASSUME NEW r \in Requests, Reads(r)
      PROVE  BaseInv'
  <2>1. DataTypes' /\ NumberTypes' /\ OwnKept /\ req[r].own \subseteq DOMAIN rows'
    BY <1>3, <1>5, ReadEffect, Zenon
  <2>2. req[r] \in ReqRecord /\ Shape(req[r]) /\ req[r].todo # <<>>
    BY <1>5, ReadEffect, Zenon DEF BaseInv
  <2>3. CASE GoesOn(r, req[r]) /\ Head(req[r].todo) \notin {"find", "list", "number"}
    BY <2>1, <2>2, <2>3, BaseGoesOn, Zenon
  <2>4. CASE \E b \in BOOLEAN : Ends(r, b)
    BY <2>1, <2>4, BaseEnds
  <2> QED
    BY <1>5, <2>3, <2>4, ReadEffect
<1>6. ASSUME NEW r \in Requests, DeleteMessage(r)
      PROVE  BaseInv'
  <2>1. /\ req[r] \in ReqRecord /\ Shape(req[r]) /\ req[r].todo # <<>> /\ Head(req[r].todo) = "remove"
        /\ UNCHANGED <<open, files, sequence, told>> /\ ~Numbering(req[r].msg)
    BY <1>6, DeleteEffect, Zenon DEF BaseInv
  <2>2. CASE req[r].msg \in Live /\ Dropped({req[r].msg}) /\ GoesOn(r, req[r])
    <3>1. {req[r].msg} \in SUBSET DOMAIN rows /\ open' \in BOOLEAN
      BY <2>1, <2>2, Zenon DEF Live, BaseInv, DataTypes
    <3>2. DataTypes' /\ NumberTypes'
      BY <2>1, <2>2, <3>1, DroppedTypes DEF BaseInv
    <3>3. OwnKept /\ req[r].own \subseteq DOMAIN rows'
      BY <2>1, <2>2 DEF Numbering, Dropped, OwnKept, BaseInv
    <3> QED
      BY <2>1, <2>2, <3>2, <3>3, BaseGoesOn
  <2>3. CASE UNCHANGED <<rows, gone, numbers>> /\ \E b \in BOOLEAN : Ends(r, b)
    BY <1>3, <2>1, <2>3, BaseEnds
  <2> QED
    BY <1>6, <2>2, <2>3, DeleteEffect
<1>7. ASSUME NEW r \in Requests, ListMessagePage(r)
      PROVE  BaseInv'
  <2>1. DataTypes' /\ NumberTypes' /\ OwnKept /\ req[r].own \subseteq DOMAIN rows'
    BY <1>3, <1>7, ListEffect, Zenon
  <2>2. Shape(req[r]) /\ req[r].todo # <<>> /\ Head(req[r].todo) = "list"
    BY <1>7, ListEffect, Zenon DEF BaseInv
  <2>3. ASSUME NEW items, NEW t, Paged(req[r], t, items), Goes(r, t), t.op \in {"raw_list", "parsed_list"}
        PROVE  BaseInv'
    <3>1. t \in ReqRecord /\ Shape(t) /\ t.own = req[r].own
      BY <2>2, <2>3, PagedShape DEF Paged, Same
    <3> QED
      BY <2>1, <2>3, <3>1, BaseGoes
  <2> QED
    BY <1>7, <2>1, <2>3, ListEffect, BaseEnds, Zenon
<1>8. ASSUME NEW r \in Requests, LookUp(r)
      PROVE  BaseInv'
  <2>1. DataTypes' /\ NumberTypes' /\ OwnKept /\ req[r].own \subseteq DOMAIN rows'
    BY <1>3, <1>8, LookUpEffect, Zenon
  <2>2. /\ req[r] \in ReqRecord /\ Shape(req[r]) /\ req[r].todo # <<>> /\ Head(req[r].todo) = "number"
        /\ req[r].queue # <<>>
    BY <1>8, LookUpEffect, Zenon DEF BaseInv
  <2>3. ASSUME NEW t, Noted(req[r], t), Goes(r, t)
        PROVE  BaseInv'
    <3>1. t \in ReqRecord /\ Shape(t) /\ t.own = req[r].own
      BY <2>2, <2>3, NumberedShape, Zenon DEF Noted, Same
    <3> QED
      BY <2>1, <2>3, <3>1, BaseGoes, Zenon
  <2>4. ASSUME NEW t, NEW m \in DOMAIN numbers, Known(req[r], t, m, numbers[m]), Goes(r, t)
        PROVE  BaseInv'
    <3>1. m \in Messages /\ numbers[m] \in Nat
      BY NumberingFacts DEF BaseInv, NumberTypes
    <3>2. t \in ReqRecord /\ Shape(t) /\ t.own = req[r].own
      BY <2>2, <2>4, <3>1, NumberedShape, Zenon DEF Known, Same
    <3> QED
      BY <2>1, <2>4, <3>2, BaseGoes, Zenon
  <2> QED
    BY <1>8, <2>3, <2>4, LookUpEffect, Zenon
<1>9. ASSUME NEW r \in Requests, InsertNumber(r)
      PROVE  BaseInv'
  <2> DEFINE m == req[r].msg
  <2>1. /\ req[r] \in ReqRecord /\ Shape(req[r]) /\ req[r].todo # <<>> /\ Head(req[r].todo) = "number"
        /\ req[r].queue # <<>> /\ m \in Messages /\ UNCHANGED <<open, rows, gone, listed, files, numbers, told>>
    BY <1>9, InsertEffect, Zenon DEF BaseInv
  <2>2. DataTypes' /\ OwnKept /\ req[r].own \subseteq DOMAIN rows'
    BY <2>1, SameData, Zenon DEF BaseInv, OwnKept
  <2>3. UNCHANGED sequence \/ sequence' = sequence + 1 => NumberTypes'
    <3>1. /\ numbers \in Numberings /\ DOMAIN numbers \subseteq DOMAIN rows
          /\ sequence \in Nat /\ told \subseteq Nat \X Messages
      BY Zenon DEF BaseInv, NumberTypes
    <3>2. rows' = rows /\ numbers' = numbers /\ told' = told
      BY <2>1, Zenon
    <3>3. UNCHANGED sequence \/ sequence' = sequence + 1 => sequence' \in Nat
      BY <3>1, Following, Zenon
    <3> QED
      BY <3>1, <3>2, <3>3, Zenon DEF NumberTypes
  <2>4. ASSUME NEW t, m \in DOMAIN rows, sequence' = sequence + 1, Given(req[r], t, m, sequence + 1), Goes(r, t)
        PROVE  BaseInv'
    <3>1. sequence + 1 \in Nat
      BY DEF BaseInv, NumberTypes
    <3>2. t \in ReqRecord /\ Shape(t) /\ t.own = req[r].own \union {m}
      BY <2>1, <2>4, <3>1, NumberedShape, Zenon DEF Given, Same
    <3>3. t.own \subseteq DOMAIN rows'
      BY <2>1, <2>2, <2>4, <3>2
    <3> QED
      BY <2>2, <2>3, <2>4, <3>2, <3>3, BaseGoes, Zenon
  <2>5. ASSUME NEW t, m \in DOMAIN numbers, UNCHANGED sequence, Known(req[r], t, m, numbers[m]), Goes(r, t)
        PROVE  BaseInv'
    <3>1. numbers[m] \in Nat
      BY <2>5, NumberingFacts DEF BaseInv, NumberTypes
    <3>2. t \in ReqRecord /\ Shape(t) /\ t.own = req[r].own
      BY <2>1, <2>5, <3>1, NumberedShape, Zenon DEF Known, Same
    <3> QED
      BY <2>2, <2>3, <2>5, <3>2, BaseGoes, Zenon
  <2>6. ASSUME NEW b \in BOOLEAN, Ends(r, b), UNCHANGED sequence
        PROVE  BaseInv'
    BY <2>2, <2>3, <2>6, BaseEnds, Zenon
  <2> QED
    BY <1>9, <2>4, <2>5, <2>6, InsertEffect, Zenon
<1>10. ASSUME NEW r \in Requests, CommitNumbers(r)
       PROVE  BaseInv'
  <2>1. PICK c : Closed(req[r], c) /\ GoesOn(r, c)
    BY <1>10, CommitEffect, Zenon
  <2>2. /\ Shape(req[r]) /\ req[r].todo # <<>> /\ Head(req[r].todo) = "number"
        /\ UNCHANGED <<open, rows, gone, listed, files, sequence>>
    BY <1>10, CommitEffect, Zenon DEF BaseInv
  <2>3. c \in ReqRecord /\ Shape(c) /\ c.todo # <<>> /\ Head(c.todo) # "list" /\ c.own = {}
    BY <2>1, <2>2, ClosedShape, Zenon DEF Closed, Same
  <2>4. DataTypes' /\ OwnKept
    BY <2>2, SameData, Zenon DEF BaseInv, OwnKept
  <2>5. NumberTypes'
    BY <1>10, <2>2, CommitEffect, CommittedTypes, Zenon
  <2> QED
    BY <2>1, <2>3, <2>4, <2>5, BaseGoesOn, Zenon
<1>11. ASSUME NEW r \in Requests, FindNumber(r)
       PROVE  BaseInv'
  <2>1. DataTypes' /\ NumberTypes' /\ OwnKept /\ req[r].own \subseteq DOMAIN rows'
    BY <1>3, <1>11, FindEffect, Zenon
  <2>2. Shape(req[r]) /\ req[r].todo # <<>> /\ Head(req[r].todo) = "find"
    BY <1>11, FindEffect, Zenon DEF BaseInv
  <2>3. ASSUME NEW m, NEW c, Found(req[r], c, m), GoesOn(r, c)
        PROVE  BaseInv'
    <3>1. c \in ReqRecord /\ Shape(c) /\ c.todo # <<>> /\ Head(c.todo) # "list" /\ c.own = req[r].own
      BY <2>2, <2>3, FoundShape, Zenon DEF Found, Same
    <3> QED
      BY <2>1, <2>3, <3>1, BaseGoesOn, Zenon
  <2> QED
    BY <1>11, <2>1, <2>3, FindEffect, BaseEnds, Zenon
<1>12. ASSUME NEW r \in Requests, CommitUnconfirmed(r)
       PROVE  BaseInv'
  <2>1. UNCHANGED <<open, rows, gone, listed, files, sequence, told>> /\ Ends(r, FALSE)
    BY <1>12, UnconfirmedEffect, Zenon
  <2>2. DataTypes' /\ OwnKept
    BY <2>1, SameData, Zenon DEF BaseInv, OwnKept
  <2>3. NumberTypes'
    BY <1>12, <2>1, UnconfirmedEffect, CommittedTypes, Zenon
  <2> QED
    BY <2>1, <2>2, <2>3, BaseEnds, Zenon
<1> QED
  BY <1>1, <1>2, <1>4, <1>5, <1>6, <1>7, <1>8, <1>9, <1>10, <1>11, <1>12, StepCases

-----------------------------------------------------------------------------
(* The numbers of messages.                                                *)

\* The numbers in the table were told; what was told is in the table or its message is
\* gone; a number was told of one message and a message with one number.
TableInv(nb, tl, sq, gn) ==
  /\ \A m \in DOMAIN nb : <<nb[m], m>> \in tl
  /\ \A p \in tl : p[1] <= sq /\ (p[2] \in gn \/ (p[2] \in DOMAIN nb /\ nb[p[2]] = p[1]))
  /\ \A p, q \in tl : (p[1] = q[1]) <=> (p[2] = q[2])

\* What a request knows was told, except what it has inserted itself: that is new.
KnowsInv(s, nb, tl, sq) ==
  /\ \A m \in DOMAIN s.ids \ s.own : <<s.ids[m], m>> \in tl
  /\ \A m \in s.own : m \notin DOMAIN nb /\ s.ids[m] <= sq /\ \A p \in tl : p[1] # s.ids[m]
  /\ \A m, n \in s.own : s.ids[m] = s.ids[n] => m = n

Apart(s, t) == \A m \in s.own, n \in t.own : m # n /\ s.ids[m] # t.ids[n]

GivenInv(tl) ==
  /\ TableInv(numbers, tl, sequence, gone)
  /\ \A r \in Requests : KnowsInv(req[r], numbers, tl, sequence)
  /\ \A r, q \in Requests : r # q => Apart(req[r], req[q])

\* A number may be in the table that nobody was told: its COMMIT was not confirmed.  The
\* pairs that were ever committed are a set that the answers are taken from.
Pairs == SUBSET (Nat \X Messages)
NumberInv == \E tl \in Pairs : told \subseteq tl /\ GivenInv(tl)

\* What a step does to the tables leaves every request with numbers that hold.
TablesKept(tl) ==
  /\ TableInv(numbers', tl, sequence', gone')
  /\ \A q \in Requests : KnowsInv(req[q], numbers', tl, sequence')

LEMMA NothingKnown ==
  ASSUME NEW s, s.own = {}, s.ids = <<>>, NEW nb, NEW tl, NEW sq
  PROVE  KnowsInv(s, nb, tl, sq)
<1>1. DOMAIN s.ids = {}
  OBVIOUS
<1> QED
  BY <1>1, Zenon DEF KnowsInv

LEMMA NumbersBecome ==
  ASSUME BaseInv, NEW tl, GivenInv(tl), NEW u, NEW r \in Requests, NEW t, Become(r, t),
         TableInv(numbers', u, sequence', gone'),
         \A q \in Requests \ {r} : KnowsInv(req[q], numbers', u, sequence'),
         KnowsInv(t, numbers', u, sequence'),
         \A q \in Requests \ {r} : Apart(req[q], t) /\ Apart(t, req[q])
  PROVE  GivenInv(u)'
<1>1. DOMAIN req = Requests /\ req' = [req EXCEPT ![r] = t]
  BY Zenon DEF BaseInv, Become
<1>2. \A q \in Requests : KnowsInv(req'[q], numbers', u, sequence')
  BY <1>1
<1>3. \A q, p \in Requests : p # q => Apart(req'[p], req'[q])
  BY <1>1 DEF GivenInv
<1> QED
  BY <1>2, <1>3, Zenon DEF GivenInv

\* A request that keeps what it has inserted, or gives all of it up.
Carries(s, t) == (t.own = s.own /\ t.ids = s.ids) \/ (t.own = {} /\ t.ids = <<>>)

LEMMA NumbersCarried ==
  ASSUME BaseInv, NEW tl, GivenInv(tl), TablesKept(tl), NEW r \in Requests, NEW t, Become(r, t), Carries(req[r], t)
  PROVE  GivenInv(tl)'
<1>1. KnowsInv(req[r], numbers', tl, sequence')
  BY DEF TablesKept
<1>2. ASSUME NEW q \in Requests \ {r}
      PROVE  Apart(req[q], t) /\ Apart(t, req[q])
  <2>1. Apart(req[q], req[r]) /\ Apart(req[r], req[q])
    BY DEF GivenInv
  <2>2. CASE t.own = req[r].own /\ t.ids = req[r].ids
    BY <2>1, <2>2 DEF Apart
  <2>3. CASE t.own = {}
    BY <2>3 DEF Apart
  <2> QED
    BY <2>2, <2>3 DEF Carries
<1>3. KnowsInv(t, numbers', tl, sequence')
  <2>1. CASE t.own = req[r].own /\ t.ids = req[r].ids
    BY <1>1, <2>1, Zenon DEF KnowsInv
  <2>2. CASE t.own = {} /\ t.ids = <<>>
    BY <2>2 DEF KnowsInv
  <2> QED
    BY <2>1, <2>2, Zenon DEF Carries
<1> QED
  BY <1>2, <1>3, NumbersBecome DEF TablesKept

LEMMA TablesSame ==
  ASSUME NEW tl, GivenInv(tl), UNCHANGED <<numbers, sequence, gone>>
  PROVE  TablesKept(tl)
BY DEF GivenInv, TablesKept

LEMMA TablesDropped ==
  ASSUME BaseInv, NEW tl, GivenInv(tl), NEW ms \in SUBSET DOMAIN rows, Dropped(ms), UNCHANGED sequence
  PROVE  TablesKept(tl)
<1>1. /\ DOMAIN numbers' = DOMAIN numbers \ ms /\ gone' = gone \union ms
      /\ \A m \in DOMAIN numbers \ ms : numbers'[m] = numbers[m]
  BY DEF Dropped
<1>2. TableInv(numbers', tl, sequence, gone')
  <2>1. TableInv(numbers, tl, sequence, gone)
    BY DEF GivenInv
  <2> QED
    BY <1>1, <2>1 DEF TableInv
<1>3. ASSUME NEW q \in Requests
      PROVE  KnowsInv(req[q], numbers', tl, sequence)
  <2>1. KnowsInv(req[q], numbers, tl, sequence)
    BY DEF GivenInv
  <2> QED
    BY <1>1, <2>1, Zenon DEF KnowsInv
<1> QED
  BY <1>2, <1>3 DEF TablesKept

LEMMA NumbersQuiet ==
  ASSUME NEW tl, GivenInv(tl), TablesKept(tl), UNCHANGED req
  PROVE  GivenInv(tl)'
BY DEF GivenInv, TablesKept

LEMMA NumbersEnd ==
  ASSUME BaseInv, NEW tl, GivenInv(tl), TablesKept(tl), NEW r \in Requests, NEW b \in BOOLEAN, Ends(r, b)
  PROVE  GivenInv(tl)'
<1>1. Ended(b).own = {} /\ Ended(b).ids = <<>>
  BY DEF Ended, NoRequest
<1> QED
  BY <1>1, NumbersCarried DEF Ends, Carries

LEMMA NumbersGoOn ==
  ASSUME BaseInv, NEW tl, GivenInv(tl), TablesKept(tl), NEW r \in Requests, NEW s, s \in ReqRecord, Shape(s), s.todo # <<>>,
         Head(s.todo) # "list", Carries(req[r], s), GoesOn(r, s)
  PROVE  GivenInv(tl)'
<1>1. CASE Ends(r, FALSE)
  BY <1>1, NumbersEnd, Zenon
<1>2. ASSUME NEW t, Advanced(s, t), Goes(r, t)
      PROVE  GivenInv(tl)'
  <2>1. t.own = s.own /\ t.ids = s.ids
    BY <1>2, AdvancedFacts, Zenon
  <2> QED
    BY <1>2, <2>1, NumbersCarried, Zenon DEF Goes, Carries
<1> QED
  BY <1>1, <1>2, Zenon DEF GoesOn

\* A number that is in the table is read.
LEMMA NumbersKnown ==
  ASSUME BaseInv, NEW tl \in Pairs, GivenInv(tl), TablesKept(tl), UNCHANGED <<numbers, sequence>>, NEW r \in Requests, NEW t,
         NEW m \in DOMAIN numbers, Known(req[r], t, m, numbers[m]), Goes(r, t)
  PROVE  GivenInv(tl)'
<1> DEFINE s == req[r]
           n == numbers[m]
<1>1. <<n, m>> \in tl /\ n \in Nat /\ m \in Messages
  BY NumberingFacts DEF GivenInv, TableInv, BaseInv, NumberTypes
<1>2. s.ids \in Numberings /\ s.own \subseteq DOMAIN s.ids
  BY DEF BaseInv, Shape, ReqRecord
<1>3. KnowsInv(s, numbers, tl, sequence)
  BY DEF GivenInv
<1>4. m \notin s.own
  BY <1>3, Zenon DEF KnowsInv
<1> HIDE DEF s, n
<1>5. /\ DOMAIN t.ids = DOMAIN s.ids \union {m} /\ t.own = s.own
      /\ \A x \in DOMAIN s.ids : t.ids[x] = s.ids[x]
      /\ m \notin DOMAIN s.ids => t.ids[m] = n
  <2>1. t.ids = Added(s.ids, m, n) /\ t.own = s.own
    BY DEF Known, s, n
  <2>2. /\ DOMAIN Added(s.ids, m, n) = DOMAIN s.ids \union {m}
        /\ \A x \in DOMAIN s.ids : Added(s.ids, m, n)[x] = s.ids[x]
        /\ m \notin DOMAIN s.ids => Added(s.ids, m, n)[m] = n
    BY <1>1, <1>2, AddedFacts, Zenon
  <2> QED
    BY <2>1, <2>2, Zenon
<1>6. KnowsInv(t, numbers, tl, sequence)
  <2>1. \A x \in DOMAIN t.ids \ t.own : <<t.ids[x], x>> \in tl
    <3>1. ASSUME NEW x \in DOMAIN t.ids \ t.own
          PROVE  <<t.ids[x], x>> \in tl
      <4>1. CASE x \in DOMAIN s.ids
        BY <1>3, <1>5, <3>1, <4>1 DEF KnowsInv
      <4>2. CASE x \notin DOMAIN s.ids
        BY <1>1, <1>5, <3>1, <4>2
      <4> QED
        BY <4>1, <4>2
    <3> QED
      BY <3>1
  <2>2. \A x \in t.own : t.ids[x] = s.ids[x] /\ x \in s.own
    BY <1>2, <1>5
  <2> QED
    BY <1>3, <2>1, <2>2, Zenon DEF KnowsInv
<1>7. ASSUME NEW q \in Requests \ {r}
      PROVE  Apart(req[q], t) /\ Apart(t, req[q])
  <2>1. Apart(req[q], s) /\ Apart(s, req[q])
    BY DEF GivenInv, s
  <2>2. t.own = s.own /\ \A x \in t.own : t.ids[x] = s.ids[x]
    BY <1>2, <1>5, Zenon
  <2> QED
    BY <2>1, <2>2, Zenon DEF Apart
<1> QED
  BY <1>6, <1>7, NumbersBecome DEF Goes, TablesKept

LEMMA LessDiffers ==
  \A a, b, c \in Nat : a <= b /\ b < c => a # c
OBVIOUS

\* A number of the sequence is given to a message that has none.
LEMMA NumbersGiven ==
  ASSUME BaseInv, NEW tl \in Pairs, GivenInv(tl), UNCHANGED <<numbers, gone>>, sequence' = sequence + 1, NEW r \in Requests,
         NEW t, NEW m \in DOMAIN rows \ DOMAIN numbers, ~Numbering(m),
         Given(req[r], t, m, sequence + 1), Goes(r, t)
  PROVE  GivenInv(tl)'
<1> DEFINE s == req[r]
           n == sequence + 1
<1>1. n \in Nat /\ sequence \in Nat /\ sequence < n /\ m \in Messages /\ m \notin gone
  BY DEF BaseInv, NumberTypes, DataTypes, RowTypes
<1>2. s.ids \in Numberings /\ s.own \subseteq DOMAIN s.ids
  BY DEF BaseInv, Shape, ReqRecord
<1>3. KnowsInv(s, numbers, tl, sequence) /\ TableInv(numbers, tl, sequence, gone)
  BY Zenon DEF GivenInv
<1>4. \A q \in Requests : m \notin req[q].own
  BY Zenon DEF Numbering
<1>5. \A p \in tl : p[1] \in Nat /\ p[1] <= sequence /\ p[2] # m
  <2>1. \A p \in tl : p[1] \in Nat
    BY Zenon DEF Pairs
  <2> QED
    BY <1>1, <1>3, <2>1 DEF TableInv
<1>6. m \notin DOMAIN s.ids
  <2>1. SUFFICES ASSUME m \in DOMAIN s.ids PROVE FALSE
    BY Zenon
  <2>2. <<s.ids[m], m>> \in tl
    BY <1>3, <1>4, <2>1, Zenon DEF KnowsInv
  <2> QED
    BY <1>5, <2>2, Zenon
<1>7. \A q \in Requests : \A x \in req[q].own : req[q].ids[x] \in Nat /\ req[q].ids[x] <= sequence
  <2>1. ASSUME NEW q \in Requests, NEW x \in req[q].own
        PROVE  req[q].ids[x] \in Nat /\ req[q].ids[x] <= sequence
    <3>1. req[q].ids \in Numberings /\ x \in DOMAIN req[q].ids
      BY <2>1 DEF BaseInv, Shape, ReqRecord
    <3>2. req[q].ids[x] \in Nat
      BY <3>1, NumberingFacts
    <3> QED
      BY <2>1, <3>2, Zenon DEF GivenInv, KnowsInv
  <2> QED
    BY <2>1, Zenon
<1>8. TablesKept(tl)
  <2>1. \A k \in Nat : k <= sequence => k <= n
    BY <1>1, Following, Zenon DEF n
  <2>2. TableInv(numbers, tl, n, gone)
    BY <1>3, <1>5, <2>1 DEF TableInv
  <2>3. ASSUME NEW q \in Requests
        PROVE  KnowsInv(req[q], numbers, tl, n)
    <3>1. KnowsInv(req[q], numbers, tl, sequence)
      BY Zenon DEF GivenInv
    <3> HIDE DEF n
    <3> QED
      BY <1>7, <2>1, <3>1, Zenon DEF KnowsInv
  <2> QED
    BY <2>2, <2>3, Zenon DEF TablesKept
<1> HIDE DEF s, n
<1>9. /\ DOMAIN t.ids = DOMAIN s.ids \union {m} /\ t.own = s.own \union {m} /\ t.ids[m] = n
      /\ \A x \in DOMAIN s.ids : t.ids[x] = s.ids[x]
  <2>1. t.ids = Added(s.ids, m, n) /\ t.own = s.own \union {m}
    BY Zenon DEF Given, s, n
  <2> DEFINE h == Added(s.ids, m, n)
  <2>2. DOMAIN h = DOMAIN s.ids \union {m} /\ h[m] = n /\ \A x \in DOMAIN s.ids : h[x] = s.ids[x]
    BY <1>1, <1>2, <1>6, AddedFacts, Zenon
  <2> HIDE DEF h
  <2>3. t.ids = h
    BY <2>1 DEF h
  <2> QED
    BY <2>1, <2>2, <2>3, Zenon
<1>10. \A x \in s.own : x # m /\ t.ids[x] = s.ids[x] /\ s.ids[x] # n
  <2>1. \A x \in s.own : x # m /\ t.ids[x] = s.ids[x]
    BY <1>2, <1>6, <1>9
  <2>2. \A x \in s.own : s.ids[x] \in Nat /\ s.ids[x] <= sequence
    BY <1>7 DEF s
  <2> QED
    BY <1>1, <2>1, <2>2
<1>11. KnowsInv(t, numbers', tl, sequence')
  <2>1. \A x \in DOMAIN t.ids \ t.own : <<t.ids[x], x>> \in tl
    <3>1. \A x \in DOMAIN t.ids \ t.own : x \in DOMAIN s.ids \ s.own /\ t.ids[x] = s.ids[x]
      BY <1>9
    <3> QED
      BY <1>3, <3>1, Zenon DEF KnowsInv
  <2>2. ASSUME NEW x \in t.own
        PROVE  x \notin DOMAIN numbers /\ t.ids[x] <= n /\ \A p \in tl : p[1] # t.ids[x]
    <3>1. CASE x = m
      <4>1. \A p \in tl : p[1] # n
        BY <1>1, <1>5, LessDiffers, Zenon
      <4>2. n <= n
        BY <1>1
      <4> QED
        BY <1>9, <3>1, <4>1, <4>2
    <3>2. CASE x \in s.own
      <4>1. t.ids[x] = s.ids[x] /\ s.ids[x] \in Nat /\ s.ids[x] <= sequence
        BY <1>7, <1>10, <3>2, Zenon DEF s
      <4>2. t.ids[x] <= n
        BY <1>1, <4>1
      <4> QED
        BY <1>3, <3>2, <4>1, <4>2, Zenon DEF KnowsInv
    <3> QED
      BY <1>9, <2>2, <3>1, <3>2, Zenon
  <2>3. ASSUME NEW x \in t.own, NEW y \in t.own, t.ids[x] = t.ids[y]
        PROVE  x = y
    <3>1. x \in s.own \union {m} /\ y \in s.own \union {m}
      BY <1>9, <2>3
    <3>2. CASE x \in s.own /\ y \in s.own
      BY <1>3, <1>10, <2>3, <3>2, Zenon DEF KnowsInv
    <3>3. CASE x = m \/ y = m
      BY <1>9, <1>10, <2>3, <3>1, <3>3, Zenon
    <3> QED
      BY <3>1, <3>2, <3>3
  <2>4. KnowsInv(t, numbers, tl, n)
    BY <2>1, <2>2, <2>3, Zenon DEF KnowsInv
  <2> QED
    BY <2>4 DEF n
<1>12. ASSUME NEW q \in Requests \ {r}
       PROVE  Apart(req[q], t) /\ Apart(t, req[q])
  <2>1. Apart(req[q], s) /\ Apart(s, req[q])
    BY Zenon DEF GivenInv, s
  <2>2. ASSUME NEW x \in req[q].own, NEW y \in t.own
        PROVE  x # y /\ req[q].ids[x] # t.ids[y]
    <3>1. CASE y \in s.own
      BY <1>10, <2>1, <2>2, <3>1, Zenon DEF Apart
    <3>2. CASE y = m
      <4>1. req[q].ids[x] \in Nat /\ req[q].ids[x] <= sequence /\ x # m
        BY <1>4, <1>7, <2>2, Zenon
      <4>2. req[q].ids[x] # n
        BY <1>1, <4>1, Following, Zenon DEF n
      <4> QED
        BY <1>9, <3>2, <4>1, <4>2, Zenon
    <3> QED
      BY <1>9, <2>2, <3>1, <3>2, Zenon
  <2> QED
    BY <2>2, Zenon DEF Apart
<1> QED
  BY <1>8, <1>11, <1>12, NumbersBecome, Zenon DEF Goes, TablesKept

\* The rows of a transaction that commits.
Written(r) ==
  /\ UNCHANGED <<rows, gone, sequence>>
  /\ numbers' = Over([m \in req[r].own |-> req[r].ids[m]], numbers)

\* The transaction commits: its numbers hold from now on.
LEMMA TablesCommitted ==
  ASSUME BaseInv, NEW tl, GivenInv(tl), NEW r \in Requests, Written(r),
         NEW u, u = tl \union {<<req[r].ids[m], m>> : m \in DOMAIN req[r].ids}
  PROVE  /\ TableInv(numbers', u, sequence', gone')
         /\ \A q \in Requests \ {r} : KnowsInv(req[q], numbers', u, sequence')
<1> /\ UNCHANGED <<rows, gone, sequence>>
    /\ numbers' = Over([m \in req[r].own |-> req[r].ids[m]], numbers)
  BY Zenon DEF Written
<1> DEFINE s == req[r]
<1>1. s.own \subseteq DOMAIN s.ids /\ s.own \subseteq DOMAIN rows /\ DOMAIN rows \intersect gone = {}
  BY Zenon DEF BaseInv, Shape, DataTypes
<1>2. KnowsInv(s, numbers, tl, sequence) /\ TableInv(numbers, tl, sequence, gone)
  BY Zenon DEF GivenInv
<1>3. /\ DOMAIN numbers' = s.own \union DOMAIN numbers
      /\ \A m \in s.own : numbers'[m] = s.ids[m]
      /\ \A m \in DOMAIN numbers \ s.own : numbers'[m] = numbers[m]
  BY Zenon DEF Over
<1>4. \A p \in tl : p[2] \notin s.own
  BY <1>1, <1>2, Zenon DEF TableInv, KnowsInv
<1>5. \A m \in s.own : m \notin DOMAIN numbers /\ s.ids[m] <= sequence /\ \A p \in tl : p[1] # s.ids[m]
  BY <1>2, Zenon DEF KnowsInv
<1> DEFINE New(p) == \E m \in s.own : p = <<s.ids[m], m>>
<1>6. /\ \A p \in u : p \in tl \/ New(p)
      /\ \A p \in tl : p \in u
      /\ \A m \in s.own : <<s.ids[m], m>> \in u
  <2>1. ASSUME NEW p \in u
        PROVE  p \in tl \/ New(p)
    <3>1. CASE p \in tl
      BY <3>1
    <3>2. CASE \E m \in DOMAIN s.ids : p = <<s.ids[m], m>>
      <4>1. PICK m \in DOMAIN s.ids : p = <<s.ids[m], m>>
        BY <3>2
      <4>2. CASE m \in s.own
        BY <4>1, <4>2
      <4>3. CASE m \notin s.own
        BY <1>2, <4>1, <4>3, Zenon DEF KnowsInv
      <4> QED
        BY <4>2, <4>3, Zenon
    <3> QED
      BY <2>1, <3>1, <3>2, Zenon
  <2>2. \A m \in s.own : <<s.ids[m], m>> \in u
    BY <1>1
  <2> HIDE DEF New
  <2> QED
    BY <2>1, <2>2, Zenon
<1>7. \A m \in DOMAIN numbers' : <<numbers'[m], m>> \in u
  <2>1. ASSUME NEW m \in DOMAIN numbers'
        PROVE  <<numbers'[m], m>> \in u
    <3>1. CASE m \in s.own
      BY <1>3, <1>6, <3>1, Zenon
    <3>2. CASE m \notin s.own
      BY <1>2, <1>3, <1>6, <2>1, <3>2, Zenon DEF TableInv
    <3> QED
      BY <3>1, <3>2
  <2> QED
    BY <2>1
<1>8. \A p \in u : p[1] <= sequence /\ (p[2] \in gone \/ (p[2] \in DOMAIN numbers' /\ numbers'[p[2]] = p[1]))
  <2>1. ASSUME NEW p \in tl
        PROVE  p[1] <= sequence /\ (p[2] \in gone \/ (p[2] \in DOMAIN numbers' /\ numbers'[p[2]] = p[1]))
    BY <1>2, <1>3, <1>4, Zenon DEF TableInv
  <2>2. ASSUME NEW p, New(p)
        PROVE  p[1] <= sequence /\ p[2] \in DOMAIN numbers' /\ numbers'[p[2]] = p[1]
    <3>1. PICK m \in s.own : p = <<s.ids[m], m>>
      BY <2>2, Zenon
    <3>2. p[1] = s.ids[m] /\ p[2] = m
      BY <3>1, Zenon
    <3> QED
      BY <1>3, <1>5, <3>2, Zenon
  <2> HIDE DEF New
  <2> QED
    BY <1>6, <2>1, <2>2, Zenon
<1>9. \A p, q \in u : (p[1] = q[1]) <=> (p[2] = q[2])
  <2>1. \A p, q \in tl : (p[1] = q[1]) <=> (p[2] = q[2])
    BY <1>2, Zenon DEF TableInv
  <2>2. ASSUME NEW p \in tl, NEW q, New(q)
        PROVE  p[1] # q[1] /\ p[2] # q[2]
    <3>1. PICK m \in s.own : q = <<s.ids[m], m>>
      BY <2>2, Zenon
    <3>2. q[1] = s.ids[m] /\ q[2] = m
      BY <3>1, Zenon
    <3> QED
      BY <1>4, <1>5, <2>2, <3>2, Zenon
  <2> HIDE DEF New
  <2>3. ASSUME NEW p \in u, NEW q \in u
        PROVE  (p[1] = q[1]) <=> (p[2] = q[2])
    <3>1. (p \in tl \/ New(p)) /\ (q \in tl \/ New(q))
      BY <1>6, <2>3, Zenon
    <3>2. CASE p \in tl /\ q \in tl
      BY <2>1, <3>2, Zenon
    <3>3. CASE p \in tl /\ New(q)
      BY <2>2, <3>3, Zenon
    <3>4. CASE New(p) /\ q \in tl
      BY <2>2, <3>4, Zenon
    <3>5. CASE New(p) /\ New(q)
      <4>1. PICK m \in s.own : p = <<s.ids[m], m>>
        BY <3>5, Zenon DEF New
      <4>2. PICK n \in s.own : q = <<s.ids[n], n>>
        BY <3>5, Zenon DEF New
      <4>3. s.ids[m] = s.ids[n] <=> m = n
        BY <1>2, Zenon DEF KnowsInv
      <4>4. p[1] = s.ids[m] /\ p[2] = m /\ q[1] = s.ids[n] /\ q[2] = n
        BY <4>1, <4>2, Zenon
      <4> QED
        BY <4>3, <4>4, Zenon
    <3> QED
      BY <3>1, <3>2, <3>3, <3>4, <3>5, Zenon
  <2> QED
    BY <2>3, Zenon
<1>10. ASSUME NEW q \in Requests \ {r}
       PROVE  KnowsInv(req[q], numbers', u, sequence)
  <2>1. KnowsInv(req[q], numbers, tl, sequence) /\ Apart(req[q], s)
    BY Zenon DEF GivenInv
  <2>2. ASSUME NEW m \in req[q].own
        PROVE  m \notin DOMAIN numbers' /\ \A p \in u : p[1] # req[q].ids[m]
    <3>1. m \notin DOMAIN numbers /\ \A p \in tl : p[1] # req[q].ids[m]
      BY <2>1, <2>2, Zenon DEF KnowsInv
    <3>2. \A n \in s.own : m # n /\ req[q].ids[m] # s.ids[n]
      BY <2>1, <2>2, Zenon DEF Apart
    <3>3. ASSUME NEW p, New(p)
          PROVE  p[1] # req[q].ids[m]
      BY <3>2, <3>3
    <3> HIDE DEF New
    <3> QED
      BY <1>3, <1>6, <3>1, <3>2, <3>3, Zenon
  <2> HIDE DEF s, New
  <2> QED
    BY <1>6, <2>1, <2>2, Zenon DEF KnowsInv
<1> QED
  BY <1>7, <1>8, <1>9, <1>10, Zenon DEF TableInv

LEMMA NumbersGiveUp ==
  ASSUME BaseInv, NEW tl, GivenInv(tl), NEW u, NEW r \in Requests, NEW t, Become(r, t), t.own = {}, t.ids = <<>>,
         TableInv(numbers', u, sequence', gone'),
         \A q \in Requests \ {r} : KnowsInv(req[q], numbers', u, sequence')
  PROVE  GivenInv(u)'
<1>1. KnowsInv(t, numbers', u, sequence')
  BY NothingKnown, Zenon
<1>2. \A q \in Requests \ {r} : Apart(req[q], t) /\ Apart(t, req[q])
  BY Zenon DEF Apart
<1> QED
  BY <1>1, <1>2, NumbersBecome, Zenon

\* The steps that commit no numbers.
LEMMA GivenStep ==
  ASSUME BaseInv, PagesListed, NEW tl \in Pairs, GivenInv(tl), [Next]_vars,
         \A r \in Requests : ~CommitNumbers(r) /\ ~CommitUnconfirmed(r)
  PROVE  GivenInv(tl)'
<1>1. ASSUME UNCHANGED <<numbers, sequence, gone, req>>
      PROVE  GivenInv(tl)'
  BY <1>1, TablesSame, NumbersQuiet
<1>2. CASE UNCHANGED vars
  BY <1>1, <1>2 DEF vars, data, numbering
<1>3. CASE Outside
  <2>1. CASE (\E m \in Messages : Arrive(m) \/ Parsed(m)) \/ SweepFile \/ StartWalk \/ NextPage
    BY <1>1, <2>1, Zenon DEF Arrive, Parsed, SweepFile, StartWalk, NextPage, data, numbering
  <2>2. CASE EndInbox
    <3>1. UNCHANGED <<told, sequence, req>>
      BY <2>2 DEF EndInbox
    <3>2. CASE Drop(DOMAIN rows)
      <4>1. Dropped(DOMAIN rows)
        BY <3>2 DEF Drop, Dropped
      <4> QED
        BY <3>1, <4>1, TablesDropped, NumbersQuiet
    <3>3. CASE UNCHANGED <<gone, numbers>>
      BY <1>1, <3>1, <3>3
    <3> QED
      BY <2>2, <3>2, <3>3 DEF EndInbox
  <2> QED
    BY <1>3, <2>1, <2>2 DEF Outside
<1>4. ASSUME NEW r \in Requests, Start(r)
      PROVE  GivenInv(tl)'
  <2>1. TablesKept(tl)
    BY <1>4, StartEffect, TablesSame
  <2>2. ASSUME NEW s, Fresh(s), Enters(r, s)
        PROVE  GivenInv(tl)'
    <3>1. Become(r, s) /\ Carries(req[r], s)
      BY <2>2, Zenon DEF Enters, Fresh, Blank, Carries
    <3> QED
      BY <2>1, <3>1, NumbersCarried
  <2>3. CASE TurnedAway(r)
    <3>1. Become(r, Ended(FALSE)) /\ Carries(req[r], Ended(FALSE))
      BY <2>3 DEF TurnedAway, Carries, Ended, NoRequest
    <3> QED
      BY <2>1, <3>1, NumbersCarried, Zenon
  <2> QED
    BY <1>4, <2>2, <2>3, StartEffect
<1>5. ASSUME NEW r \in Requests, Reads(r)
      PROVE  GivenInv(tl)'
  <2>1. TablesKept(tl) /\ req[r] \in ReqRecord /\ Shape(req[r]) /\ req[r].todo # <<>>
    BY <1>5, ReadEffect, TablesSame, Zenon DEF BaseInv
  <2>2. CASE GoesOn(r, req[r]) /\ Head(req[r].todo) \notin {"find", "list", "number"}
    BY <2>1, <2>2, NumbersGoOn, Zenon DEF Carries
  <2>3. CASE \E b \in BOOLEAN : Ends(r, b)
    BY <2>1, <2>3, NumbersEnd, Zenon
  <2> QED
    BY <1>5, <2>2, <2>3, ReadEffect, Zenon
<1>6. ASSUME NEW r \in Requests, DeleteMessage(r)
      PROVE  GivenInv(tl)'
  <2>1. /\ req[r] \in ReqRecord /\ Shape(req[r]) /\ req[r].todo # <<>> /\ Head(req[r].todo) = "remove"
        /\ UNCHANGED <<told, sequence>>
    BY <1>6, DeleteEffect, Zenon DEF BaseInv
  <2>2. CASE req[r].msg \in Live /\ Dropped({req[r].msg}) /\ GoesOn(r, req[r])
    <3>1. {req[r].msg} \in SUBSET DOMAIN rows
      BY <2>2 DEF Live
    <3>2. TablesKept(tl)
      BY <2>1, <2>2, <3>1, TablesDropped, Zenon
    <3> QED
      BY <2>1, <2>2, <3>2, NumbersGoOn DEF Carries
  <2>3. CASE UNCHANGED <<gone, numbers>> /\ \E b \in BOOLEAN : Ends(r, b)
    BY <2>1, <2>3, TablesSame, NumbersEnd, Zenon
  <2> QED
    BY <1>6, <2>2, <2>3, DeleteEffect, Zenon
<1>7. ASSUME NEW r \in Requests, ListMessagePage(r)
      PROVE  GivenInv(tl)'
  <2>1. TablesKept(tl)
    BY <1>7, ListEffect, TablesSame, Zenon
  <2>2. ASSUME NEW items, NEW t, Paged(req[r], t, items), Goes(r, t)
        PROVE  GivenInv(tl)'
    BY <2>1, <2>2, NumbersCarried, Zenon DEF Paged, Goes, Carries
  <2> QED
    BY <1>7, <2>1, <2>2, ListEffect, NumbersEnd, Zenon
<1>8. ASSUME NEW r \in Requests, LookUp(r)
      PROVE  GivenInv(tl)'
  <2>1. TablesKept(tl) /\ UNCHANGED <<numbers, told, sequence>>
    BY <1>8, LookUpEffect, TablesSame, Zenon
  <2>2. ASSUME NEW t, Noted(req[r], t), Goes(r, t)
        PROVE  GivenInv(tl)'
    BY <2>1, <2>2, NumbersCarried, Zenon DEF Noted, Goes, Carries
  <2>3. ASSUME NEW t, NEW m \in DOMAIN numbers, Known(req[r], t, m, numbers[m]), Goes(r, t)
        PROVE  GivenInv(tl)'
    BY <2>1, <2>3, NumbersKnown
  <2> QED
    BY <1>8, <2>2, <2>3, LookUpEffect, Zenon
<1>9. ASSUME NEW r \in Requests, InsertNumber(r)
      PROVE  GivenInv(tl)'
  <2> DEFINE m == req[r].msg
  <2>1. UNCHANGED <<numbers, told, gone>> /\ ~Numbering(m)
    BY <1>9, InsertEffect, Zenon
  <2>2. UNCHANGED sequence => TablesKept(tl)
    BY <2>1, TablesSame
  <2>3. ASSUME NEW t, m \in DOMAIN rows \ DOMAIN numbers, sequence' = sequence + 1,
               Given(req[r], t, m, sequence + 1), Goes(r, t)
        PROVE  GivenInv(tl)'
    BY <2>1, <2>3, NumbersGiven, Zenon
  <2>4. ASSUME NEW t, m \in DOMAIN numbers, UNCHANGED sequence, Known(req[r], t, m, numbers[m]), Goes(r, t)
        PROVE  GivenInv(tl)'
    BY <2>1, <2>2, <2>4, NumbersKnown, Zenon
  <2>5. ASSUME NEW b \in BOOLEAN, Ends(r, b), UNCHANGED sequence
        PROVE  GivenInv(tl)'
    BY <2>2, <2>5, NumbersEnd
  <2> QED
    BY <1>9, <2>3, <2>4, <2>5, InsertEffect, Zenon
<1>10. ASSUME NEW r \in Requests, FindNumber(r)
       PROVE  GivenInv(tl)'
  <2>1. TablesKept(tl) /\ Shape(req[r]) /\ req[r].todo # <<>> /\ Head(req[r].todo) = "find"
    BY <1>10, FindEffect, TablesSame, Zenon DEF BaseInv
  <2>2. ASSUME NEW m, NEW c, Found(req[r], c, m), GoesOn(r, c)
        PROVE  GivenInv(tl)'
    <3>1. c \in ReqRecord /\ Shape(c) /\ c.todo # <<>> /\ Head(c.todo) # "list" /\ Carries(req[r], c)
      BY <2>1, <2>2, FoundShape, Zenon DEF Found, Same, Carries
    <3> QED
      BY <2>1, <2>2, <3>1, NumbersGoOn, Zenon
  <2> QED
    BY <1>10, <2>1, <2>2, FindEffect, NumbersEnd, Zenon
<1> QED
  BY <1>2, <1>3, <1>4, <1>5, <1>6, <1>7, <1>8, <1>9, <1>10, StepCases

\* Only a transaction that commits and is heard tells a number.
LEMMA ToldSame ==
  ASSUME BaseInv, PagesListed, [Next]_vars,
         \A r \in Requests : ~CommitNumbers(r) /\ ~CommitUnconfirmed(r)
  PROVE  told' = told
<1>1. CASE UNCHANGED vars
  BY <1>1 DEF vars, numbering
<1>2. CASE Outside
  BY <1>2, Zenon DEF Outside, Arrive, Parsed, EndInbox, SweepFile, StartWalk, NextPage, numbering
<1>3. ASSUME NEW r \in Requests,
             \/ Start(r) \/ Reads(r) \/ DeleteMessage(r) \/ ListMessagePage(r) \/ LookUp(r)
             \/ InsertNumber(r) \/ FindNumber(r)
      PROVE  told' = told
  BY <1>3, StartEffect, ReadEffect, DeleteEffect, ListEffect, LookUpEffect, InsertEffect, FindEffect, Zenon
<1> QED
  BY <1>1, <1>2, <1>3, StepCases

\* A transaction that commits, whether its client hears of it or not.
LEMMA CommitGiven ==
  ASSUME BaseInv, NEW tl, GivenInv(tl), NEW r \in Requests, CommitNumbers(r) \/ CommitUnconfirmed(r),
         NEW u, u = tl \union {<<req[r].ids[m], m>> : m \in DOMAIN req[r].ids}
  PROVE  GivenInv(u)'
<1>1. /\ Shape(req[r]) /\ req[r].todo # <<>> /\ Head(req[r].todo) = "number"
      /\ Written(r)
  BY CommitEffect, UnconfirmedEffect, Zenon DEF BaseInv, Written
<1>2. /\ TableInv(numbers', u, sequence', gone')
      /\ \A q \in Requests \ {r} : KnowsInv(req[q], numbers', u, sequence')
  BY <1>1, TablesCommitted, Zenon
<1>3. CASE Ends(r, FALSE)
  <2>1. Ended(FALSE).own = {} /\ Ended(FALSE).ids = <<>>
    BY DEF Ended, NoRequest
  <2> QED
    BY <1>2, <1>3, <2>1, NumbersGiveUp, Zenon DEF Ends
<1>4. ASSUME NEW c, Closed(req[r], c), NEW t, Advanced(c, t), Goes(r, t)
      PROVE  GivenInv(u)'
  <2>1. /\ c \in ReqRecord /\ Shape(c) /\ c.todo # <<>> /\ Head(c.todo) # "list" /\ c.own = {}
        /\ c.ids = <<>>
    BY <1>1, <1>4, ClosedShape, Zenon DEF Closed, Same
  <2>2. t.own = {} /\ t.ids = <<>>
    BY <1>4, <2>1, AdvancedFacts, Zenon
  <2> QED
    BY <1>2, <1>4, <2>2, NumbersGiveUp, Zenon DEF Goes
<1>5. CASE CommitNumbers(r)
  <2>1. PICK c : Closed(req[r], c) /\ GoesOn(r, c)
    BY <1>5, CommitEffect, Zenon
  <2> QED
    BY <1>3, <1>4, <2>1, Zenon DEF GoesOn
<1>6. CASE CommitUnconfirmed(r)
  BY <1>3, <1>6, UnconfirmedEffect, Zenon
<1> QED
  BY <1>5, <1>6

LEMMA NumbersStep ==
  ASSUME BaseInv, PagesListed, NumberInv, [Next]_vars
  PROVE  NumberInv'
<1>1. PICK tl \in Pairs : told \subseteq tl /\ GivenInv(tl)
  BY Zenon DEF NumberInv
<1>2. ASSUME NEW r \in Requests, CommitNumbers(r) \/ CommitUnconfirmed(r)
      PROVE  NumberInv'
  <2> DEFINE P == {<<req[r].ids[m], m>> : m \in DOMAIN req[r].ids}
  <2>1. PICK u : u = tl \union P
    BY Zenon
  <2>2. GivenInv(u)'
    BY <1>1, <1>2, <2>1, CommitGiven, Zenon
  <2>3. P \in Pairs
    <3>1. req[r].ids \in Numberings
      BY DEF BaseInv, ReqRecord
    <3>2. \A m \in DOMAIN req[r].ids : req[r].ids[m] \in Nat /\ m \in Messages
      BY <3>1, NumberingFacts
    <3> QED
      BY <3>2 DEF Pairs
  <2>4. told' = told \/ told' = told \union P
    BY <1>2, CommitEffect, UnconfirmedEffect, Zenon
  <2> HIDE DEF P
  <2>5. u \in Pairs /\ told' \subseteq u
    BY <1>1, <2>1, <2>3, <2>4 DEF Pairs
  <2> QED
    BY <2>2, <2>5, Zenon DEF NumberInv, Pairs
<1>3. ASSUME \A r \in Requests : ~CommitNumbers(r) /\ ~CommitUnconfirmed(r)
      PROVE  NumberInv'
  <2>1. GivenInv(tl)'
    BY <1>1, <1>3, GivenStep, Zenon
  <2>2. told' = told
    BY <1>3, ToldSame
  <2> QED
    BY <1>1, <2>1, <2>2, Zenon DEF NumberInv, Pairs
<1> QED
  BY <1>2, <1>3, Zenon

LEMMA NumbersInit ==
  ASSUME Init
  PROVE  NumberInv
<1>1. TableInv(numbers, {}, sequence, gone)
  BY DEF Init, TableInv
<1>2. \A r \in Requests : req[r].own = {} /\ req[r].ids = <<>>
  BY DEF Init, NoRequest
<1>3. \A r \in Requests : KnowsInv(req[r], numbers, {}, sequence)
  BY <1>2, NothingKnown, Zenon
<1>4. \A r, q \in Requests : Apart(req[r], req[q])
  BY <1>2, Zenon DEF Apart
<1>5. GivenInv({}) /\ {} \in Pairs /\ told \subseteq {}
  BY <1>1, <1>3, <1>4 DEF GivenInv, Pairs, Init
<1> QED
  BY <1>5, Zenon DEF NumberInv

-----------------------------------------------------------------------------
(* What a request may say is missing.                                      *)

\* The messages that a request deals with were there when it began, and so was the
\* attachment that it was shown.
AskedInv(s, known, shown, tl) ==
  /\ s.wrong = FALSE /\ s.asked \subseteq known
  /\ \A i \in 1 .. Len(s.page) : s.page[i] \in s.asked
  /\ \A i \in 1 .. Len(s.queue) : s.queue[i] \in s.asked
  /\ s.todo # <<>> /\ ~Unfocused(s.op, s.todo) => s.msg \in s.asked
  /\ s.part = "shown" => s.msg \in shown
  /\ s.todo # <<>> /\ Head(s.todo) = "find" => \E p \in tl : s.number = p[1] /\ s.asked = {p[2]}

AskInv == \A r \in Requests : AskedInv(req[r], DOMAIN rows \union gone, listed \union gone, told)

\* Messages that were there are there or gone; what was told stays told.
Grows ==
  /\ DOMAIN rows \union gone \subseteq DOMAIN rows' \union gone'
  /\ listed \union gone \subseteq listed' \union gone' /\ told \subseteq told'

LEMMA AskedGrows ==
  ASSUME NEW s, NEW K, NEW L, NEW A, NEW B, NEW T, NEW U, AskedInv(s, K, A, T),
         K \subseteq L, A \subseteq B, T \subseteq U
  PROVE  AskedInv(s, L, B, U)
BY Zenon DEF AskedInv

LEMMA AskBecome ==
  ASSUME BaseInv, AskInv, Grows, NEW r \in Requests, NEW t, Become(r, t),
         AskedInv(t, DOMAIN rows \union gone, listed \union gone, told)
  PROVE  AskInv'
<1>1. DOMAIN req = Requests /\ req' = [req EXCEPT ![r] = t]
  BY DEF BaseInv, Become
<1>2. \A q \in Requests : AskedInv(req'[q], DOMAIN rows \union gone, listed \union gone, told)
  BY <1>1 DEF AskInv
<1>3. \A q \in Requests : AskedInv(req'[q], DOMAIN rows' \union gone', listed' \union gone', told')
  BY <1>2, AskedGrows DEF Grows
<1> QED
  BY <1>3, Zenon DEF AskInv

LEMMA AskQuiet ==
  ASSUME AskInv, Grows, UNCHANGED req
  PROVE  AskInv'
<1>1. \A q \in Requests : AskedInv(req[q], DOMAIN rows' \union gone', listed' \union gone', told')
  BY AskedGrows DEF Grows, AskInv
<1> QED
  BY <1>1 DEF AskInv

LEMMA AskEnds ==
  ASSUME BaseInv, AskInv, Grows, NEW r \in Requests, NEW b \in BOOLEAN, ~b, Become(r, Ended(b))
  PROVE  AskInv'
<1>1. /\ Ended(b).wrong = FALSE /\ Ended(b).asked = {} /\ Ended(b).page = <<>> /\ Ended(b).queue = <<>>
      /\ Ended(b).todo = <<>> /\ Ended(b).part = "none"
  BY DEF Ended, NoRequest
<1>2. AskedInv(Ended(b), DOMAIN rows \union gone, listed \union gone, told)
  <2>1. 1 .. Len(Ended(b).page) = {} /\ 1 .. Len(Ended(b).queue) = {}
    BY <1>1
  <2> QED
    BY <1>1, <2>1, Zenon DEF AskedInv
<1> QED
  BY <1>2, AskBecome, Zenon

\* The positions of a sequence after its first element is taken.
LEMMA TailPositions ==
  ASSUME NEW S, NEW q \in Seq(S), q # <<>>
  PROVE  /\ Head(q) = q[1] /\ 1 \in 1 .. Len(q)
         /\ \A i \in 1 .. Len(Tail(q)) : i + 1 \in 1 .. Len(q) /\ Tail(q)[i] = q[i + 1] /\ 1 < i + 1
OBVIOUS

LEMMA Shifted ==
  ASSUME NEW n, NEW i \in 1 .. n, NEW j \in 1 .. n, i < j
  PROVE  i + 1 < j + 1
OBVIOUS

LEMMA AskGoesOn ==
  ASSUME BaseInv, AskInv, Grows, NEW r \in Requests, NEW s, s \in ReqRecord, Shape(s), s.todo # <<>>,
         Head(s.todo) # "list", GoesOn(r, s), AskedInv(s, DOMAIN rows \union gone, listed \union gone, told),
         Head(s.todo) = "find" => s.msg \in s.asked
  PROVE  AskInv'
<1>1. CASE Ends(r, FALSE)
  BY <1>1, AskEnds, Zenon DEF Ends
<1>2. ASSUME NEW t, Advanced(s, t), Goes(r, t)
      PROVE  AskInv'
  <2> DEFINE K == DOMAIN rows \union gone
             A == listed \union gone
  <2>1. /\ t.todo # <<>> /\ t.op = s.op /\ t.queue = s.queue /\ t.asked = s.asked /\ t.wrong = s.wrong
        /\ Head(t.todo) # "find" /\ t.part = s.part
    BY <1>2, AdvancedFacts, Zenon
  <2>2. \/ /\ t.msg = s.msg /\ t.page = s.page
           /\ Unfocused(s.op, s.todo) => Unfocused(t.op, t.todo) \/ Head(s.todo) = "find"
        \/ /\ s.page # <<>> /\ t.msg = Head(s.page) /\ t.page = Tail(s.page)
    BY <1>2, AdvancedFacts, Zenon
  <2> HIDE DEF K, A
  <2>3. /\ s.wrong = FALSE /\ s.asked \subseteq K
        /\ \A i \in 1 .. Len(s.page) : s.page[i] \in s.asked
        /\ \A i \in 1 .. Len(s.queue) : s.queue[i] \in s.asked
        /\ ~Unfocused(s.op, s.todo) => s.msg \in s.asked
        /\ s.part = "shown" => s.msg \in A
    BY Zenon DEF AskedInv, K, A
  <2>4. CASE /\ t.msg = s.msg /\ t.page = s.page
             /\ Unfocused(s.op, s.todo) => Unfocused(t.op, t.todo) \/ Head(s.todo) = "find"
    BY <2>1, <2>3, <2>4, AskBecome, <1>2, Zenon DEF AskedInv, K, A, Goes
  <2>5. CASE s.page # <<>> /\ t.msg = Head(s.page) /\ t.page = Tail(s.page)
    <3>1. s.page \in Seq(Messages)
      BY DEF ReqRecord
    <3>2. Head(s.page) \in s.asked /\ \A i \in 1 .. Len(Tail(s.page)) : Tail(s.page)[i] \in s.asked
      <4> DEFINE p == s.page
      <4>1. p \in Seq(Messages) /\ p # <<>> /\ \A i \in 1 .. Len(p) : p[i] \in s.asked
        BY <2>3, <2>5, <3>1, Zenon
      <4> HIDE DEF p
      <4>2. /\ Head(p) = p[1] /\ 1 \in 1 .. Len(p)
            /\ \A i \in 1 .. Len(Tail(p)) : i + 1 \in 1 .. Len(p) /\ Tail(p)[i] = p[i + 1]
        BY <4>1, TailPositions
      <4> QED
        BY <4>1, <4>2, Zenon DEF p
    <3>3. AskedInv(t, DOMAIN rows \union gone, listed \union gone, told)
      <4>1. t.part # "shown"
        <5>1. s.op \in {"raw_list", "parsed_list"} /\ (s.part # "none" => s.op = "attachment")
          BY <2>5, Zenon DEF Shape
        <5> QED
          BY <2>1, <5>1, Zenon
      <4> QED
        BY <2>1, <2>3, <2>5, <3>2, <4>1, Zenon DEF AskedInv, K
    <3> QED
      BY <1>2, <3>3, AskBecome, Zenon DEF Goes
  <2> QED
    BY <2>2, <2>4, <2>5, Zenon
<1> QED
  BY <1>1, <1>2, Zenon DEF GoesOn

LEMMA TellsKnown ==
  ASSUME BaseInv, NumberInv, NEW p \in told
  PROVE  p[2] \in DOMAIN rows \union gone
<1>1. PICK tl \in Pairs : told \subseteq tl /\ GivenInv(tl)
  BY Zenon DEF NumberInv
<1> QED
  BY <1>1, Zenon DEF GivenInv, TableInv, BaseInv, NumberTypes

LEMMA FreshAsks ==
  ASSUME BaseInv, NumberInv, NEW s, Fresh(s)
  PROVE  AskedInv(s, DOMAIN rows \union gone, listed \union gone, told)
<1>1. s.page = <<>> /\ s.queue = <<>> /\ s.wrong = FALSE /\ s.op \in Ops /\ s.todo = Plan[s.op]
  BY Zenon DEF Fresh, Blank
<1>2. /\ Unfocused(s.op, s.todo) <=> s.op \in ListOps \union {"raw", "parsed", "delete_number"}
      /\ Head(s.todo) = "find" <=> s.op \in {"raw", "parsed", "delete_number"}
  BY <1>1, PlanFacts
<1>3. s.asked \subseteq DOMAIN rows \union gone
  <2>1. CASE s.asked = {} \/ (s.asked = {s.msg} /\ s.msg \in DOMAIN rows \union gone)
    BY <2>1
  <2>2. CASE \E p \in told : s.asked = {p[2]}
    BY <2>2, TellsKnown
  <2> QED
    BY <2>1, <2>2, Zenon DEF Fresh
<1>4. ~Unfocused(s.op, s.todo) => s.msg \in s.asked
  BY <1>2 DEF Fresh
<1>5. Head(s.todo) = "find" => \E p \in told : s.number = p[1] /\ s.asked = {p[2]}
  <2>1. "raw" \notin ListOps /\ "parsed" \notin ListOps /\ "delete_number" \notin ListOps
    BY DEF ListOps
  <2>2. ASSUME Head(s.todo) = "find"
        PROVE  s.op \in {"raw", "parsed", "delete_number"} /\ s.op \notin ListOps
    BY <1>2, <2>1, <2>2, Zenon
  <2> QED
    BY <2>2, Zenon DEF Fresh
<1>6. Len(<<>>) = 0 /\ \A i \in 1 .. 0 : FALSE
  OBVIOUS
<1>7. s.part = "shown" => s.msg \in listed \union gone
  BY DEF Fresh
<1> QED
  BY <1>1, <1>3, <1>4, <1>5, <1>6, <1>7, Zenon DEF AskedInv

\* Nobody is told wrongly that a message is missing.
LEMMA NothingDenied ==
  ASSUME BaseInv, AskInv, NEW r \in Requests, req[r].todo # <<>>
  PROVE  ~Denied(r)
<1> DEFINE s == req[r]
<1>1. SUFFICES ASSUME Denied(r) PROVE FALSE
  OBVIOUS
<1>2. ~Unfocused(s.op, s.todo)
  BY <1>1 DEF Denied, Unfocused
<1>3. s.msg \in s.asked /\ s.asked \subseteq DOMAIN rows \union gone
  BY <1>2 DEF AskInv, AskedInv
<1>4. s.msg \in DOMAIN rows /\ s.msg \notin gone
  BY <1>1, <1>3 DEF Denied
<1>5. s.part = "shown" => s.msg \in listed
  BY <1>4 DEF AskInv, AskedInv
<1> QED
  BY <1>1, <1>4, <1>5, Zenon DEF Denied, Live, BaseInv, DataTypes

\* A step of numbering leaves the request with what it was asked for.
LEMMA AskNumbers ==
  ASSUME BaseInv, AskInv, Grows, NEW r \in Requests, req[r].todo # <<>>, Head(req[r].todo) = "number",
         req[r].queue # <<>>, NEW t, Goes(r, t), t.todo = req[r].todo, t.op = req[r].op, t.wrong = req[r].wrong,
         t.page = req[r].page, t.asked = req[r].asked, t.part = req[r].part,
         t.queue = req[r].queue \/ t.queue = Tail(req[r].queue)
  PROVE  AskInv'
<1> DEFINE s == req[r]
           K == DOMAIN rows \union gone
           A == listed \union gone
<1>1. AskedInv(s, K, A, told) /\ s.queue \in Seq(Messages)
  BY Zenon DEF AskInv, BaseInv, ReqRecord
<1>7. t.part # "shown"
  <2>1. Shape(s) /\ s.part = t.part /\ s.todo # <<>> /\ Head(s.todo) = "number"
    BY Zenon DEF BaseInv
  <2>2. s.op \in {"raw_list", "parsed_list"}
    BY <2>1, NumberDoing, Zenon
  <2> QED
    BY <2>1, <2>2, Zenon DEF Shape
<1> HIDE DEF s, K, A
<1>2. \A i \in 1 .. Len(s.queue) : s.queue[i] \in s.asked
  BY <1>1, Zenon DEF AskedInv
<1>3. \A i \in 1 .. Len(Tail(s.queue)) : Tail(s.queue)[i] \in s.asked
  <2>1. s.queue # <<>>
    BY Zenon DEF s
  <2>2. \A i \in 1 .. Len(Tail(s.queue)) :
          i + 1 \in 1 .. Len(s.queue) /\ Tail(s.queue)[i] = s.queue[i + 1]
    BY <1>1, <2>1, TailPositions, Zenon
  <2> QED
    BY <1>2, <2>2, Zenon
<1>4. \A i \in 1 .. Len(t.queue) : t.queue[i] \in t.asked
  BY <1>2, <1>3, Zenon DEF s
<1>5. Unfocused(t.op, t.todo) /\ Head(t.todo) # "find"
  BY DEF Unfocused
<1>6. AskedInv(t, K, A, told)
  BY <1>1, <1>4, <1>5, <1>7, Zenon DEF AskedInv, s
<1> QED
  BY <1>6, AskBecome, Zenon DEF Goes, K, A

-----------------------------------------------------------------------------
(* Who waits for whom.                                                     *)

After(rs, m, n) == rs[m] > rs[n] \/ (rs[m] = rs[n] /\ m > n)

\* A transaction inserts the numbers of newer messages first.
InOrder(s, rs) ==
  /\ s.own # {} => s.todo # <<>> /\ Head(s.todo) = "number"
  /\ \A i, j \in 1 .. Len(s.queue) :
       i < j /\ s.queue[i] \in DOMAIN rs /\ s.queue[j] \in DOMAIN rs => After(rs, s.queue[i], s.queue[j])
  /\ \A m \in s.own : \A i \in 1 .. Len(s.queue) :
       s.queue[i] \in DOMAIN rs => After(rs, m, s.queue[i])

OrderInv == \A r \in Requests : InOrder(req[r], rows)

\* A message that is gone does not come back, and one that stays keeps its time.
RowsKept ==
  \A x \in DOMAIN rows \union gone : x \in DOMAIN rows' => x \in DOMAIN rows /\ rows'[x] = rows[x]

LEMMA OrderKept ==
  ASSUME BaseInv, AskInv, OrderInv, RowsKept, OwnKept, NEW q \in Requests
  PROVE  InOrder(req[q], rows')
<1> DEFINE s == req[q]
<1>1. /\ InOrder(s, rows) /\ s.own \subseteq DOMAIN rows /\ s.own \subseteq DOMAIN rows'
      /\ \A i \in 1 .. Len(s.queue) : s.queue[i] \in DOMAIN rows \union gone
  BY Zenon DEF OrderInv, BaseInv, OwnKept, AskInv, AskedInv
<1> HIDE DEF s
<1>2. \A i \in 1 .. Len(s.queue) :
        s.queue[i] \in DOMAIN rows' => s.queue[i] \in DOMAIN rows /\ rows'[s.queue[i]] = rows[s.queue[i]]
  BY <1>1, Zenon DEF RowsKept
<1>3. \A m \in s.own : rows'[m] = rows[m]
  BY <1>1 DEF RowsKept
<1>4. ASSUME NEW i \in 1 .. Len(s.queue), NEW j \in 1 .. Len(s.queue), i < j,
             s.queue[i] \in DOMAIN rows', s.queue[j] \in DOMAIN rows'
      PROVE  After(rows', s.queue[i], s.queue[j])
  <2>1. After(rows, s.queue[i], s.queue[j])
    BY <1>1, <1>2, <1>4, Zenon DEF InOrder
  <2> QED
    BY <1>2, <1>4, <2>1 DEF After
<1>5. ASSUME NEW m \in s.own, NEW i \in 1 .. Len(s.queue), s.queue[i] \in DOMAIN rows'
      PROVE  After(rows', m, s.queue[i])
  <2>1. After(rows, m, s.queue[i])
    BY <1>1, <1>2, <1>5, Zenon DEF InOrder
  <2> QED
    BY <1>2, <1>3, <1>5, <2>1 DEF After
<1>6. InOrder(s, rows')
  BY <1>1, <1>4, <1>5, Zenon DEF InOrder
<1> QED
  BY <1>6 DEF s

LEMMA OrderBecome ==
  ASSUME BaseInv, AskInv, OrderInv, RowsKept, OwnKept, NEW r \in Requests, NEW t, Become(r, t), InOrder(t, rows')
  PROVE  OrderInv'
<1>1. DOMAIN req = Requests /\ req' = [req EXCEPT ![r] = t]
  BY DEF BaseInv, Become
<1>2. \A q \in Requests : InOrder(req[q], rows')
  BY OrderKept
<1>3. \A q \in Requests : InOrder(req'[q], rows')
  BY <1>1, <1>2
<1> QED
  BY <1>3 DEF OrderInv

LEMMA OrderQuiet ==
  ASSUME BaseInv, AskInv, OrderInv, RowsKept, OwnKept, UNCHANGED req
  PROVE  OrderInv'
<1>1. \A q \in Requests : InOrder(req[q], rows')
  BY OrderKept
<1> QED
  BY <1>1 DEF OrderInv

LEMMA OrderEmpty ==
  ASSUME BaseInv, AskInv, OrderInv, RowsKept, OwnKept, NEW r \in Requests, NEW t, Become(r, t),
         t.own = {}, t.queue = <<>>
  PROVE  OrderInv'
<1>1. InOrder(t, rows')
  BY DEF InOrder
<1> QED
  BY <1>1, OrderBecome

LEMMA OrderEnds ==
  ASSUME BaseInv, AskInv, OrderInv, RowsKept, OwnKept, NEW r \in Requests, NEW b \in BOOLEAN, Become(r, Ended(b))
  PROVE  OrderInv'
<1>1. Ended(b).own = {} /\ Ended(b).queue = <<>>
  BY DEF Ended, NoRequest
<1> QED
  BY <1>1, OrderEmpty

LEMMA OrderGoesOn ==
  ASSUME BaseInv, AskInv, OrderInv, RowsKept, OwnKept, NEW r \in Requests, NEW s, s \in ReqRecord, Shape(s),
         s.todo # <<>>, Head(s.todo) # "list", GoesOn(r, s), s.own = {}, s.queue = req[r].queue
  PROVE  OrderInv'
<1>1. CASE Ends(r, FALSE)
  BY <1>1, OrderEnds, Zenon DEF Ends
<1>2. ASSUME NEW t, Advanced(s, t), Goes(r, t)
      PROVE  OrderInv'
  <2>1. t.own = {} /\ t.queue = req[r].queue
    BY <1>2, AdvancedFacts, Zenon
  <2>2. InOrder(req[r], rows')
    BY OrderKept
  <2>3. InOrder(t, rows')
    BY <2>1, <2>2, Zenon DEF InOrder
  <2> QED
    BY <1>2, <2>3, OrderBecome, Zenon DEF Goes
<1> QED
  BY <1>1, <1>2, Zenon DEF GoesOn

\* The first message of the queue is dealt with: it is newer than those that follow.
LEMMA OrderTail ==
  ASSUME BaseInv, AskInv, OrderInv, UNCHANGED rows, NEW r \in Requests, req[r].todo # <<>>,
         Head(req[r].todo) = "number", req[r].queue # <<>>, NEW t, Goes(r, t), t.todo = req[r].todo,
         t.queue = Tail(req[r].queue),
         \/ t.own = req[r].own
         \/ t.own = req[r].own \union {Head(req[r].queue)} /\ Head(req[r].queue) \in DOMAIN rows
  PROVE  OrderInv'
<1> DEFINE s == req[r]
           q == s.queue
<1>1. q \in Seq(Messages) /\ InOrder(s, rows)
  BY Zenon DEF BaseInv, ReqRecord, OrderInv
<1>2. /\ Head(q) = q[1] /\ 1 \in 1 .. Len(q)
      /\ \A i \in 1 .. Len(Tail(q)) : i + 1 \in 1 .. Len(q) /\ Tail(q)[i] = q[i + 1] /\ 1 < i + 1
  <2>1. q # <<>>
    OBVIOUS
  <2> HIDE DEF s, q
  <2> QED
    BY <1>1, <2>1, TailPositions, Zenon
<1> HIDE DEF s, q
<1>3. ASSUME NEW i \in 1 .. Len(t.queue), NEW j \in 1 .. Len(t.queue), i < j,
             t.queue[i] \in DOMAIN rows, t.queue[j] \in DOMAIN rows
      PROVE  After(rows, t.queue[i], t.queue[j])
  <2>1. /\ i + 1 \in 1 .. Len(q) /\ j + 1 \in 1 .. Len(q) /\ i + 1 < j + 1
        /\ t.queue[i] = q[i + 1] /\ t.queue[j] = q[j + 1]
    <3>1. t.queue = Tail(q)
      BY Zenon DEF s, q
    <3>2. i + 1 < j + 1
      BY <1>3, Shifted, Zenon
    <3> QED
      BY <1>2, <1>3, <3>1, <3>2, Zenon
  <2> QED
    BY <1>1, <1>3, <2>1, Zenon DEF InOrder, q
<1>4. ASSUME NEW m \in t.own, NEW i \in 1 .. Len(t.queue), t.queue[i] \in DOMAIN rows
      PROVE  After(rows, m, t.queue[i])
  <2>1. i + 1 \in 1 .. Len(q) /\ 1 < i + 1 /\ t.queue[i] = q[i + 1]
    BY <1>2, <1>4, Zenon DEF s, q
  <2>2. CASE m \in s.own
    BY <1>1, <1>4, <2>1, <2>2, Zenon DEF InOrder, q
  <2>3. CASE m = q[1] /\ q[1] \in DOMAIN rows
    BY <1>1, <1>2, <1>4, <2>1, <2>3, Zenon DEF InOrder, q
  <2>4. m \in s.own \/ (m = q[1] /\ q[1] \in DOMAIN rows)
    BY <1>2, <1>4, Zenon DEF s, q
  <2> QED
    BY <2>2, <2>3, <2>4, Zenon
<1>5. InOrder(t, rows')
  BY <1>3, <1>4, Zenon DEF InOrder
<1>6. RowsKept /\ OwnKept
  BY Zenon DEF RowsKept, OwnKept, BaseInv
<1> QED
  BY <1>5, <1>6, OrderBecome, Zenon DEF Goes
=============================================================================
