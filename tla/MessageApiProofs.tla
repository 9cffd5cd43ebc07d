-------------------------- MODULE MessageApiProofs --------------------------
(***************************************************************************)
(* Proofs about the four HTTP APIs on one Inbox, for any number of         *)
(* messages and requests, any page sizes and capacities: that a walk along *)
(* the cursors is complete, that slots are given back, that numbers are    *)
(* stable, that a message is called missing only if it is gone, and that   *)
(* no requests wait for each other in a circle.                            *)
(***************************************************************************)
EXTENDS MessageStepProofs, MessagePageProofs

-----------------------------------------------------------------------------
(* What a page lists.                                                     *)

LEMMA PageFacts ==
  ASSUME DataTypes, NEW offset \in Nat, NEW items, items # <<>>,
         items = First(PageLimit, SubSeq(Newest(Live), offset + 1, Len(Newest(Live))))
  PROVE  Listed(items)
<1> DEFINE q == Newest(Live)
           n == Len(q)
           d == SubSeq(q, offset + 1, n)
<1>1. q \in Seq(Live) /\ n \in Nat /\ Sorted(q) /\ PageLimit \in Nat
  BY NewestFacts, LiveFacts, ApiAssumption
<1> HIDE DEF q
<1>2. \A i \in 1 .. n : q[i] \in Live
  BY <1>1
<1>3. d \in Seq(Live) /\ \A i \in 1 .. Len(d) : offset + i \in 1 .. n /\ d[i] = q[offset + i]
  <2>1. \A i \in (offset + 1) .. n : q[i] \in Live
    BY <1>2
  <2>2. /\ d \in Seq(Live) /\ Len(d) = IF offset + 1 <= n THEN n - (offset + 1) + 1 ELSE 0
        /\ \A i \in 1 .. (n - (offset + 1) + 1) : d[i] = q[(offset + 1) + i - 1]
    BY <1>1, <2>1
  <2>3. ASSUME NEW i \in 1 .. Len(d)
        PROVE  offset + i \in 1 .. n /\ d[i] = q[offset + i]
    <3>1. offset + 1 <= n /\ i \in 1 .. (n - (offset + 1) + 1)
      BY <1>1, <2>2
    <3>2. offset + i \in 1 .. n /\ (offset + 1) + i - 1 = offset + i
      BY <1>1, <3>1
    <3>3. d[i] = q[(offset + 1) + i - 1]
      BY <2>2, <3>1
    <3> QED
      BY <3>2, <3>3
  <2> QED
    BY <2>2, <2>3
<1> HIDE DEF d
<1>4. items \in Seq(Live) /\ \A i \in 1 .. Len(items) : i \in 1 .. Len(d) /\ items[i] = d[i]
  <2>1. items = First(PageLimit, d)
    BY DEF q, d
  <2> QED
    BY <1>1, <1>3, <2>1, FirstFacts
<1>5. ASSUME NEW i \in 1 .. Len(items), NEW j \in 1 .. Len(items), i < j
      PROVE  Newer(items[i], items[j])
  <2>1. /\ offset + i \in 1 .. n /\ items[i] = q[offset + i]
        /\ offset + j \in 1 .. n /\ items[j] = q[offset + j]
    BY <1>3, <1>4
  <2>2. offset + i < offset + j
    BY <1>5
  <2>3. DOMAIN q = 1 .. n
    BY <1>1
  <2> QED
    BY <1>1, <2>1, <2>2, <2>3 DEF Sorted
<1>6. Sorted(items)
  <2>1. DOMAIN items = 1 .. Len(items)
    BY <1>4
  <2> QED
    BY <1>5, <2>1 DEF Sorted
<1> QED
  BY <1>4, <1>6 DEF Listed

LEMMA PagesAreListed ==
  ASSUME BaseInv
  PROVE  PagesListed
BY PageFacts DEF PagesListed, PageFrom, BaseInv

-----------------------------------------------------------------------------
(* The walk along the cursors.                                             *)

\* A walk survives that rows go; what is gone was not there all the time.
LEMMA WalkShrinks ==
  ASSUME NEW w, NEW rs, NEW g, NEW l, WalkOK(w, rs, g, l), NEW K \in SUBSET w.kept,
         NEW sr, DOMAIN sr \subseteq DOMAIN rs, \A x \in DOMAIN sr : sr[x] = rs[x],
         NEW h, DOMAIN rs \union g \subseteq DOMAIN sr \union h, NEW y, K \subseteq y
  PROVE  WalkOK([w EXCEPT !.kept = K], sr, h, y)
<1> DEFINE v == [w EXCEPT !.kept = K]
<1>1. /\ v \in WalkRecord /\ v.pc = w.pc /\ v.before = w.before /\ v.got = w.got /\ v.kept = K
      /\ K \subseteq w.kept
  BY DEF WalkOK, WalkRecord
<1> HIDE DEF v
<1>2. \A m \in DOMAIN sr : m \in DOMAIN rs /\ (Under(sr, m, w.before) <=> Under(rs, m, w.before))
  BY DEF Under
<1>3. WalkOK(v, sr, h, y)
  BY <1>1, <1>2 DEF WalkOK
<1> QED
  BY <1>3 DEF v

LEMMA WalkInit ==
  ASSUME Init
  PROVE  WalkInv
<1>1. DOMAIN <<>> = {}
  OBVIOUS
<1>2. DataTypes
  BY <1>1 DEF Init, DataTypes, RowTypes
<1>3. walk \in WalkRecord /\ walk.pc = "idle" /\ walk.got = <<>> /\ walk.kept = {}
  BY DEF Init, NoWalk, WalkRecord
<1>4. Range(walk.got) = {} /\ DOMAIN walk.got = {}
  BY <1>1, <1>3 DEF Range
<1> QED
  BY <1>2, <1>3, <1>4 DEF WalkInv, WalkOK

LEMMA WalkStep ==
  ASSUME WalkInv, [Next]_vars
  PROVE  WalkInv'
<1>1. DataTypes /\ WalkOK(walk, rows, gone, Live)
  BY DEF WalkInv
<1>2. ASSUME UNCHANGED <<open, rows, gone, walk>>, DataTypes'
      PROVE  WalkInv'
  BY <1>1, <1>2 DEF WalkInv, Live
<1>3. ASSUME UNCHANGED <<open, rows, gone, files, walk>>
      PROVE  WalkInv'
  BY <1>1, <1>2, <1>3, SameData
<1>4. ASSUME NEW m \in Messages, Arrive(m)
      PROVE  WalkInv'
  <2>1. /\ DataTypes' /\ DOMAIN rows' = DOMAIN rows \union {m} /\ m \notin DOMAIN rows \union gone
        /\ \A x \in DOMAIN rows : rows'[x] = rows[x]
    BY <1>1, <1>4, ArriveData
  <2>2. UNCHANGED <<open, gone, walk>> /\ Live' = DOMAIN rows' /\ Live \subseteq DOMAIN rows
    BY <1>4 DEF Arrive, Live
  <2>3. m \notin Range(walk.got) /\ m \notin walk.kept
    BY <1>1, <2>1, <2>2 DEF WalkOK
  <2>4. \A x \in DOMAIN rows : Under(rows', x, walk.before) <=> Under(rows, x, walk.before)
    BY <2>1 DEF Under
  <2>5. WalkOK(walk, rows', gone, Live')
    BY <1>1, <2>1, <2>2, <2>3, <2>4 DEF WalkOK
  <2> QED
    BY <2>1, <2>2, <2>5 DEF WalkInv
<1>5. ASSUME NEW ms \in SUBSET DOMAIN rows, Dropped(ms), UNCHANGED files,
             open' = open \/ (open' = FALSE /\ ms = DOMAIN rows)
      PROVE  WalkInv'
  <2>1. DataTypes'
    BY <1>1, <1>5, DroppedData, Zenon DEF DataTypes
  <2>2. walk.kept \ ms \subseteq Live'
    BY <1>1, <1>5 DEF Live, Dropped, WalkOK
  <2>3. /\ DOMAIN rows' \subseteq DOMAIN rows /\ \A x \in DOMAIN rows' : rows'[x] = rows[x]
        /\ DOMAIN rows \union gone \subseteq DOMAIN rows' \union gone'
    BY <1>5 DEF Dropped
  <2>4. WalkOK([walk EXCEPT !.kept = walk.kept \ ms], rows', gone', Live')
    BY <1>1, <2>2, <2>3, WalkShrinks, Zenon
  <2> QED
    BY <1>5, <2>1, <2>4 DEF Dropped, WalkInv
<1>6. CASE EndInbox
  <2>1. open' = FALSE /\ UNCHANGED files
    BY <1>6 DEF EndInbox
  <2>2. CASE Drop(DOMAIN rows)
    <3>1. Dropped(DOMAIN rows)
      BY <2>2 DEF Drop, Dropped
    <3> QED
      BY <1>5, <2>1, <3>1, Zenon
  <2>3. CASE UNCHANGED <<rows, gone>> /\ walk' = [walk EXCEPT !.kept = {}]
    <3>1. DataTypes'
      BY <1>1, <2>1, <2>3, Zenon DEF DataTypes, RowTypes
    <3>2. WalkOK([walk EXCEPT !.kept = {}], rows, gone, Live')
      BY <1>1, WalkShrinks, Zenon
    <3> QED
      BY <2>3, <3>1, <3>2 DEF WalkInv
  <2> QED
    BY <1>6, <2>2, <2>3 DEF EndInbox
<1>7. CASE SweepFile
  <2>1. UNCHANGED <<open, rows, gone, walk>> /\ \E m \in gone : files' = files \ {m}
    BY <1>7 DEF SweepFile
  <2>2. DataTypes'
    BY <1>1, <2>1 DEF DataTypes, RowTypes
  <2> QED
    BY <1>2, <2>1, <2>2
<1>8. CASE StartWalk
  <2> DEFINE w == [NoWalk EXCEPT !.kept = Live]
  <2>1. w \in WalkRecord /\ w.got = <<>> /\ w.kept = Live /\ Range(w.got) = {} /\ DOMAIN w.got = {}
    <3>1. w \in WalkRecord /\ w.got = <<>> /\ w.kept = Live
      <4>1. NoWalk \in WalkRecord /\ NoWalk.got = <<>>
        BY DEF NoWalk, WalkRecord
      <4>2. Live \in SUBSET Messages
        BY <1>1, LiveFacts
      <4> QED
        BY <4>1, <4>2 DEF WalkRecord
    <3>2. DOMAIN <<>> = {}
      OBVIOUS
    <3> QED
      BY <3>1, <3>2 DEF Range
  <2>2. ListMessages(w, <<>>) /\ UNCHANGED <<open, rows, gone, files>>
    BY <1>8 DEF StartWalk, data
  <2> HIDE DEF w
  <2>3. WalkOK(walk', rows, gone, Live)
    BY <1>1, <2>1, <2>2, ListStep
  <2> QED
    BY <1>1, <2>2, <2>3, SameData DEF WalkInv, Live
<1>9. CASE NextPage
  <2>1. /\ ListMessages(walk, walk.before) /\ walk.pc = "walking"
        /\ UNCHANGED <<open, rows, gone, files>>
    BY <1>9 DEF NextPage, data
  <2>2. walk \in WalkRecord /\ walk.before # <<>> /\ walk.before \in {<<>>} \union (Nat \X Messages)
    BY <1>1, <2>1 DEF WalkOK, WalkRecord
  <2>3. WalkOK(walk', rows, gone, Live)
    BY <1>1, <2>1, <2>2, ListStep DEF WalkOK
  <2> QED
    BY <1>1, <2>1, <2>3, SameData DEF WalkInv, Live
<1>10. ASSUME NEW r \in Requests, DeleteMessage(r)
       PROVE  WalkInv'
  <2>1. UNCHANGED <<open, files>>
    BY <1>10 DEF DeleteMessage
  <2>2. CASE req[r].msg \in Live
    <3>1. Dropped({req[r].msg}) /\ {req[r].msg} \in SUBSET DOMAIN rows
      BY <1>10, <2>2 DEF DeleteMessage, Drop, Dropped, Live
    <3> QED
      BY <1>5, <2>1, <3>1
  <2>3. CASE req[r].msg \notin Live
    BY <1>3, <1>10, <2>1, <2>3 DEF DeleteMessage
  <2> QED
    BY <2>2, <2>3
<1>11. ASSUME NEW r \in Requests, Start(r)
       PROVE  WalkInv'
  BY <1>3, <1>11, Zenon DEF Start, Begin, data
<1>12. ASSUME NEW r \in Requests,
              GetInbox(r) \/ GetMessage(r) \/ OpenRaw(r) \/ TooLarge(r) \/ Stream(r) \/ MarkMessageSeen(r)
       PROVE  WalkInv'
  BY <1>3, <1>12 DEF GetInbox, GetMessage, OpenRaw, TooLarge, Stream, MarkMessageSeen, data
<1>13. ASSUME NEW r \in Requests,
              \/ ListMessagePage(r) \/ LookUp(r) \/ InsertNumber(r) \/ CommitNumbers(r)
              \/ FindNumber(r) \/ CallFails(r) \/ CommitUnconfirmed(r)
       PROVE  WalkInv'
  BY <1>3, <1>13, Zenon
     DEF ListMessagePage, LookUp, InsertNumber, CommitNumbers, FindNumber, CallFails, CommitUnconfirmed, data
<1>14. CASE UNCHANGED vars
  BY <1>3, <1>14 DEF vars, data
<1>15. ASSUME NEW m \in Messages, Parsed(m)
       PROVE  WalkInv'
  BY <1>3, <1>15 DEF Parsed
<1> QED
  BY <1>4, <1>6, <1>7, <1>8, <1>9, <1>10, <1>11, <1>12, <1>13, <1>14, <1>15 DEF Next, Step

\* A client that follows the cursors of ListMessages is shown no message twice, and at
\* the end it was shown every message that was there all the time.
THEOREM WalkIsComplete == Spec => []WalkComplete
<1>1. Init => WalkInv
  BY WalkInit
<1>2. WalkInv /\ [Next]_vars => WalkInv'
  BY WalkStep
<1>3. WalkInv => WalkComplete
  BY DEF WalkInv, WalkOK, WalkComplete
<1> QED
  BY <1>1, <1>2, <1>3, PTL DEF Spec

-----------------------------------------------------------------------------
(* The slots.                                                              *)

Holders(q, p) == {r \in Requests : q[r].pool = p /\ q[r].todo # <<>>}
SlotsInv ==
  \A p \in {"heavy", "cf"} :
    slots[p] = Cardinality(Holders(req, p)) /\ slots[p] <= Capacity[p]

\* A request at work goes on with its slot, ends and gives it back, or starts and takes one.
LEMMA Moves ==
  ASSUME BaseInv, NEW r \in Requests,
         \/ Start(r) \/ Reads(r) \/ DeleteMessage(r) \/ ListMessagePage(r) \/ LookUp(r)
         \/ InsertNumber(r) \/ CommitNumbers(r) \/ FindNumber(r) \/ CommitUnconfirmed(r)
  PROVE  \/ /\ req[r].todo # <<>>
            /\ \/ \E t : Goes(r, t) /\ t.todo # <<>> /\ t.pool = req[r].pool
               \/ \E b \in BOOLEAN : Ends(r, b)
         \/ /\ req[r].todo = <<>>
            /\ (\E s : Fresh(s) /\ Enters(r, s)) \/ TurnedAway(r)
<1> DEFINE On == \E t : Goes(r, t) /\ t.todo # <<>> /\ t.pool = req[r].pool
           Off == \E b \in BOOLEAN : Ends(r, b)
<1>1. req[r] \in ReqRecord /\ Shape(req[r])
  BY DEF BaseInv
<1>2. ASSUME NEW s, s \in ReqRecord, Shape(s), s.todo # <<>>, Head(s.todo) # "list",
             s.pool = req[r].pool, GoesOn(r, s)
      PROVE  On \/ Off
  <2>1. ASSUME NEW t, Advanced(s, t), Goes(r, t)
        PROVE  On
    <3>1. t.todo # <<>> /\ t.pool = s.pool
      BY <1>2, <2>1, AdvancedFacts, Zenon
    <3> QED
      BY <1>2, <2>1, <3>1
  <2> QED
    BY <1>2, <2>1, Zenon DEF GoesOn
<1> HIDE DEF On, Off
<1>3. CASE Start(r)
  BY <1>3, StartEffect, Zenon
<1>4. CASE Reads(r)
  <2>1. req[r].todo # <<>> /\ (On \/ Off)
    BY <1>1, <1>2, <1>4, ReadEffect DEF Off
  <2> QED
    BY <2>1 DEF On, Off
<1>5. CASE DeleteMessage(r)
  <2>1. req[r].todo # <<>> /\ (On \/ Off)
    BY <1>1, <1>2, <1>5, DeleteEffect, Zenon DEF Off
  <2> QED
    BY <2>1 DEF On, Off
<1>6. CASE ListMessagePage(r)
  <2>1. req[r].todo # <<>> /\ Ends(r, FALSE) => Off
    BY Zenon DEF Off
  <2>2. ASSUME NEW items, NEW t, Paged(req[r], t, items), Goes(r, t)
        PROVE  On
    BY <2>2, Seqs, Zenon DEF On, Paged, Same
  <2>3. req[r].todo # <<>> /\ (On \/ Off)
    BY <1>6, <2>1, <2>2, PagesAreListed, ListEffect, Zenon
  <2> QED
    BY <2>3 DEF On, Off
<1>7. CASE LookUp(r)
  <2>1. ASSUME NEW t, NEW m, Noted(req[r], t) \/ Known(req[r], t, m, numbers[m]), Goes(r, t), req[r].todo # <<>>
        PROVE  On
    BY <2>1 DEF On, Noted, Known, Same
  <2>2. req[r].todo # <<>> /\ On
    BY <1>7, <2>1, LookUpEffect, Zenon
  <2> QED
    BY <2>2 DEF On
<1>8. CASE InsertNumber(r)
  <2>1. ASSUME NEW t, NEW m, NEW n, Given(req[r], t, m, n) \/ Known(req[r], t, m, n), Goes(r, t), req[r].todo # <<>>
        PROVE  On
    BY <2>1 DEF On, Given, Known, Same
  <2>2. req[r].todo # <<>> /\ (On \/ Off)
    BY <1>8, <2>1, InsertEffect DEF Off
  <2> QED
    BY <2>2 DEF On, Off
<1>9. CASE CommitNumbers(r)
  <2>1. PICK c : Closed(req[r], c) /\ GoesOn(r, c)
    BY <1>9, CommitEffect, Zenon
  <2>2. req[r].todo # <<>> /\ Head(req[r].todo) = "number"
    BY <1>9, CommitEffect, Zenon
  <2>3. c \in ReqRecord /\ Shape(c) /\ c.todo # <<>> /\ Head(c.todo) # "list" /\ c.pool = req[r].pool
    BY <1>1, <2>1, <2>2, ClosedShape, Zenon DEF Closed, Same
  <2> QED
    BY <1>2, <2>1, <2>2, <2>3, Zenon DEF On, Off
<1>10. CASE FindNumber(r)
  <2>1. req[r].todo # <<>> /\ Head(req[r].todo) = "find"
    BY <1>10, FindEffect
  <2>2. ASSUME NEW m, NEW c, Found(req[r], c, m), GoesOn(r, c)
        PROVE  On \/ Off
    <3>1. c \in ReqRecord /\ Shape(c) /\ c.todo # <<>> /\ Head(c.todo) # "list" /\ c.pool = req[r].pool
      BY <1>1, <2>1, <2>2, FoundShape DEF Found, Same
    <3> QED
      BY <1>2, <2>2, <3>1
  <2>3. On \/ Off
    BY <1>10, <2>2, FindEffect, Zenon DEF Off
  <2> QED
    BY <2>1, <2>3 DEF On, Off
<1>11. CASE CommitUnconfirmed(r)
  BY <1>11, UnconfirmedEffect, Zenon
<1> QED
  BY <1>3, <1>4, <1>5, <1>6, <1>7, <1>8, <1>9, <1>10, <1>11, Zenon

LEMMA SlotsMove ==
  ASSUME BaseInv, SlotsInv, NEW r \in Requests, NEW p \in {"heavy", "cf"}, NEW t, Become(r, t),
         NEW more \in SUBSET {r}, NEW less \in SUBSET {r},
         more = (IF t.pool = p /\ t.todo # <<>> THEN {r} ELSE {}),
         less = (IF req[r].pool = p /\ req[r].todo # <<>> THEN {r} ELSE {})
  PROVE  Cardinality(Holders(req', p)) =
           Cardinality(Holders(req, p)) - (IF less = {} THEN 0 ELSE 1) + (IF more = {} THEN 0 ELSE 1)
<1> DEFINE H == Holders(req, p)
           G == Holders(req', p)
<1>1. IsFiniteSet(H) /\ IsFiniteSet(H \ {r}) /\ Cardinality(H) \in Nat /\ Cardinality(H \ {r}) \in Nat
  BY ApiAssumption, FS_Subset, FS_CardinalityType DEF Holders
<1>2. r \in H <=> less # {}
  BY DEF Holders
<1>3. G = (H \ {r}) \union more
  BY DEF Holders, Become, BaseInv
<1> HIDE DEF H, G
<1>4. Cardinality(H \ {r}) = Cardinality(H) - (IF less = {} THEN 0 ELSE 1)
  <2>1. CASE r \in H
    BY <1>1, <1>2, <2>1, FS_RemoveElement
  <2>2. CASE r \notin H
    <3>1. H \ {r} = H
      BY <2>2
    <3>2. less = {}
      BY <1>2, <2>2
    <3> DEFINE k == IF less = {} THEN 0 ELSE 1
    <3>3. k = 0
      BY <3>2
    <3> HIDE DEF k
    <3>4. Cardinality(H \ {r}) = Cardinality(H)
      BY <3>1, Zenon
    <3>5. Cardinality(H \ {r}) = Cardinality(H) - k
      BY <1>1, <3>3, <3>4
    <3> QED
      BY <3>5 DEF k
  <2> QED
    BY <2>1, <2>2
<1>5. Cardinality(G) = Cardinality(H \ {r}) + (IF more = {} THEN 0 ELSE 1)
  <2>1. CASE more = {}
    <3>1. G = H \ {r}
      BY <1>3, <2>1
    <3> QED
      BY <1>1, <2>1, <3>1
  <2>2. CASE more # {}
    <3>1. G = (H \ {r}) \union {r} /\ r \notin H \ {r}
      BY <1>3, <2>2
    <3>2. Cardinality(G) = Cardinality(H \ {r}) + 1
      BY <1>1, <3>1, FS_AddElement, Zenon
    <3> QED
      BY <2>2, <3>2
  <2> QED
    BY <2>1, <2>2
<1> QED
  BY <1>4, <1>5 DEF H, G

LEMMA SlotsStep ==
  ASSUME BaseInv, SlotsInv, [Next]_vars
  PROVE  SlotsInv'
<1>1. ASSUME UNCHANGED <<slots, req>>
      PROVE  SlotsInv'
  BY <1>1 DEF SlotsInv
<1>2. /\ slots \in [{"heavy", "cf"} -> Int] /\ Capacity = [p \in {"heavy", "cf"} |-> Capacity[p]]
      /\ Capacity["heavy"] \in Nat /\ Capacity["cf"] \in Nat
      /\ \A r \in Requests : req[r].pool \in {"none", "heavy", "cf"}
  BY ApiAssumption DEF BaseInv, ReqRecord, Capacity
<1>3. ASSUME NEW r \in Requests, NEW t, Goes(r, t), req[r].todo # <<>>, t.todo # <<>>, t.pool = req[r].pool,
             NEW p \in {"heavy", "cf"}
      PROVE  slots'[p] = Cardinality(Holders(req', p)) /\ slots'[p] <= Capacity[p]
  <2> DEFINE more == IF t.pool = p /\ t.todo # <<>> THEN {r} ELSE {}
             less == IF req[r].pool = p /\ req[r].todo # <<>> THEN {r} ELSE {}
  <2>1. more = less /\ more \in SUBSET {r} /\ Become(r, t) /\ UNCHANGED slots
    BY <1>3 DEF Goes
  <2>2. Cardinality(Holders(req', p)) =
           Cardinality(Holders(req, p)) - (IF less = {} THEN 0 ELSE 1) + (IF more = {} THEN 0 ELSE 1)
    BY <2>1, SlotsMove, Zenon
  <2>3. slots[p] = Cardinality(Holders(req, p)) /\ slots[p] <= Capacity[p] /\ slots[p] \in Int
    BY <1>2 DEF SlotsInv
  <2> HIDE DEF more, less
  <2> QED
    BY <2>1, <2>2, <2>3
<1>4. ASSUME NEW r \in Requests, NEW b \in BOOLEAN, Ends(r, b), req[r].todo # <<>>, NEW p \in {"heavy", "cf"}
      PROVE  slots'[p] = Cardinality(Holders(req', p)) /\ slots'[p] <= Capacity[p]
  <2> DEFINE t == Ended(b)
             more == IF t.pool = p /\ t.todo # <<>> THEN {r} ELSE {}
             less == IF req[r].pool = p /\ req[r].todo # <<>> THEN {r} ELSE {}
  <2>1. more = {} /\ Become(r, t) /\ Freed(r)
    BY <1>4, EndedFacts DEF Ends
  <2>2. less = (IF req[r].pool = p THEN {r} ELSE {}) /\ less \in SUBSET {r}
    BY <1>4
  <2>3. Cardinality(Holders(req', p)) =
           Cardinality(Holders(req, p)) - (IF less = {} THEN 0 ELSE 1) + (IF more = {} THEN 0 ELSE 1)
    BY <2>1, <2>2, SlotsMove, Zenon
  <2>4. slots[p] = Cardinality(Holders(req, p)) /\ slots[p] <= Capacity[p] /\ slots[p] \in Int
    BY <1>2 DEF SlotsInv
  <2>5. slots'[p] = slots[p] - (IF req[r].pool = p THEN 1 ELSE 0)
    BY <1>2, <2>1 DEF Freed, Release
  <2>6. Capacity[p] \in Nat
    BY <1>2
  <2> HIDE DEF more, less, t
  <2> QED
    BY <2>1, <2>2, <2>3, <2>4, <2>5, <2>6
<1>5. ASSUME NEW r \in Requests, NEW s, Fresh(s), Enters(r, s), req[r].todo = <<>>, NEW p \in {"heavy", "cf"}
      PROVE  slots'[p] = Cardinality(Holders(req', p)) /\ slots'[p] <= Capacity[p]
  <2> DEFINE more == IF s.pool = p /\ s.todo # <<>> THEN {r} ELSE {}
             less == IF req[r].pool = p /\ req[r].todo # <<>> THEN {r} ELSE {}
  <2>1. less = {} /\ Become(r, s) /\ Take(s.pool) /\ HasSlot(s.pool)
    BY <1>5 DEF Enters
  <2>2. s.todo # <<>> /\ s.pool \in {"none", "heavy", "cf"}
    BY <1>5, PlanFacts DEF Fresh, Blank, ReqRecord
  <2>3. more = (IF s.pool = p THEN {r} ELSE {}) /\ more \in SUBSET {r}
    BY <2>2
  <2>4. Cardinality(Holders(req', p)) =
           Cardinality(Holders(req, p)) - (IF less = {} THEN 0 ELSE 1) + (IF more = {} THEN 0 ELSE 1)
    BY <2>1, <2>3, SlotsMove, Zenon
  <2>5. slots[p] = Cardinality(Holders(req, p)) /\ slots[p] <= Capacity[p] /\ slots[p] \in Int
    BY <1>2 DEF SlotsInv
  <2>6. slots'[p] = slots[p] + (IF s.pool = p THEN 1 ELSE 0)
    BY <1>2, <2>1, <2>2 DEF Take
  <2>7. s.pool = p => slots[p] < Capacity[p]
    BY <2>1 DEF HasSlot
  <2>8. Capacity[p] \in Nat
    BY <1>2
  <2> HIDE DEF more, less
  <2> QED
    BY <2>1, <2>3, <2>4, <2>5, <2>6, <2>7, <2>8
<1>6. ASSUME NEW r \in Requests, TurnedAway(r), req[r].todo = <<>>, NEW p \in {"heavy", "cf"}
      PROVE  slots'[p] = Cardinality(Holders(req', p)) /\ slots'[p] <= Capacity[p]
  <2> DEFINE t == Ended(FALSE)
             more == IF t.pool = p /\ t.todo # <<>> THEN {r} ELSE {}
             less == IF req[r].pool = p /\ req[r].todo # <<>> THEN {r} ELSE {}
  <2>1. more = {} /\ less = {} /\ Become(r, t) /\ UNCHANGED slots
    BY <1>6, EndedFacts, Zenon DEF TurnedAway
  <2>2. Cardinality(Holders(req', p)) =
           Cardinality(Holders(req, p)) - (IF less = {} THEN 0 ELSE 1) + (IF more = {} THEN 0 ELSE 1)
    BY <2>1, SlotsMove, Zenon
  <2>3. slots[p] = Cardinality(Holders(req, p)) /\ slots[p] <= Capacity[p] /\ slots[p] \in Int
    BY <1>2 DEF SlotsInv
  <2> HIDE DEF more, less, t
  <2> QED
    BY <2>1, <2>2, <2>3
<1>7. ASSUME NEW r \in Requests,
             \/ Start(r) \/ Reads(r) \/ DeleteMessage(r) \/ ListMessagePage(r) \/ LookUp(r)
             \/ InsertNumber(r) \/ CommitNumbers(r) \/ FindNumber(r) \/ CommitUnconfirmed(r)
      PROVE  SlotsInv'
  BY <1>3, <1>4, <1>5, <1>6, <1>7, Moves, Zenon DEF SlotsInv
<1>8. CASE Outside
  BY <1>1, <1>8, OutsideTypes
<1>9. CASE UNCHANGED vars
  BY <1>1, <1>9 DEF vars
<1> QED
  BY <1>7, <1>8, <1>9, StepCases

\* The slots in use are those of the requests at work, and no more than there are.
THEOREM SlotsAreHeld == Spec => []SlotsHeld
<1>1. Init => BaseInv /\ SlotsInv
  <2>1. ASSUME Init, NEW p \in {"heavy", "cf"}
        PROVE  slots[p] = Cardinality(Holders(req, p)) /\ slots[p] <= Capacity[p]
    <3>1. Holders(req, p) = {} /\ slots[p] = 0
      BY <2>1 DEF Init, Holders, NoRequest
    <3>2. Capacity[p] \in Nat
      BY ApiAssumption DEF Capacity
    <3> QED
      BY <3>1, <3>2, FS_EmptySet
  <2> QED
    BY <2>1, BaseInit DEF SlotsInv
<1>2. BaseInv /\ SlotsInv /\ [Next]_vars => BaseInv' /\ SlotsInv'
  BY PagesAreListed, BaseStep, SlotsStep
<1>3. BaseInv /\ SlotsInv => SlotsHeld
  BY Zenon DEF BaseInv, SlotsInv, SlotsHeld, Holders
<1> QED
  BY <1>1, <1>2, <1>3, PTL DEF Spec

-----------------------------------------------------------------------------
(* The numbers of messages, what may be missing, and who waits for whom.   *)

\* A number that was told means one message for ever, and that message has no other.
THEOREM NumbersAreStable == Spec => []NumbersStable
<1>1. Init => BaseInv /\ NumberInv
  BY BaseInit, NumbersInit
<1>2. BaseInv /\ NumberInv /\ [Next]_vars => BaseInv' /\ NumberInv'
  BY PagesAreListed, BaseStep, NumbersStep
<1>3. BaseInv /\ NumberInv => NumbersStable
  <2>1. SUFFICES ASSUME BaseInv, NumberInv PROVE NumbersStable
    BY Zenon
  <2>2. PICK tl \in Pairs : told \subseteq tl /\ GivenInv(tl)
    BY <2>1, Zenon DEF NumberInv
  <2>3. TableInv(numbers, tl, sequence, gone)
    BY <2>2, Zenon DEF GivenInv
  <2>4. DOMAIN numbers \intersect gone = {}
    BY <2>1 DEF BaseInv, NumberTypes, DataTypes
  <2>5. ASSUME NEW p \in told, p[2] \in DOMAIN numbers
        PROVE  numbers[p[2]] = p[1]
    BY <2>2, <2>3, <2>4, <2>5 DEF TableInv
  <2> QED
    BY <2>2, <2>3, <2>5, Zenon DEF TableInv, NumbersStable
<1> QED
  BY <1>1, <1>2, <1>3, PTL DEF Spec

LEMMA AskStep ==
  ASSUME BaseInv, NumberInv, AskInv, [Next]_vars
  PROVE  AskInv'
<1>1. ASSUME UNCHANGED <<rows, gone, listed, told>>
      PROVE  Grows
  BY <1>1 DEF Grows
<1>2. CASE UNCHANGED vars
  BY <1>1, <1>2, AskQuiet DEF vars, data, numbering
<1>3. CASE Outside
  <2>1. UNCHANGED req
    BY <1>3, OutsideTypes
  <2>2. Grows
    <3>1. ASSUME NEW m \in Messages, Arrive(m)
          PROVE  Grows
      <4>1. DOMAIN rows' = DOMAIN rows \union {m} /\ UNCHANGED <<gone, listed, told>>
        BY <3>1, ArriveData DEF BaseInv, Arrive, numbering
      <4> QED
        BY <4>1 DEF Grows
    <3>2. CASE EndInbox
      BY <3>2 DEF EndInbox, Drop, Grows
    <3>3. CASE SweepFile \/ StartWalk \/ NextPage
      BY <1>1, <3>3 DEF SweepFile, StartWalk, NextPage, data, numbering
    <3>4. ASSUME NEW m \in Messages, Parsed(m)
          PROVE  Grows
      BY <3>4 DEF Parsed, Grows, numbering
    <3> QED
      BY <1>3, <3>1, <3>2, <3>3, <3>4 DEF Outside
  <2> QED
    BY <2>1, <2>2, AskQuiet
<1>4. ASSUME NEW r \in Requests, Start(r)
      PROVE  AskInv'
  <2>1. Grows
    BY <1>1, <1>4, StartEffect
  <2>2. ASSUME NEW s, Fresh(s), Enters(r, s)
        PROVE  AskInv'
    BY <2>1, <2>2, FreshAsks, AskBecome DEF Enters
  <2>3. CASE TurnedAway(r)
    BY <2>1, <2>3, AskEnds, Zenon DEF TurnedAway
  <2> QED
    BY <1>4, <2>2, <2>3, StartEffect
<1>5. ASSUME NEW r \in Requests, req[r].todo # <<>>, Grows, NEW b \in BOOLEAN, Ends(r, b), b => Denied(r)
      PROVE  AskInv'
  BY <1>5, NothingDenied, AskEnds DEF Ends
<1>6. ASSUME NEW r \in Requests, req[r].todo # <<>>, Head(req[r].todo) \notin {"find", "list"}, Grows,
             GoesOn(r, req[r])
      PROVE  AskInv'
  <2>1. req[r] \in ReqRecord /\ Shape(req[r]) /\ AskedInv(req[r], DOMAIN rows \union gone, listed \union gone, told)
    BY Zenon DEF BaseInv, AskInv
  <2> QED
    BY <1>6, <2>1, AskGoesOn, Zenon
<1>7. ASSUME NEW r \in Requests, Reads(r)
      PROVE  AskInv'
  <2>1. Grows
    BY <1>1, <1>7, ReadEffect
  <2> QED
    BY <1>5, <1>6, <1>7, <2>1, ReadEffect
<1>8. ASSUME NEW r \in Requests, DeleteMessage(r)
      PROVE  AskInv'
  <2>1. req[r].todo # <<>> /\ Head(req[r].todo) = "remove" /\ UNCHANGED told
    BY <1>8, DeleteEffect, Zenon
  <2>2. CASE Dropped({req[r].msg}) /\ GoesOn(r, req[r])
    <3>1. Grows
      BY <2>1, <2>2 DEF Dropped, Grows
    <3> QED
      BY <1>6, <2>1, <2>2, <3>1
  <2>3. CASE UNCHANGED <<rows, gone, listed>> /\ \E b \in BOOLEAN : Ends(r, b) /\ (b => Denied(r))
    BY <1>1, <1>5, <2>1, <2>3
  <2> QED
    BY <1>8, <2>2, <2>3, DeleteEffect
<1>9. ASSUME NEW r \in Requests, ListMessagePage(r)
      PROVE  AskInv'
  <2>1. Grows
    BY <1>1, <1>9, PagesAreListed, ListEffect, Zenon
  <2>2. ASSUME NEW items, NEW t, Listed(items), Paged(req[r], t, items), Goes(r, t)
        PROVE  AskInv'
    <3>1. items \in Seq(Live) /\ Live \subseteq DOMAIN rows
      BY <2>2, LiveFacts DEF Listed, BaseInv
    <3>2. /\ Range(items) \subseteq DOMAIN rows
          /\ \A i \in 1 .. Len(items) : items[i] \in Range(items)
      BY <3>1 DEF Range
    <3>3. /\ t.todo = TNumber /\ t.page = items /\ t.queue = items /\ t.asked = Range(items)
          /\ t.wrong = FALSE
      BY <2>2 DEF Paged, Same, AskInv, AskedInv
    <3>6. t.part # "shown"
      <4>1. t.op \in ListOps /\ t.op = req[r].op /\ t.part = req[r].part /\ Shape(req[r])
        <5>1. Shape(req[r]) /\ req[r].todo # <<>> /\ Head(req[r].todo) = "list"
          BY <1>9, PagesAreListed, ListEffect, Zenon DEF BaseInv
        <5>2. Doing(req[r].op, req[r].todo)
          BY <5>1 DEF Shape
        <5>3. req[r].op \in ListOps
          BY <5>1, <5>2, TodoFacts, Zenon
        <5> QED
          BY <2>2, <5>1, <5>3 DEF Paged, Same
      <4> QED
        BY <4>1 DEF Shape, ListOps
    <3>4. Head(t.todo) = "number" /\ Unfocused(t.op, t.todo)
      BY <3>3, Heads DEF Unfocused
    <3>5. AskedInv(t, DOMAIN rows \union gone, listed \union gone, told)
      BY <3>2, <3>3, <3>4, <3>6 DEF AskedInv
    <3> QED
      BY <2>1, <2>2, <3>5, AskBecome DEF Goes
  <2> QED
    BY <1>9, <2>1, <2>2, PagesAreListed, ListEffect, AskEnds, Zenon DEF Ends
<1>10. ASSUME NEW r \in Requests, LookUp(r)
       PROVE  AskInv'
  <2>1. Grows /\ req[r].todo # <<>> /\ Head(req[r].todo) = "number" /\ req[r].queue # <<>>
    BY <1>1, <1>10, LookUpEffect
  <2>2. ASSUME NEW t, NEW m, Noted(req[r], t) \/ Known(req[r], t, m, numbers[m]), Goes(r, t)
        PROVE  AskInv'
    <3>1. /\ t.todo = req[r].todo /\ t.op = req[r].op /\ t.wrong = req[r].wrong
          /\ t.page = req[r].page /\ t.asked = req[r].asked /\ t.part = req[r].part
          /\ t.queue = req[r].queue \/ t.queue = Tail(req[r].queue)
      BY <2>2, Zenon DEF Noted, Known, Same
    <3> QED
      BY <2>1, <2>2, <3>1, AskNumbers
  <2> QED
    BY <1>10, <2>2, LookUpEffect
<1>11. ASSUME NEW r \in Requests, InsertNumber(r)
       PROVE  AskInv'
  <2> DEFINE m == req[r].msg
  <2>1. /\ Grows /\ req[r].todo # <<>> /\ Head(req[r].todo) = "number" /\ req[r].queue # <<>>
        /\ m = Head(req[r].queue)
    BY <1>1, <1>11, InsertEffect, Zenon
  <2>2. ASSUME NEW t, NEW n, Given(req[r], t, m, n) \/ Known(req[r], t, m, n), Goes(r, t)
        PROVE  AskInv'
    <3>1. /\ t.todo = req[r].todo /\ t.op = req[r].op /\ t.wrong = req[r].wrong
          /\ t.page = req[r].page /\ t.asked = req[r].asked /\ t.part = req[r].part
          /\ t.queue = Tail(req[r].queue)
      BY <2>2 DEF Given, Known, Same
    <3> QED
      BY <2>1, <2>2, <3>1, AskNumbers, Zenon
  <2>3. ASSUME m \notin DOMAIN rows, NEW b \in BOOLEAN, Ends(r, b), b => req[r].asked \intersect gone = {}
        PROVE  AskInv'
    <3>1. m \in req[r].asked /\ req[r].asked \subseteq DOMAIN rows \union gone
      <4>1. req[r].queue \in Seq(Messages) /\ AskedInv(req[r], DOMAIN rows \union gone, listed \union gone, told)
        BY Zenon DEF BaseInv, ReqRecord, AskInv
      <4>2. 1 \in 1 .. Len(req[r].queue) /\ Head(req[r].queue) = req[r].queue[1]
        BY <2>1, <4>1
      <4> QED
        BY <2>1, <4>1, <4>2 DEF AskedInv
    <3>2. ~b
      BY <2>3, <3>1
    <3> QED
      BY <2>1, <2>3, <3>2, AskEnds DEF Ends
  <2> QED
    BY <1>11, <2>2, <2>3, InsertEffect, Zenon
<1>12. ASSUME NEW r \in Requests, CommitNumbers(r)
       PROVE  AskInv'
  <2>1. PICK c : Closed(req[r], c) /\ GoesOn(r, c)
    BY <1>12, CommitEffect, Zenon
  <2>2. /\ Shape(req[r]) /\ req[r].todo # <<>> /\ Head(req[r].todo) = "number"
        /\ AskedInv(req[r], DOMAIN rows \union gone, listed \union gone, told)
    BY <1>12, CommitEffect, Zenon DEF BaseInv, AskInv
  <2>3. Grows
    BY <1>12, CommitEffect, Zenon DEF Grows
  <2>4. c \in ReqRecord /\ Shape(c) /\ c.todo # <<>> /\ Head(c.todo) = "number"
    BY <2>1, <2>2, ClosedShape DEF Closed, Same
  <2>5. AskedInv(c, DOMAIN rows \union gone, listed \union gone, told)
    BY <2>1, <2>2, Zenon DEF AskedInv, Closed, Same
  <2> QED
    BY <2>1, <2>3, <2>4, <2>5, AskGoesOn, Zenon
<1>13. ASSUME NEW r \in Requests, FindNumber(r)
       PROVE  AskInv'
  <2>1. Grows /\ Shape(req[r]) /\ req[r].todo # <<>> /\ Head(req[r].todo) = "find"
    BY <1>1, <1>13, FindEffect, Zenon DEF BaseInv
  <2>2. AskedInv(req[r], DOMAIN rows \union gone, listed \union gone, told)
    BY DEF AskInv
  <2>3. PICK p \in told : req[r].number = p[1] /\ req[r].asked = {p[2]}
    BY <2>1, <2>2 DEF AskedInv
  <2>7. PICK tl \in Pairs : told \subseteq tl /\ GivenInv(tl)
    BY Zenon DEF NumberInv
  <2>4. TableInv(numbers, tl, sequence, gone) /\ p \in tl
    BY <2>7, Zenon DEF GivenInv
  <2>5. ASSUME NEW m \in DOMAIN numbers, numbers[m] = req[r].number, NEW c, Found(req[r], c, m), GoesOn(r, c)
        PROVE  AskInv'
    <3>1. m = p[2]
      <4>1. <<numbers[m], m>> \in tl
        BY <2>4 DEF TableInv
      <4> QED
        BY <2>3, <2>4, <2>5, <4>1 DEF TableInv
    <3>2. /\ c \in ReqRecord /\ Shape(c) /\ c.todo # <<>> /\ Head(c.todo) = "find"
          /\ c.msg \in c.asked
      BY <2>1, <2>3, <2>5, <3>1, FoundShape, Zenon DEF Found, Same
    <3>3. AskedInv(c, DOMAIN rows \union gone, listed \union gone, told)
      <4>1. Unfocused(c.op, c.todo)
        BY <3>2 DEF Unfocused
      <4>2. c.part # "shown"
        <5>1. Doing(c.op, c.todo) /\ (c.part # "none" => c.op = "attachment")
          BY <3>2 DEF Shape
        <5>2. c.op \in {"raw", "parsed", "delete_number"}
          BY <3>2, <5>1, TodoFacts, Zenon
        <5> QED
          BY <5>1, <5>2
      <4> QED
        BY <2>2, <2>5, <3>2, <4>1, <4>2, Zenon DEF AskedInv, Found, Same
    <3> QED
      BY <2>1, <2>5, <3>2, <3>3, AskGoesOn, Zenon
  <2>6. ASSUME \A m \in DOMAIN numbers : numbers[m] # req[r].number, NEW b \in BOOLEAN, Ends(r, b),
               b => req[r].asked \intersect gone = {}
        PROVE  AskInv'
    <3>1. ~b
      BY <2>3, <2>4, <2>6 DEF TableInv
    <3> QED
      BY <2>1, <2>6, <3>1, AskEnds DEF Ends
  <2> QED
    BY <1>13, <2>5, <2>6, FindEffect, Zenon
<1>14. ASSUME NEW r \in Requests, CommitUnconfirmed(r)
       PROVE  AskInv'
  <2>1. Grows
    BY <1>1, <1>14, UnconfirmedEffect, Zenon
  <2> QED
    BY <1>14, <2>1, UnconfirmedEffect, AskEnds, Zenon DEF Ends
<1> QED
  BY <1>2, <1>3, <1>4, <1>7, <1>8, <1>9, <1>10, <1>11, <1>12, <1>13, <1>14, StepCases

LEMMA AskInit ==
  ASSUME Init
  PROVE  AskInv
<1>1. \A r \in Requests : /\ req[r].wrong = FALSE /\ req[r].asked = {} /\ req[r].page = <<>>
                          /\ req[r].queue = <<>> /\ req[r].todo = <<>> /\ req[r].part = "none"
  BY DEF Init, NoRequest
<1> QED
  BY <1>1 DEF AskInv, AskedInv

\* A request is told that a message, or an attachment it was shown, is missing only if a
\* message it dealt with was deleted, or the Inbox has ended.
THEOREM MissingIsGone == Spec => []MissingMeansGone
<1>1. Init => BaseInv /\ NumberInv /\ AskInv
  BY BaseInit, NumbersInit, AskInit
<1>2. BaseInv /\ NumberInv /\ AskInv /\ [Next]_vars => BaseInv' /\ NumberInv' /\ AskInv'
  BY PagesAreListed, BaseStep, NumbersStep, AskStep
<1>3. AskInv => MissingMeansGone
  BY DEF AskInv, AskedInv, MissingMeansGone
<1> QED
  BY <1>1, <1>2, <1>3, PTL DEF Spec

LEMMA OrderStep ==
  ASSUME BaseInv, AskInv, OrderInv, [Next]_vars
  PROVE  OrderInv'
<1>1. ASSUME UNCHANGED rows
      PROVE  RowsKept /\ OwnKept
  BY <1>1 DEF RowsKept, OwnKept, BaseInv
<1>2. CASE UNCHANGED vars
  BY <1>1, <1>2, OrderQuiet DEF vars, data
<1>3. ASSUME NEW ms \in SUBSET DOMAIN rows, Dropped(ms)
      PROVE  RowsKept
  BY <1>3 DEF Dropped, RowsKept, BaseInv, DataTypes
<1>4. CASE Outside
  <2>1. UNCHANGED req /\ OwnKept
    BY <1>4, OutsideTypes
  <2>2. RowsKept
    <3>1. ASSUME NEW m \in Messages, Arrive(m)
          PROVE  RowsKept
      <4>1. /\ DOMAIN rows' = DOMAIN rows \union {m} /\ m \notin DOMAIN rows \union gone
            /\ \A x \in DOMAIN rows : rows'[x] = rows[x]
        BY <3>1, ArriveData DEF BaseInv
      <4> QED
        BY <4>1 DEF RowsKept
    <3>2. CASE EndInbox
      <4>1. CASE Drop(DOMAIN rows)
        <5>1. Dropped(DOMAIN rows)
          BY <4>1 DEF Drop, Dropped
        <5> QED
          BY <1>3, <5>1
      <4>2. CASE UNCHANGED rows
        BY <1>1, <4>2
      <4> QED
        BY <3>2, <4>1, <4>2 DEF EndInbox
    <3>3. CASE SweepFile \/ StartWalk \/ NextPage \/ \E m \in Messages : Parsed(m)
      BY <1>1, <3>3 DEF SweepFile, StartWalk, NextPage, Parsed, data
    <3> QED
      BY <1>4, <3>1, <3>2, <3>3 DEF Outside
  <2> QED
    BY <2>1, <2>2, OrderQuiet
<1>5. ASSUME NEW r \in Requests, Start(r)
      PROVE  OrderInv'
  <2>1. RowsKept /\ OwnKept
    BY <1>1, <1>5, StartEffect
  <2>2. ASSUME NEW s, Fresh(s), Enters(r, s)
        PROVE  OrderInv'
    <3>1. Become(r, s) /\ s.own = {} /\ s.queue = <<>>
      BY <2>2 DEF Enters, Fresh, Blank
    <3> QED
      BY <2>1, <3>1, OrderEmpty
  <2>3. CASE TurnedAway(r)
    BY <2>1, <2>3, OrderEnds, Zenon DEF TurnedAway
  <2> QED
    BY <1>5, <2>2, <2>3, StartEffect
<1>6. ASSUME NEW r \in Requests, req[r].todo # <<>>, Head(req[r].todo) \notin {"list", "number"},
             RowsKept, OwnKept, GoesOn(r, req[r])
      PROVE  OrderInv'
  <2>1. req[r] \in ReqRecord /\ Shape(req[r]) /\ req[r].own = {}
    BY <1>6 DEF BaseInv, OrderInv, InOrder
  <2> QED
    BY <1>6, <2>1, OrderGoesOn
<1>7. ASSUME NEW r \in Requests, RowsKept, OwnKept, NEW b \in BOOLEAN, Ends(r, b)
      PROVE  OrderInv'
  BY <1>7, OrderEnds DEF Ends
<1>8. ASSUME NEW r \in Requests, Reads(r)
      PROVE  OrderInv'
  <2>1. RowsKept /\ OwnKept
    BY <1>1, <1>8, ReadEffect
  <2> QED
    BY <1>6, <1>7, <1>8, <2>1, ReadEffect
<1>9. ASSUME NEW r \in Requests, DeleteMessage(r)
      PROVE  OrderInv'
  <2>1. req[r].todo # <<>> /\ Head(req[r].todo) = "remove" /\ ~Numbering(req[r].msg)
    BY <1>9, DeleteEffect, Zenon
  <2>2. CASE req[r].msg \in Live /\ Dropped({req[r].msg}) /\ GoesOn(r, req[r])
    <3>1. RowsKept
      <4>1. {req[r].msg} \in SUBSET DOMAIN rows
        BY <2>2 DEF Live
      <4> QED
        BY <1>3, <2>2, <4>1
    <3>2. OwnKept
      BY <2>1, <2>2 DEF Numbering, Dropped, OwnKept, BaseInv
    <3> QED
      BY <1>6, <2>1, <2>2, <3>1, <3>2
  <2>3. CASE UNCHANGED rows /\ \E b \in BOOLEAN : Ends(r, b)
    BY <1>1, <1>7, <2>3
  <2> QED
    BY <1>9, <2>2, <2>3, DeleteEffect
<1>10. ASSUME NEW r \in Requests, ListMessagePage(r)
       PROVE  OrderInv'
  <2>1. RowsKept /\ OwnKept /\ UNCHANGED rows
    BY <1>1, <1>10, PagesAreListed, ListEffect, Zenon
  <2>2. req[r].own = {}
    BY <1>10, PagesAreListed, ListEffect, Zenon DEF OrderInv, InOrder
  <2>3. ASSUME NEW items, NEW t, Listed(items), Paged(req[r], t, items), Goes(r, t)
        PROVE  OrderInv'
    <3>1. t.own = {} /\ t.queue = items
      BY <2>2, <2>3 DEF Paged
    <3>2. DOMAIN items = 1 .. Len(items) /\ Sorted(items)
      BY <2>3 DEF Listed
    <3>3. InOrder(t, rows)
      BY <3>1, <3>2 DEF InOrder, Sorted, Newer, After
    <3> QED
      BY <2>1, <2>3, <3>3, OrderBecome DEF Goes
  <2> QED
    BY <1>7, <1>10, <2>1, <2>3, PagesAreListed, ListEffect, Zenon
<1>11. ASSUME NEW r \in Requests, LookUp(r)
       PROVE  OrderInv'
  <2>1. /\ RowsKept /\ OwnKept /\ UNCHANGED rows
        /\ req[r].todo # <<>> /\ Head(req[r].todo) = "number" /\ req[r].queue # <<>>
    BY <1>1, <1>11, LookUpEffect
  <2>2. ASSUME NEW t, Noted(req[r], t), Goes(r, t)
        PROVE  OrderInv'
    <3>1. t.own = req[r].own /\ t.queue = req[r].queue /\ t.todo = req[r].todo
      BY <2>2 DEF Noted
    <3>2. InOrder(t, rows')
      BY <2>1, <3>1, Zenon DEF OrderInv, InOrder
    <3> QED
      BY <2>1, <2>2, <3>2, OrderBecome DEF Goes
  <2>3. ASSUME NEW t, NEW m, Known(req[r], t, m, numbers[m]), Goes(r, t)
        PROVE  OrderInv'
    <3>1. t.own = req[r].own /\ t.queue = Tail(req[r].queue) /\ t.todo = req[r].todo
      BY <2>3 DEF Known
    <3> QED
      BY <2>1, <2>3, <3>1, OrderTail
  <2> QED
    BY <1>11, <2>2, <2>3, LookUpEffect, Zenon
<1>12. ASSUME NEW r \in Requests, InsertNumber(r)
       PROVE  OrderInv'
  <2> DEFINE m == req[r].msg
  <2>1. /\ RowsKept /\ OwnKept /\ UNCHANGED rows /\ m = Head(req[r].queue)
        /\ req[r].todo # <<>> /\ Head(req[r].todo) = "number" /\ req[r].queue # <<>>
    BY <1>1, <1>12, InsertEffect, Zenon
  <2>2. ASSUME NEW t, NEW n, Known(req[r], t, m, n) \/ (Given(req[r], t, m, n) /\ m \in DOMAIN rows), Goes(r, t)
        PROVE  OrderInv'
    <3>1. /\ t.queue = Tail(req[r].queue) /\ t.todo = req[r].todo
          /\ t.own = req[r].own \/ (t.own = req[r].own \union {m} /\ m \in DOMAIN rows)
      BY <2>2, Zenon DEF Known, Given
    <3> QED
      BY <2>1, <2>2, <3>1, OrderTail, Zenon
  <2> QED
    BY <1>7, <1>12, <2>1, <2>2, InsertEffect, Zenon
<1>13. ASSUME NEW r \in Requests, CommitNumbers(r)
       PROVE  OrderInv'
  <2>1. PICK c : Closed(req[r], c) /\ GoesOn(r, c)
    BY <1>13, CommitEffect, Zenon
  <2>2. Shape(req[r]) /\ req[r].todo # <<>> /\ Head(req[r].todo) = "number" /\ RowsKept /\ OwnKept
    BY <1>1, <1>13, CommitEffect, Zenon DEF BaseInv
  <2>3. /\ c \in ReqRecord /\ Shape(c) /\ c.todo # <<>> /\ Head(c.todo) # "list" /\ c.own = {}
        /\ c.queue = req[r].queue
    BY <2>1, <2>2, ClosedShape DEF Closed, Same
  <2> QED
    BY <2>1, <2>2, <2>3, OrderGoesOn, Zenon
<1>14. ASSUME NEW r \in Requests, FindNumber(r)
       PROVE  OrderInv'
  <2>1. Shape(req[r]) /\ req[r].todo # <<>> /\ Head(req[r].todo) = "find" /\ RowsKept /\ OwnKept
    BY <1>1, <1>14, FindEffect, Zenon DEF BaseInv
  <2>2. req[r].own = {}
    BY <2>1 DEF OrderInv, InOrder
  <2>3. ASSUME NEW m, NEW c, Found(req[r], c, m), GoesOn(r, c)
        PROVE  OrderInv'
    <3>1. /\ c \in ReqRecord /\ Shape(c) /\ c.todo # <<>> /\ Head(c.todo) # "list" /\ c.own = {}
          /\ c.queue = req[r].queue
      BY <2>1, <2>2, <2>3, FoundShape, Zenon DEF Found, Same
    <3> QED
      BY <2>1, <2>3, <3>1, OrderGoesOn
  <2> QED
    BY <1>7, <1>14, <2>1, <2>3, FindEffect, Zenon
<1>15. ASSUME NEW r \in Requests, CommitUnconfirmed(r)
       PROVE  OrderInv'
  <2>1. RowsKept /\ OwnKept /\ Ends(r, FALSE)
    BY <1>1, <1>15, UnconfirmedEffect, Zenon
  <2> QED
    BY <1>7, <2>1, Zenon
<1> QED
  BY <1>2, <1>4, <1>5, <1>8, <1>9, <1>10, <1>11, <1>12, <1>13, <1>14, <1>15, StepCases

\* A request that is waited for and waits is at an older message than the one that waits for it.
LEMMA WaitsForOlder ==
  ASSUME BaseInv, OrderInv, NEW r \in Requests, NEW s \in Requests, WaitsFor(r, s), req[s].msg \in DOMAIN rows
  PROVE  Newer(req[r].msg, req[s].msg)
<1>1. req[r].msg \in req[s].own /\ InOrder(req[s], rows)
  BY DEF WaitsFor, OrderInv
<1>2. req[s].todo # <<>> /\ Head(req[s].todo) = "number"
  BY <1>1 DEF InOrder
<1>3. req[s].msg # 0
  BY ApiAssumption DEF BaseInv, DataTypes, RowTypes
<1>4. req[s].queue # <<>> /\ req[s].msg = Head(req[s].queue) /\ req[s].queue \in Seq(Messages)
  BY <1>2, <1>3 DEF BaseInv, Shape, ReqRecord
<1>5. 1 \in 1 .. Len(req[s].queue) /\ req[s].msg = req[s].queue[1]
  BY <1>4
<1>6. After(rows, req[r].msg, req[s].msg)
  BY <1>1, <1>5, Zenon DEF InOrder
<1> QED
  BY <1>6 DEF After, Newer

\* Of the requests that wait, the one at the oldest message waits for none of them.
LEMMA NoCircle ==
  ASSUME BaseInv, OrderInv
  PROVE  NoCircularWait
<1>1. SUFFICES ASSUME NEW S \in (SUBSET Requests) \ {{}}, \A r \in S : \E s \in S : WaitsFor(r, s)
               PROVE  FALSE
  BY DEF NoCircularWait
<1> DEFINE M == {req[r].msg : r \in S}
<1>2. \A r \in S : req[r].msg \in DOMAIN rows
  <2>1. \A r \in S, s \in S : WaitsFor(r, s) => req[r].msg \in DOMAIN rows
    BY DEF WaitsFor, BaseInv
  <2> QED
    BY <1>1, <2>1
<1>3. M \in SUBSET DOMAIN rows /\ M # {} /\ RowTypes
  <2>1. M \in SUBSET DOMAIN rows
    BY <1>2
  <2>2. \E r \in S : TRUE
    BY <1>1
  <2>3. M # {}
    BY <2>2, Zenon
  <2>4. RowTypes
    BY DEF BaseInv, DataTypes
  <2> QED
    BY <2>1, <2>3, <2>4
<1>4. PICK m \in M : \A n \in M : n = m \/ Newer(n, m)
  BY <1>3, Oldest, Zenon
<1>5. PICK r \in S : req[r].msg = m
  BY <1>4
<1>6. PICK s \in S : WaitsFor(r, s)
  BY <1>1
<1>7. Newer(m, req[s].msg) /\ req[s].msg \in M /\ req[s].msg \in DOMAIN rows /\ m \in DOMAIN rows
  <2>1. r \in Requests /\ s \in Requests
    BY <1>1
  <2>2. Newer(req[r].msg, req[s].msg)
    BY <1>2, <1>6, <2>1, WaitsForOlder
  <2>3. req[s].msg \in M
    OBVIOUS
  <2> HIDE DEF M
  <2> QED
    BY <1>3, <1>5, <2>2, <2>3
<1> HIDE DEF M
<1> QED
  BY <1>3, <1>4, <1>7, NewerFacts

\* Requests that number and delete the same messages never wait for each other in a circle.
THEOREM NobodyWaitsInACircle == Spec => []NoCircularWait
<1>1. Init => BaseInv /\ NumberInv /\ AskInv /\ OrderInv
  <2>1. ASSUME Init
        PROVE  OrderInv
    <3>1. \A r \in Requests : req[r].own = {} /\ req[r].queue = <<>>
      BY <2>1 DEF Init, NoRequest
    <3> QED
      BY <3>1 DEF OrderInv, InOrder
  <2> QED
    BY <2>1, BaseInit, NumbersInit, AskInit
<1>2. BaseInv /\ NumberInv /\ AskInv /\ OrderInv /\ [Next]_vars
        => BaseInv' /\ NumberInv' /\ AskInv' /\ OrderInv'
  BY PagesAreListed, BaseStep, NumbersStep, AskStep, OrderStep
<1>3. BaseInv /\ OrderInv => NoCircularWait
  BY NoCircle
<1> QED
  BY <1>1, <1>2, <1>3, PTL DEF Spec
=============================================================================
