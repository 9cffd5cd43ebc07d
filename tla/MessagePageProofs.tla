-------------------------- MODULE MessagePageProofs --------------------------
(***************************************************************************)
(* Proofs about pages: what ORDER BY and LIMIT list, for any set of rows   *)
(* and any page size, and what one page adds to a walk along the cursors.  *)
(***************************************************************************)
EXTENDS MessageApi, FiniteSetTheorems, TLAPS

-----------------------------------------------------------------------------
(* ORDER BY received_at DESC, id DESC.                                     *)

LEMMA Least ==
  ASSUME NEW T, T \subseteq Nat, T # {}
  PROVE  \E m \in T : \A n \in T : m <= n
<1> DEFINE R == {p \in Nat \X Nat : p[1] < p[2]}
<1>1. IsWellFoundedOn(R, Nat)
  BY NatLessThanWellFounded DEF OpToRel
<1> HIDE DEF R
<1>2. PICK m \in T : \A n \in T : <<n, m>> \notin R
  BY <1>1, WFMin, Zenon
<1>3. \A n \in T : ~(n < m)
  BY <1>2, Zenon DEF R
<1> QED
  BY <1>3

LEMMA NewerFacts ==
  ASSUME RowTypes
  PROVE  /\ \A m \in DOMAIN rows : ~Newer(m, m)
         /\ \A m, n \in DOMAIN rows : m # n => Newer(m, n) \/ Newer(n, m)
         /\ \A m, n \in DOMAIN rows : Newer(m, n) => ~Newer(n, m)
         /\ \A k, m, n \in DOMAIN rows : Newer(k, m) /\ Newer(m, n) => Newer(k, n)
<1>1. \A m \in DOMAIN rows : m \in Nat /\ rows[m] \in Nat
  BY ApiAssumption, Zenon DEF RowTypes
<1> QED
  BY <1>1 DEF Newer

LEMMA Oldest ==
  ASSUME RowTypes, NEW T \in SUBSET DOMAIN rows, T # {}
  PROVE  \E m \in T : \A n \in T : n = m \/ Newer(n, m)
<1>1. \A m \in T : m \in Nat /\ rows[m] \in Nat
  BY ApiAssumption, Zenon DEF RowTypes
<1> DEFINE U == {rows[m] : m \in T}
<1>2. PICK t \in U : \A u \in U : t <= u
  <2>1. U \subseteq Nat /\ U # {}
    BY <1>1
  <2> QED
    BY <2>1, Least, Zenon
<1> DEFINE W == {m \in T : rows[m] = t}
<1>3. PICK m \in W : \A n \in W : m <= n
  <2>1. W \subseteq Nat /\ W # {}
    BY <1>1, <1>2
  <2> QED
    BY <2>1, Least, Zenon
<1>4. ASSUME NEW n \in T, n # m
      PROVE  Newer(n, m)
  <2>1. /\ n \in Nat /\ m \in Nat /\ rows[n] \in Nat /\ rows[m] \in Nat
        /\ rows[m] = t /\ t <= rows[n]
    BY <1>1, <1>2
  <2>2. rows[n] = t => m <= n
    BY <1>3
  <2> QED
    BY <1>4, <2>1, <2>2 DEF Newer
<1> QED
  BY <1>4

\* Every set of messages can be listed in order.
LEMMA SortedExists ==
  ASSUME RowTypes, NEW S \in SUBSET DOMAIN rows
  PROVE  \E q \in [1 .. Cardinality(S) -> S] : Sorted(q)
<1> DEFINE Listed(T) == \E q \in [1 .. Cardinality(T) -> T] : Sorted(q)
           Bad == {Cardinality(T) : T \in {U \in SUBSET S : ~Listed(U)}}
<1>1. \A T \in SUBSET S : IsFiniteSet(T) /\ Cardinality(T) \in Nat
  BY ApiAssumption, FS_Subset, FS_CardinalityType DEF RowTypes
<1>2. SUFFICES ASSUME Bad # {} PROVE FALSE
  OBVIOUS
<1>3. PICK n \in Bad : \A k \in Bad : n <= k
  <2>1. Bad \subseteq Nat
    BY <1>1
  <2> QED
    BY <1>2, <2>1, Least, Zenon
<1>4. PICK T \in SUBSET S : Cardinality(T) = n /\ ~Listed(T)
  OBVIOUS
<1>5. n \in Nat
  BY <1>1, <1>4
<1>6. CASE T = {}
  <2>1. n = 0
    BY <1>4, <1>6, FS_EmptySet
  <2>2. [i \in 1 .. 0 |-> 0] \in [1 .. Cardinality(T) -> T] /\ Sorted([i \in 1 .. 0 |-> 0])
    BY <1>4, <2>1 DEF Sorted
  <2> QED
    BY <1>4, <2>2, Zenon
<1>7. CASE T # {}
  <2>1. PICK m \in T : \A k \in T : k = m \/ Newer(k, m)
    BY <1>7, Oldest
  <2> DEFINE V == T \ {m}
  <2>2. V \in SUBSET S /\ Cardinality(V) = n - 1 /\ n - 1 \in Nat
    <3>1. Cardinality(V) = n - 1
      BY <1>1, <1>4, FS_RemoveElement
    <3> QED
      BY <1>1, <3>1
  <2>3. Listed(V)
    <3>1. n - 1 \notin Bad
      BY <1>3, <1>5
    <3> QED
      BY <2>2, <3>1, Zenon
  <2>4. PICK q \in [1 .. (n - 1) -> V] : Sorted(q)
    BY <2>2, <2>3, Zenon
  <2> DEFINE w == [i \in 1 .. n |-> IF i = n THEN m ELSE q[i]]
  <2>5. w \in [1 .. n -> T]
    BY <1>5, <2>2
  <2>6. Sorted(w)
    <3>1. ASSUME NEW i \in 1 .. n, NEW j \in 1 .. n, i < j
          PROVE  Newer(w[i], w[j])
      <4>1. i \in 1 .. (n - 1) /\ w[i] = q[i] /\ q[i] \in V
        BY <1>5, <3>1
      <4>2. CASE j = n
        BY <2>1, <4>1, <4>2
      <4>3. CASE j # n
        <5>1. j \in 1 .. (n - 1) /\ w[j] = q[j]
          BY <1>5, <4>3
        <5> QED
          BY <2>4, <3>1, <4>1, <5>1 DEF Sorted
      <4> QED
        BY <4>2, <4>3
    <3> QED
      BY <3>1 DEF Sorted
  <2> QED
    BY <1>4, <2>5, <2>6
<1> QED
  BY <1>6, <1>7

\* Newest lists each message of the set once, and in order.
LEMMA NewestFacts ==
  ASSUME RowTypes, NEW S \in SUBSET DOMAIN rows
  PROVE  /\ Newest(S) \in Seq(S) /\ Len(Newest(S)) = Cardinality(S)
         /\ Sorted(Newest(S))
         /\ \A m \in S : \E i \in 1 .. Cardinality(S) : Newest(S)[i] = m
<1> DEFINE n == Cardinality(S)
           q == Newest(S)
<1>1. q \in [1 .. n -> S] /\ Sorted(q)
  BY SortedExists DEF Newest
<1>2. IsFiniteSet(S) /\ n \in Nat
  BY ApiAssumption, FS_Subset, FS_CardinalityType DEF RowTypes
<1> HIDE DEF n, q
<1>3. q \in Seq(S) /\ Len(q) = n
  BY <1>1, <1>2
<1>4. q \in Injection(1 .. n, S)
  <2>1. ASSUME NEW i \in 1 .. n, NEW j \in 1 .. n, q[i] = q[j]
        PROVE  i = j
    <3>1. q[i] \in DOMAIN rows /\ ~Newer(q[i], q[i])
      BY <1>1, NewerFacts
    <3>2. i < j => Newer(q[i], q[j])
      BY <1>1 DEF Sorted
    <3>3. j < i => Newer(q[j], q[i])
      BY <1>1 DEF Sorted
    <3>4. ~(i < j) /\ ~(j < i)
      BY <2>1, <3>1, <3>2, <3>3
    <3> QED
      BY <1>2, <3>4
  <2> QED
    BY <1>1, <2>1 DEF Injection, IsInjective
<1>5. q \in Surjection(1 .. n, S)
  <2>1. Cardinality(1 .. n) = n
    BY <1>2, FS_Interval
  <2> QED
    BY <1>2, <1>4, <2>1, FS_Injection DEF n
<1>6. \A m \in S : \E i \in 1 .. n : q[i] = m
  BY <1>5 DEF Surjection
<1> QED
  BY <1>1, <1>3, <1>6 DEF n, q

LEMMA FirstFacts ==
  ASSUME NEW S, NEW q \in Seq(S), NEW n \in Nat
  PROVE  /\ First(n, q) \in Seq(S) /\ Len(First(n, q)) = IF Len(q) < n THEN Len(q) ELSE n
         /\ \A i \in 1 .. Len(First(n, q)) : i \in 1 .. Len(q) /\ First(n, q)[i] = q[i]
<1> DEFINE k == IF Len(q) < n THEN Len(q) ELSE n
<1>1. k \in Nat /\ k <= Len(q) /\ Len(q) \in Nat
  OBVIOUS
<1> HIDE DEF k
<1>2. First(n, q) = SubSeq(q, 1, k)
  BY DEF First, k
<1>3. \A i \in 1 .. k : q[i] \in S
  <2>1. \A i \in 1 .. Len(q) : q[i] \in S
    OBVIOUS
  <2> QED
    BY <1>1, <2>1
<1>4. SubSeq(q, 1, k) \in Seq(S) /\ Len(SubSeq(q, 1, k)) = k /\ \A i \in 1 .. k : SubSeq(q, 1, k)[i] = q[i]
  BY <1>1, <1>3
<1>5. 1 .. k \subseteq 1 .. Len(q)
  BY <1>1
<1> QED
  BY <1>2, <1>4, <1>5 DEF k

-----------------------------------------------------------------------------
(* One page of the walk.                                                   *)

\* m comes after the cursor b.
Under(rs, m, b) == rs[m] < b[1] \/ (rs[m] = b[1] /\ m < b[2])

LEMMA BelowFacts ==
  ASSUME DataTypes, NEW b
  PROVE  /\ Below(b) \in SUBSET DOMAIN rows /\ Below(b) \subseteq Live
         /\ \A m \in Live : m \in Below(b) <=> (b # <<>> => Under(rows, m, b))
BY DEF Below, Under, Live, DataTypes

\* A page is a prefix of what is left, in order; without a cursor it is all of it.
LEMMA PrefixFacts ==
  ASSUME DataTypes, NEW b, NEW items, NEW found,
         found = First(Limit + 1, Newest(Below(b))), items = First(Limit, found)
  PROVE  /\ items \in Seq(Below(b)) /\ Sorted(items)
         /\ Len(found) > Limit => Len(items) = Limit
         /\ \A m \in Below(b) :
              \/ \E i \in 1 .. Len(items) : items[i] = m
              \/ Len(found) > Limit /\ Newer(items[Limit], m)
<1> DEFINE S == Below(b)
           q == Newest(S)
           n == Cardinality(S)
<1>1. S \in SUBSET DOMAIN rows /\ RowTypes
  BY BelowFacts DEF DataTypes
<1>2. q \in Seq(S) /\ Len(q) = n /\ Sorted(q) /\ \A m \in S : \E i \in 1 .. n : q[i] = m
  BY <1>1, NewestFacts
<1>3. n \in Nat /\ Limit \in Nat /\ Limit + 1 \in Nat
  BY <1>2, ApiAssumption
<1> HIDE DEF S, q, n
<1>4. /\ found \in Seq(S) /\ Len(found) = (IF n < Limit + 1 THEN n ELSE Limit + 1)
      /\ \A i \in 1 .. Len(found) : i \in 1 .. n /\ found[i] = q[i]
  <2>1. found = First(Limit + 1, q)
    BY DEF q, S
  <2> QED
    BY <1>2, <1>3, <2>1, FirstFacts
<1>5. /\ items \in Seq(S) /\ Len(items) = (IF Len(found) < Limit THEN Len(found) ELSE Limit)
      /\ \A i \in 1 .. Len(items) : i \in 1 .. Len(found) /\ items[i] = found[i]
  BY <1>3, <1>4, FirstFacts
<1> DEFINE k == Len(items)
<1> HIDE DEF k
<1>6. k \in Nat /\ k = (IF n < Limit THEN n ELSE Limit) /\ (Len(found) > Limit <=> n > Limit)
  BY <1>3, <1>4, <1>5 DEF k
<1>7. \A i \in 1 .. k : i \in 1 .. n /\ items[i] = q[i]
  BY <1>4, <1>5 DEF k
<1>8. DOMAIN q = 1 .. n /\ DOMAIN items = 1 .. k
  BY <1>2, <1>5 DEF k
<1>9. Sorted(items)
  <2>1. ASSUME NEW i \in 1 .. k, NEW j \in 1 .. k, i < j
        PROVE  Newer(items[i], items[j])
    <3>1. i \in DOMAIN q /\ j \in DOMAIN q /\ items[i] = q[i] /\ items[j] = q[j]
      BY <1>7, <1>8
    <3> QED
      BY <1>2, <2>1, <3>1 DEF Sorted
  <2> QED
    BY <1>8, <2>1, Zenon DEF Sorted
<1>10. ASSUME NEW m \in S
       PROVE  \/ \E i \in 1 .. k : items[i] = m
              \/ n > Limit /\ Newer(items[Limit], m)
  <2>1. PICK i \in 1 .. n : q[i] = m
    BY <1>2
  <2>2. CASE i \in 1 .. k
    BY <1>7, <2>1, <2>2
  <2>3. CASE i \notin 1 .. k
    <3>1. n > Limit /\ k = Limit /\ Limit < i /\ Limit \in 1 .. k
      BY <1>3, <1>6, <2>3, ApiAssumption
    <3>2. items[Limit] = q[Limit] /\ Limit \in 1 .. n
      BY <1>7, <3>1
    <3>3. Newer(q[Limit], q[i])
      BY <1>2, <1>8, <3>1, <3>2 DEF Sorted
    <3> QED
      BY <2>1, <3>1, <3>2, <3>3
  <2> QED
    BY <2>2, <2>3
<1>11. n > Limit => k = Limit
  BY <1>3, <1>6
<1> QED
  BY <1>5, <1>6, <1>9, <1>10, <1>11 DEF S, k

-----------------------------------------------------------------------------
(* The walk.                                                               *)

WalkRecord ==
  [pc: {"idle", "walking", "end"}, before: {<<>>} \union (Nat \X Messages), got: Seq(Messages),
   kept: SUBSET Messages]

\* Shown is what is or was there; what was shown is not under the cursor, and what was
\* there all the time and is not under it was shown.
WalkOK(w, rs, g, l) ==
  /\ w \in WalkRecord
  /\ w.pc = "walking" => w.before # <<>>
  /\ Range(w.got) \subseteq DOMAIN rs \union g
  /\ \A i, j \in DOMAIN w.got : i # j => w.got[i] # w.got[j]
  /\ w.kept \subseteq l
  /\ w.pc = "walking" => \A m \in DOMAIN rs :
       /\ m \in Range(w.got) => ~Under(rs, m, w.before)
       /\ m \in w.kept /\ ~Under(rs, m, w.before) => m \in Range(w.got)
  /\ w.pc = "end" => w.kept \subseteq Range(w.got)

WalkInv == DataTypes /\ WalkOK(walk, rows, gone, Live)

LEMMA ListStep ==
  ASSUME DataTypes, NEW w \in WalkRecord, NEW b \in {<<>>} \union (Nat \X Messages),
         ListMessages(w, b), w.kept \subseteq Live, Range(w.got) \subseteq DOMAIN rows \union gone,
         \A i, j \in DOMAIN w.got : i # j => w.got[i] # w.got[j],
         \A m \in DOMAIN rows :
           /\ m \in Range(w.got) => b # <<>> /\ ~Under(rows, m, b)
           /\ m \in w.kept /\ b # <<>> /\ ~Under(rows, m, b) => m \in Range(w.got)
  PROVE  WalkOK(walk', rows, gone, Live)
<1> DEFINE found == First(Limit + 1, Newest(Below(b)))
           items == First(Limit, found)
           last == items[Len(items)]
           more == Len(found) > Limit
           c == <<rows[last], last>>
           v == [w EXCEPT !.got = @ \o items, !.pc = IF more THEN "walking" ELSE "end",
                          !.before = IF more THEN c ELSE <<>>]
<1>0. RowTypes /\ Live \subseteq DOMAIN rows
  BY DEF DataTypes, Live
<1>1. walk' = v
  BY DEF ListMessages
<1>2. /\ items \in Seq(Below(b)) /\ Sorted(items)
      /\ more => Len(items) = Limit
      /\ \A m \in Below(b) :
              \/ \E i \in 1 .. Len(items) : items[i] = m
              \/ more /\ Newer(items[Limit], m)
  BY PrefixFacts
<1>3. /\ Below(b) \in SUBSET DOMAIN rows /\ Below(b) \subseteq Live
      /\ \A m \in Live : m \in Below(b) <=> (b # <<>> => Under(rows, m, b))
  BY BelowFacts
<1>4. /\ DOMAIN rows \subseteq Messages /\ \A m \in DOMAIN rows : m \in Nat /\ rows[m] \in Nat
      /\ Live \subseteq DOMAIN rows
  BY <1>0, ApiAssumption DEF RowTypes
<1> DEFINE k == Len(items)
           n == Len(w.got)
           got == w.got \o items
<1> HIDE DEF found
<1>5. /\ items \in Seq(Messages) /\ w.got \in Seq(Messages) /\ k \in Nat /\ n \in Nat
      /\ DOMAIN items = 1 .. k /\ DOMAIN w.got = 1 .. n
      /\ \A i \in 1 .. k : items[i] \in Below(b)
  <2>1. Below(b) \subseteq Messages
    BY <1>3, <1>4
  <2>2. items \in Seq(Messages) /\ \A i \in 1 .. k : items[i] \in Below(b)
    BY <1>2, <2>1
  <2> QED
    BY <2>2 DEF WalkRecord
<1> HIDE DEF items
<1>6. /\ got \in Seq(Messages) /\ DOMAIN got = 1 .. (n + k)
      /\ \A i \in 1 .. n : got[i] = w.got[i]
      /\ \A i \in 1 .. (n + k) : i \notin 1 .. n => i - n \in 1 .. k /\ got[i] = items[i - n]
      /\ \A i \in 1 .. k : n + i \in 1 .. (n + k) /\ got[n + i] = items[i]
  <2>1. Len(got) = n + k /\ got \in Seq(Messages)
    BY <1>5
  <2>2. \A i \in 1 .. (n + k) : got[i] = IF i <= n THEN w.got[i] ELSE items[i - n]
    BY <1>5
  <2> QED
    BY <1>5, <2>1, <2>2
<1> HIDE DEF n, k
<1>7. Range(got) = Range(w.got) \union Range(items)
  <2>1. Range(got) \subseteq Range(w.got) \union Range(items)
    BY <1>5, <1>6 DEF Range
  <2>2. Range(w.got) \subseteq Range(got)
    <3>1. \A i \in 1 .. n : i \in 1 .. (n + k)
      BY <1>5
    <3>2. \A i \in 1 .. n : w.got[i] \in Range(got)
      BY <1>6, <3>1, Zenon DEF Range
    <3> QED
      BY <1>5, <3>2 DEF Range
  <2>3. Range(items) \subseteq Range(got)
    <3>1. ASSUME NEW i \in 1 .. k
          PROVE  items[i] \in Range(got)
      <4>1. n + i \in DOMAIN got /\ got[n + i] = items[i]
        BY <1>6, Zenon
      <4> QED
        BY <4>1 DEF Range
    <3> QED
      BY <1>5, <3>1, Zenon DEF Range
  <2> QED
    BY <2>1, <2>2, <2>3
<1>8. Range(items) \subseteq Below(b)
  BY <1>5 DEF Range

<1>9. Range(w.got) \intersect Below(b) = {}
  <2>1. ASSUME NEW m \in Range(w.got), m \in Below(b)
        PROVE  FALSE
    <3>1. m \in DOMAIN rows /\ m \in Live
      BY <1>3, <2>1
    <3>2. b # <<>> /\ ~Under(rows, m, b)
      BY <3>1
    <3> QED
      BY <1>3, <2>1, <3>1, <3>2
  <2> QED
    BY <2>1
<1>10. ASSUME NEW i \in DOMAIN got, NEW j \in DOMAIN got, i # j, got[i] = got[j]
       PROVE  FALSE
  <2>1. ASSUME NEW x \in 1 .. k, NEW y \in 1 .. k, x # y
        PROVE  items[x] # items[y]
    <3>1. x < y \/ y < x
      BY <1>5, <2>1
    <3>2. Newer(items[x], items[y]) \/ Newer(items[y], items[x])
      BY <1>2, <1>5, <3>1, Zenon DEF Sorted
    <3>3. items[x] \in DOMAIN rows
      BY <1>3, <1>5
    <3>4. ~Newer(items[x], items[x])
      BY <1>0, <3>3, NewerFacts
    <3> QED
      BY <3>2, <3>4
  <2>2. CASE i \in 1 .. n /\ j \in 1 .. n
    BY <1>5, <1>6, <1>10, <2>2, Zenon
  <2>3. CASE i \in 1 .. n /\ j \notin 1 .. n
    <3>1. got[i] = w.got[i] /\ j - n \in 1 .. k /\ got[j] = items[j - n]
      BY <1>6, <1>10, <2>3, Zenon
    <3>2. got[i] \in Range(w.got) /\ got[j] \in Range(items)
      BY <1>5, <2>3, <3>1 DEF Range
    <3> QED
      BY <1>8, <1>9, <1>10, <3>2
  <2>4. CASE i \notin 1 .. n /\ j \in 1 .. n
    <3>1. got[j] = w.got[j] /\ i - n \in 1 .. k /\ got[i] = items[i - n]
      BY <1>6, <1>10, <2>4, Zenon
    <3>2. got[j] \in Range(w.got) /\ got[i] \in Range(items)
      BY <1>5, <2>4, <3>1 DEF Range
    <3> QED
      BY <1>8, <1>9, <1>10, <3>2
  <2>5. CASE i \notin 1 .. n /\ j \notin 1 .. n
    <3>1. i - n \in 1 .. k /\ j - n \in 1 .. k /\ got[i] = items[i - n] /\ got[j] = items[j - n]
      BY <1>6, <1>10, <2>5, Zenon
    <3>2. i - n # j - n
      <4>1. i \in Int /\ j \in Int
        BY <1>5, <1>6
      <4> QED
        BY <1>5, <1>10, <4>1
    <3> QED
      BY <1>10, <2>1, <3>1, <3>2, Zenon
  <2> QED
    BY <2>2, <2>3, <2>4, <2>5
<1>11. ASSUME more
       PROVE  /\ last \in Below(b) /\ last = items[Limit] /\ k = Limit /\ c \in Nat \X Messages
              /\ rows[last] \in Nat /\ last \in Nat
  <2>1. Limit \in 1 .. k /\ k = Limit
    BY <1>2, <1>11, ApiAssumption DEF k
  <2>2. last \in Below(b) /\ last = items[Limit]
    BY <1>5, <2>1 DEF k
  <2> QED
    BY <1>3, <1>4, <2>1, <2>2
<1> DEFINE p == IF more THEN "walking" ELSE "end"
           d == IF more THEN c ELSE <<>>
<1>12. p \in {"idle", "walking", "end"} /\ d \in {<<>>} \union (Nat \X Messages)
  BY <1>11
<1> HIDE DEF got, p, d
<1>13. v \in WalkRecord /\ v.pc = p /\ v.before = d /\ v.got = got /\ v.kept = w.kept
  <2>1. v = [w EXCEPT !.got = got, !.pc = p, !.before = d]
    BY DEF got, p, d
  <2> HIDE DEF v
  <2> QED
    BY <1>6, <1>12, <2>1, Zenon DEF WalkRecord
<1> HIDE DEF v, last
<1>14. ASSUME more
       PROVE  v.pc = "walking" /\ v.before = c /\ c # <<>>
  BY <1>13, <1>14 DEF p, d
<1>15. ASSUME ~more
       PROVE  v.pc = "end"
  BY <1>13, <1>15 DEF p
<1>16. Range(v.got) \subseteq DOMAIN rows \union gone
  BY <1>3, <1>7, <1>8, <1>13
<1>17. ASSUME more, NEW m \in DOMAIN rows
       PROVE  /\ m \in Range(got) => ~Under(rows, m, c)
              /\ m \in w.kept /\ ~Under(rows, m, c) => m \in Range(got)
  <2>1. /\ m \in Nat /\ rows[m] \in Nat /\ rows[last] \in Nat /\ last \in Nat
        /\ last \in Live /\ last \in DOMAIN rows
    BY <1>3, <1>4, <1>11, <1>17
  <2>2. Under(rows, m, c) <=> Newer(last, m)
    BY <2>1 DEF Under, Newer
  <2>3. ASSUME m \in Range(w.got)
        PROVE  ~Newer(last, m)
    <3>1. b # <<>> /\ ~Under(rows, m, b)
      BY <2>3
    <3>2. b[1] \in Nat /\ b[2] \in Nat
      BY <3>1, ApiAssumption, Zenon
    <3>3. Under(rows, last, b)
      BY <1>3, <1>11, <1>17, <2>1, <3>1
    <3> QED
      BY <2>1, <3>1, <3>2, <3>3 DEF Under, Newer
  <2>4. ASSUME m \in Range(items)
        PROVE  ~Newer(last, m)
    <3>1. PICK i \in 1 .. k : items[i] = m
      BY <1>5, <2>4 DEF Range
    <3>2. last = items[k] /\ k \in 1 .. k /\ (i = k \/ i < k)
      BY <1>5, <1>11, <1>17, ApiAssumption
    <3>3. i = k \/ Newer(m, last)
      BY <1>2, <1>5, <3>1, <3>2 DEF Sorted
    <3>4. ~Newer(m, m) /\ (Newer(m, last) => ~Newer(last, m))
      BY <1>0, <2>1, NewerFacts
    <3> QED
      BY <3>1, <3>2, <3>3, <3>4
  <2>5. ASSUME m \in w.kept, ~Newer(last, m)
        PROVE  m \in Range(got)
    <3>1. CASE m \in Below(b)
      <4>1. \E i \in 1 .. k : items[i] = m
        BY <1>2, <1>11, <1>17, <2>5, <3>1 DEF k
      <4> QED
        BY <1>5, <1>7, <4>1, Zenon DEF Range
    <3>2. CASE m \notin Below(b)
      <4>1. m \in Live
        BY <2>5
      <4>2. b # <<>> /\ ~Under(rows, m, b)
        BY <1>3, <3>2, <4>1
      <4> QED
        BY <1>7, <2>5, <4>2
    <3> QED
      BY <3>1, <3>2
  <2> QED
    BY <1>7, <2>2, <2>3, <2>4, <2>5
<1>18. ASSUME ~more, NEW m \in w.kept
       PROVE  m \in Range(got)
  <2>1. m \in Live /\ m \in DOMAIN rows
    BY <1>4
  <2>2. CASE m \in Below(b)
    <3>1. \E i \in 1 .. k : items[i] = m
      BY <1>2, <1>18, <2>2 DEF k
    <3> QED
      BY <1>5, <1>7, <3>1 DEF Range
  <2>3. CASE m \notin Below(b)
    <3>1. b # <<>> /\ ~Under(rows, m, b)
      BY <1>3, <2>1, <2>3
    <3> QED
      BY <1>7, <2>1, <3>1
  <2> QED
    BY <2>2, <2>3
<1> HIDE DEF more, c
<1>19. WalkOK(v, rows, gone, Live)
  <2>1. \A i, j \in DOMAIN v.got : i # j => v.got[i] # v.got[j]
    BY <1>10, <1>13
  <2>2. CASE more
    BY <1>13, <1>14, <1>16, <1>17, <2>1, <2>2 DEF WalkOK
  <2>3. CASE ~more
    BY <1>13, <1>15, <1>16, <1>18, <2>1, <2>3 DEF WalkOK
  <2> QED
    BY <2>2, <2>3
<1> QED
  BY <1>1, <1>19
=============================================================================
