-------------------------- MODULE ContentStoreProofs --------------------------
(* Proofs that the store keeps what it has installed, shows whole objects   *)
(* and forgets what it has deleted, for any number of keys and writers, any *)
(* sizes and any bound on failures and power losses.                        *)
EXTENDS ContentStore, TLAPS

Put == [pc : ActivePoints \union {"idle", "stored"}, key : Keys \union {TooLarge},
        whole : BOOLEAN, own : BOOLEAN]

\* What a put has achieved where it stands: a synced file before the link, the link,
\* and the entry on disk before it counts as installed.
PutOK(p, nm, dk) ==
  /\ p \in Put
  /\ p.pc \in {"synced", "ready"} => p.whole /\ p.key \in Keys
  /\ p.pc \in {"reserved", "written", "synced", "ready", "exists"} => ~p.own
  /\ p.pc = "linked" => p.key \in nm
  /\ p.pc = "installed" /\ p.own => p.key \in nm /\ p.key \in dk

\* The inductive invariant.  An entry that is on disk and not shown any more is
\* the one that is being removed, or one whose removal was not synced.
StoreInv ==
  /\ writer = [w \in Writers |-> writer[w]]
  /\ \A w \in Writers : PutOK(writer[w], names, disk)
  /\ deleter \in Keys \union {"idle"}
  /\ deleter # "idle" => Unleased /\ deleter \notin names
  /\ cached = {}
  /\ \A k \in Keys : <<k, TRUE>> \in returned => k \in names /\ k \in disk
  /\ \A k \in disk : k \notin names => k \in unsynced \/ deleter = k
  /\ \A k \in gone : k \notin unsynced => k \notin names
  /\ names \subseteq Keys /\ disk \subseteq Keys

-----------------------------------------------------------------------------
LEMMA NoPutOK ==
  ASSUME NEW nm, NEW dk
  PROVE  PutOK(NoPut, nm, dk)
<1>1. NoPut \in Put
  <2>1. "idle" \in ActivePoints \union {"idle", "stored"} /\ TooLarge \in Keys \union {TooLarge}
    OBVIOUS
  <2>2. FALSE \in BOOLEAN
    OBVIOUS
  <2> QED
    BY <2>1, <2>2, Zenon DEF NoPut, Put
<1>2. NoPut.pc = "idle"
  BY DEF NoPut
<1> QED
  BY <1>1, <1>2 DEF PutOK

\* A step of one put that leaves the directories alone; a put that returns its own
\* object has it on disk.
LEMMA Turns ==
  ASSUME StoreInv, NEW w \in Writers, NEW p, Become(w, p), PutOK(p, names, disk),
         deleter = "idle", UNCHANGED <<names, disk, cached, deleter, gone, unsynced>>,
         \A k \in Keys : <<k, TRUE>> \in returned' =>
           <<k, TRUE>> \in returned \/ (k \in names /\ k \in disk)
  PROVE  StoreInv'
<1>1. writer' = [v \in Writers |-> writer'[v]] /\ \A v \in Writers : PutOK(writer'[v], names, disk)
  BY DEF StoreInv, Become
<1> QED
  BY <1>1, Zenon DEF StoreInv

\* While a put is under way no deletion is.
LEMMA Leased ==
  ASSUME StoreInv, NEW w \in Writers, writer[w].pc # "idle"
  PROVE  deleter = "idle"
BY DEF StoreInv, Unleased

LEMMA PutSteps ==
  ASSUME StoreInv, NEW w \in Writers,
         \/ Reserve(w) \/ Copy(w) \/ RejectTooLarge(w) \/ SyncFile(w) \/ VerifyExisting(w)
         \/ Unstage(w) \/ Release(w) \/ PutFails(w)
  PROVE  StoreInv'
<1>1. UNCHANGED <<names, disk, cached, deleter, gone, unsynced>>
  BY Zenon DEF Reserve, Copy, RejectTooLarge, SyncFile, VerifyExisting, Unstage, Release, PutFails, history
<1>2. deleter = "idle"
  <2>1. CASE Reserve(w)
    BY <2>1, Zenon DEF Reserve
  <2>2. CASE ~Reserve(w)
    <3>1. writer[w].pc # "idle"
      BY <2>2 DEF Copy, RejectTooLarge, SyncFile, VerifyExisting, Unstage, Release, PutFails,
                  ActivePoints
    <3> QED
      BY <3>1, Leased
  <2> QED
    BY <2>1, <2>2
<1>3. writer[w] \in Put /\ PutOK(writer[w], names, disk)
  BY DEF StoreInv, PutOK
<1>4. CASE Become(w, NoPut) /\ returned' = returned
  BY <1>1, <1>2, <1>4, NoPutOK, Turns, Zenon
<1>5. ASSUME NEW p \in Put, Become(w, p), returned' = returned, p.key = writer[w].key,
             p.own = writer[w].own,
             \/ p.pc = "written" /\ writer[w].pc = "reserved"
             \/ p.pc = "synced" /\ p.whole /\ writer[w].pc = "written" /\ p.key \in Keys
             \/ p.pc = "installed" /\ writer[w].pc = "exists"
      PROVE  StoreInv'
  <2>1. ~p.own
    BY <1>3, <1>5 DEF PutOK
  <2>2. PutOK(p, names, disk)
    BY <1>5, <2>1 DEF PutOK
  <2> QED
    BY <1>1, <1>2, <1>5, <2>2, Turns, Zenon
<1>6. CASE Reserve(w)
  <2>1. PICK k \in Keys \union {TooLarge} : Become(w, [NoPut EXCEPT !.pc = "reserved", !.key = k])
    BY <1>6, Zenon DEF Reserve
  <2> DEFINE p == [NoPut EXCEPT !.pc = "reserved", !.key = k]
  <2>2. NoPut \in Put /\ ~NoPut.own
    BY NoPutOK, Zenon DEF PutOK, NoPut
  <2>3. p \in Put /\ p.pc = "reserved" /\ ~p.own
    BY <2>2, Zenon DEF Put, ActivePoints
  <2>4. Become(w, p)
    BY <2>1
  <2> HIDE DEF p
  <2>5. PutOK(p, names, disk)
    BY <2>3 DEF PutOK
  <2> QED
    BY <1>1, <1>2, <1>6, <2>4, <2>5, Turns, Zenon DEF Reserve, history
<1>7. CASE Copy(w) \/ VerifyExisting(w)
  <2>1. PICK pc \in {"written", "installed"} :
          /\ Advance(w, pc) /\ returned' = returned
          /\ \/ pc = "written" /\ writer[w].pc = "reserved"
             \/ pc = "installed" /\ writer[w].pc = "exists"
    BY <1>7 DEF Copy, VerifyExisting, history
  <2> DEFINE p == [writer[w] EXCEPT !.pc = pc]
  <2>2. p \in Put /\ p.pc = pc /\ p.key = writer[w].key /\ p.own = writer[w].own
    BY <1>3 DEF Put, ActivePoints
  <2>3. Become(w, p)
    BY <2>1 DEF Advance
  <2> HIDE DEF p
  <2> QED
    BY <1>5, <2>1, <2>2, <2>3
<1>8. CASE SyncFile(w)
  <2> DEFINE p == [writer[w] EXCEPT !.pc = "synced", !.whole = TRUE]
  <2>1. /\ p \in Put /\ p.pc = "synced" /\ p.whole /\ p.key = writer[w].key
        /\ p.own = writer[w].own
    BY <1>3, Zenon DEF Put, ActivePoints
  <2>2. Become(w, p)
    BY <1>8 DEF SyncFile
  <2> HIDE DEF p
  <2>3. writer[w].key \in Keys
    BY <1>3, <1>8 DEF SyncFile, Put
  <2> QED
    BY <1>5, <1>8, <2>1, <2>2, <2>3 DEF SyncFile, history
<1>9. CASE Unstage(w)
  <2> DEFINE p == [writer[w] EXCEPT !.pc = "stored"]
  <2>1. p \in Put /\ p.pc = "stored"
    BY <1>3 DEF Put
  <2>2. Become(w, p)
    BY <1>9 DEF Unstage, Advance
  <2> HIDE DEF p
  <2>3. PutOK(p, names, disk)
    BY <2>1 DEF PutOK
  <2>4. ASSUME NEW k \in Keys, <<k, TRUE>> \in returned', <<k, TRUE>> \notin returned
        PROVE  k \in names /\ k \in disk
    <3>1. <<k, TRUE>> = <<writer[w].key, writer[w].own>>
      BY <1>9, <2>4, Zenon DEF Unstage
    <3>2. k = writer[w].key /\ writer[w].own
      BY <3>1, Zenon
    <3> QED
      BY <1>3, <1>9, <3>2 DEF PutOK, Unstage
  <2> QED
    BY <1>1, <1>2, <2>2, <2>3, <2>4, Turns, Zenon
<1>10. CASE RejectTooLarge(w) \/ Release(w) \/ PutFails(w)
  BY <1>4, <1>10 DEF RejectTooLarge, Release, PutFails, Abort, history
<1> QED
  BY <1>6, <1>7, <1>8, <1>9, <1>10

\* Syncing the directory of a put's key agrees with what the system shows of it.
LEMMA SyncSteps ==
  ASSUME StoreInv, NEW w \in Writers, SyncTree(w) \/ SyncLink(w)
  PROVE  StoreInv'
<1>1. /\ names' = names /\ cached' = cached /\ deleter' = deleter /\ gone' = gone
      /\ unsynced' = unsynced /\ returned' = returned /\ SyncDirectory(writer[w].key)
  BY DEF SyncTree, SyncLink, history
<1>2. writer[w] \in Put /\ PutOK(writer[w], names, disk)
  BY DEF StoreInv, PutOK
<1>3. writer[w].pc # "idle" /\ deleter = "idle"
  BY Leased DEF SyncTree, SyncLink
<1>4. PICK pc \in {"ready", "installed"} :
        /\ Advance(w, pc)
        /\ pc = "ready" => writer[w].pc = "synced"
        /\ pc = "installed" => writer[w].pc = "linked"
  BY DEF SyncTree, SyncLink
<1> DEFINE p == [writer[w] EXCEPT !.pc = pc]
<1>5. /\ p \in Put /\ p.pc = pc /\ p.key = writer[w].key /\ p.own = writer[w].own
      /\ p.whole = writer[w].whole
  BY <1>2 DEF Put, ActivePoints
<1>6. Become(w, p)
  BY <1>4 DEF Advance
<1> HIDE DEF p
<1>7. /\ \A k : k # writer[w].key => (k \in disk' <=> k \in disk)
      /\ writer[w].key \in disk' <=> writer[w].key \in names
  BY <1>1 DEF SyncDirectory
<1>8. PutOK(p, names, disk')
  BY <1>2, <1>4, <1>5, <1>7 DEF PutOK
<1>9. \A v \in Writers : PutOK(writer[v], names, disk')
  <2>1. \A v \in Writers : PutOK(writer[v], names, disk)
    BY DEF StoreInv
  <2> QED
    BY <1>7, <2>1 DEF PutOK
<1>10. writer' = [v \in Writers |-> writer'[v]] /\ \A v \in Writers : PutOK(writer'[v], names, disk')
  BY <1>6, <1>8, <1>9 DEF StoreInv, Become
<1>11. \A k \in Keys : <<k, TRUE>> \in returned => k \in names /\ k \in disk'
  BY <1>7, Zenon DEF StoreInv
<1>12. \A k \in disk' : k \notin names => k \in unsynced
  BY <1>3, <1>7, StoreAssumption DEF StoreInv
<1>13. disk' \subseteq Keys
  <2>1. CASE pc = "ready"
    BY <1>2, <1>4, <1>7, <2>1 DEF PutOK, StoreInv
  <2>2. CASE pc = "installed"
    BY <1>2, <1>4, <1>7, <2>2 DEF PutOK, StoreInv
  <2> QED
    BY <2>1, <2>2
<1> QED
  BY <1>1, <1>3, <1>10, <1>11, <1>12, <1>13, Zenon DEF StoreInv

LEMMA LinkStep ==
  ASSUME StoreInv, NEW w \in Writers, Link(w)
  PROVE  StoreInv'
<1>1. /\ disk' = disk /\ deleter' = deleter /\ returned' = returned /\ writer[w].pc = "ready"
  BY DEF Link
<1>2. writer[w] \in Put /\ PutOK(writer[w], names, disk) /\ deleter = "idle"
  BY <1>1, Leased, Zenon DEF StoreInv, PutOK
<1>3. writer[w].whole /\ ~writer[w].own /\ writer[w].key \in Keys
  BY <1>1, <1>2 DEF PutOK
<1>4. CASE writer[w].key \in names
  <2>1. Advance(w, "exists") /\ UNCHANGED <<names, disk, cached, deleter, gone, unsynced>>
    BY <1>1, <1>4 DEF Link
  <2> DEFINE p == [writer[w] EXCEPT !.pc = "exists"]
  <2>2. p \in Put /\ p.pc = "exists" /\ p.own = writer[w].own
    BY <1>2 DEF Put, ActivePoints
  <2>3. Become(w, p)
    BY <2>1 DEF Advance
  <2> HIDE DEF p
  <2>4. PutOK(p, names, disk)
    BY <1>3, <2>2 DEF PutOK
  <2> QED
    BY <1>1, <1>2, <2>1, <2>3, <2>4, Turns, Zenon
<1>5. CASE writer[w].key \notin names
  <2> DEFINE p == [writer[w] EXCEPT !.pc = "linked", !.own = TRUE]
             k == writer[w].key
  <2>1. /\ names' = names \union {k} /\ cached' = cached /\ Become(w, p)
        /\ gone' = gone \ {k} /\ unsynced' = unsynced \ {k}
    BY <1>3, <1>5 DEF Link
  <2>2. p \in Put /\ p.pc = "linked" /\ p.key = k
    BY <1>2, Zenon DEF Put, ActivePoints
  <2> HIDE DEF p
  <2>3. PutOK(p, names', disk)
    BY <2>1, <2>2 DEF PutOK
  <2>4. \A v \in Writers : PutOK(writer[v], names', disk)
    <3>1. \A v \in Writers : PutOK(writer[v], names, disk)
      BY DEF StoreInv
    <3> QED
      BY <2>1, <3>1 DEF PutOK
  <2>5. writer' = [v \in Writers |-> writer'[v]] /\ \A v \in Writers : PutOK(writer'[v], names', disk)
    BY <2>1, <2>3, <2>4 DEF StoreInv, Become
  <2> QED
    BY <1>1, <1>2, <1>3, <2>1, <2>5, Zenon DEF StoreInv
<1> QED
  BY <1>4, <1>5

\* Puts that are idle do not mind what happens to the directories.
LEMMA IdlePuts ==
  ASSUME StoreInv, Unleased, NEW nm, NEW dk
  PROVE  \A w \in Writers : PutOK(writer[w], nm, dk)
BY DEF StoreInv, Unleased, PutOK

LEMMA RemovalSteps ==
  ASSUME StoreInv, (\E k \in Keys : Remove(k)) \/ SyncRemoval \/ SyncRemovalFails
  PROVE  StoreInv'
<1>1. writer' = writer /\ Unleased
  BY DEF Remove, SyncRemoval, SyncRemovalFails, StoreInv
<1>2. Unleased' /\ \A w \in Writers : PutOK(writer'[w], names', disk')
  BY <1>1, IdlePuts DEF Unleased
<1>3. ASSUME NEW k \in Keys, Remove(k)
      PROVE  StoreInv'
  <2>1. CASE k \notin names
    BY <1>1, <1>2, <1>3, <2>1, Zenon DEF Remove, StoreInv
  <2>2. CASE k \in names
    <3>1. /\ names' = names \ {k} /\ cached' = {} /\ deleter' = k /\ unsynced' = unsynced \ {k}
          /\ gone' = gone /\ disk' = disk /\ deleter = "idle"
          /\ returned' = returned \ ({k} \X BOOLEAN)
      BY <1>3, <2>2 DEF Remove, StoreInv
    <3>2. \A j \in Keys : <<j, TRUE>> \in returned' => <<j, TRUE>> \in returned /\ j # k
      BY <3>1, Zenon
    <3> QED
      BY <1>1, <1>2, <3>1, <3>2, StoreAssumption, Zenon DEF StoreInv
  <2> QED
    BY <2>1, <2>2
<1>4. CASE SyncRemoval
  <2>1. /\ deleter # "idle" /\ deleter \notin names /\ disk' = disk \ {deleter} /\ deleter' = "idle"
        /\ gone' = gone \union {deleter} /\ names' = names /\ cached' = cached
        /\ unsynced' = unsynced /\ returned' = returned
    BY <1>4 DEF SyncRemoval, SyncDirectory, StoreInv
  <2> QED
    BY <1>1, <1>2, <2>1, Zenon DEF StoreInv
<1>5. CASE SyncRemovalFails
  <2>1. /\ deleter # "idle" /\ disk' = disk /\ deleter' = "idle" /\ gone' = gone
        /\ names' = names /\ cached' = cached
        /\ unsynced' = unsynced \union {deleter} /\ returned' = returned
    BY <1>5 DEF SyncRemovalFails
  <2> QED
    BY <1>1, <1>2, <2>1, Zenon DEF StoreInv
<1> QED
  BY <1>3, <1>4, <1>5

\* A killed process loses its puts and nothing of the directories; a power loss keeps
\* every entry that is shown and on disk.
LEMMA HaltSteps ==
  ASSUME StoreInv, Kill \/ PowerLoss
  PROVE  StoreInv'
<1>1. /\ writer' = [w \in Writers |-> NoPut] /\ deleter' = "idle" /\ gone' = gone
      /\ unsynced' = unsynced \union ({deleter} \intersect Keys) /\ returned' = returned
  BY Zenon DEF Kill, PowerLoss, Halt
<1>2. writer' = [w \in Writers |-> writer'[w]] /\ \A w \in Writers : PutOK(writer'[w], names', disk')
  BY <1>1, NoPutOK
<1>3. /\ names \intersect disk \subseteq names' /\ names \intersect disk \subseteq disk'
      /\ names' \subseteq names \union disk /\ cached' \subseteq cached
      /\ disk' \subseteq names' \/ (names' = names /\ disk' = disk)
      /\ names' \subseteq Keys /\ disk' \subseteq Keys
  BY Zenon DEF Kill, PowerLoss, StoreInv
<1> QED
  BY <1>1, <1>2, <1>3, Zenon DEF StoreInv

-----------------------------------------------------------------------------
LEMMA StoreInit == Init => StoreInv
BY NoPutOK DEF Init, StoreInv

LEMMA StoreNext == StoreInv /\ [Next]_vars => StoreInv'
<1> SUFFICES ASSUME StoreInv, [Next]_vars PROVE StoreInv'
  OBVIOUS
<1>1. ASSUME NEW w \in Writers, WriterStep(w) PROVE StoreInv'
  BY <1>1, PutSteps, SyncSteps, LinkStep DEF WriterStep
<1>2. CASE UNCHANGED vars
  BY <1>2, Zenon DEF vars, history, StoreInv, Unleased
<1> QED
  BY <1>1, <1>2, RemovalSteps, HaltSteps DEF Next

LEMMA StoreAlways == Spec => []StoreInv
BY StoreInit, StoreNext, PTL DEF Spec

\* No object shows up under its key before its bytes are on disk, whichever of several
\* puts links it (Store.put syncs the staging file first).
THEOREM ObjectsAreWhole == Spec => []ObjectsWhole
<1>1. StoreInv => ObjectsWhole
  BY DEF StoreInv, ObjectsWhole
<1> QED
  BY <1>1, StoreAlways, PTL

\* What a put has linked and returned survives every kill and power loss until it is
\* deleted (Store.put syncs the directory after the link).
THEOREM InstalledIsKept == Spec => []InstalledSurvives
<1>1. StoreInv => InstalledSurvives
  BY Zenon DEF StoreInv, InstalledSurvives
<1> QED
  BY <1>1, StoreAlways, PTL

\* A deletion that returned nil stays done, unless an earlier try failed between the
\* unlink and the sync (Store.deleteLocked).
THEOREM DeletedIsGone == Spec => []DeletionSticks
<1>1. StoreInv => DeletionSticks
  BY DEF StoreInv, DeletionSticks
<1> QED
  BY <1>1, StoreAlways, PTL
=============================================================================
