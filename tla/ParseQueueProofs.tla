-------------------------- MODULE ParseQueueProofs --------------------------
(***************************************************************************)
(* The fenced lease of the parse queue, for any number of contents,        *)
(* workers, restarts and faults: a claim stands until its lease lapses,    *)
(* results and statuses agree, and retries are bounded.                    *)
(***************************************************************************)
EXTENDS ParseQueue, TLAPS

Claiming(w) == worker[w].pc \in ClaimPoints

\* Tokens were drawn, and a worker with a claim has a key.
TokensDrawn ==
  /\ \A c \in Contents : content[c].token <= issued
  /\ \A w \in Workers : Claiming(w) =>
       worker[w].key \in Contents /\ worker[w].token > 0 /\ worker[w].token <= issued

\* No two workers hold the same token.
TokensDiffer ==
  \A v, w \in Workers : Claiming(v) /\ Claiming(w) /\ v # w => worker[v].token # worker[w].token

\* Once a lease has lapsed every claim on the row knows it.
LapsedIsVoided ==
  \A w \in Workers : Claiming(w) /\ content[worker[w].key].lapsed => worker[w].voided

\* The owner of a claim knows the row's attempt count.
AttemptKnown ==
  \A w \in Workers : Claiming(w) /\ Owns(w) => worker[w].attempt = content[worker[w].key].attempts

\* The inductive invariant of the fence.
FenceInv ==
  TypeOK /\ TokensDrawn /\ TokensDiffer /\ LiveClaimStands /\ LapsedIsVoided /\ AttemptKnown

\* A claimable row has an attempt left, or lost one.
AttemptLeft(c) == content[c].attempts < MaxAttempts + lost[c]
Claimable(c) ==
  \/ content[c].status \in {"absent", "pending"}
  \/ content[c].status = "processing" /\ (content[c].lapsed \/ Holders(c) = {})
RetriesInv ==
  RetriesBounded /\ \A c \in Contents : Claimable(c) => AttemptLeft(c)

\* The records of workers without a claim are well formed.
LEMMA UnclaimedType ==
  \A pc \in {"idle", "sleep", "stopped"} :
    Unclaimed(pc) \in WorkerRecord /\ Unclaimed(pc).pc = pc /\ pc \notin ClaimPoints
  BY DEF Unclaimed, WorkerRecord, Verdicts, ClaimPoints

\* What a row and a worker record consist of.
LEMMA RowFields ==
  /\ \A r \in Row : /\ r.status \in {"absent", "pending", "processing", "parsed", "failed"}
                    /\ r.attempts \in Nat /\ r.token \in Nat
                    /\ r.due \in BOOLEAN /\ r.lapsed \in BOOLEAN
  /\ NoRow \in Row
  BY DEF Row, NoRow

\* The fields of a worker record have their types (ParserWorker goroutines).
LEMMA WorkerFields ==
  \A r \in WorkerRecord : /\ r.key \in Contents \union {NoKey}
                          /\ r.token \in Nat /\ r.attempt \in Nat /\ r.voided \in BOOLEAN
  BY DEF WorkerRecord

\* The tables are well formed at the start.
LEMMA QueueTypeInit == Init => TypeOK
<1> SUFFICES ASSUME Init PROVE TypeOK OBVIOUS
<1>1. content \in [Contents -> Row] /\ worker \in [Workers -> WorkerRecord]
  BY RowFields, UnclaimedType DEF Init
<1>2. \A c \in Contents : content[c].token # 0 <=> content[c].status = "processing"
  <2>1. NoRow.token = 0 /\ NoRow.status = "absent" BY DEF NoRow
  <2>2. \A c \in Contents : content[c] = NoRow BY Zenon DEF Init
  <2> QED BY <2>1, <2>2, Zenon
<1> QED BY <1>1, <1>2, Zenon DEF Init, TypeOK

\* An empty queue and idle workers satisfy the invariants.
LEMMA QueueInit == Init => FenceInv /\ ResultMatchesStatus /\ RetriesInv
<1> SUFFICES ASSUME Init PROVE FenceInv /\ ResultMatchesStatus /\ RetriesInv OBVIOUS
<1>1. TypeOK BY QueueTypeInit
<1>2. \A w \in Workers : ~Claiming(w) BY UnclaimedType DEF Init, Claiming
<1>3. \A c \in Contents : content[c] = NoRow BY Zenon DEF Init
<1>4. FenceInv
  BY <1>1, <1>2, <1>3 DEF FenceInv, TypeOK, NoRow, TokensDrawn, TokensDiffer, LiveClaimStands,
     LapsedIsVoided, AttemptKnown, Claiming, Init
<1>5. ResultMatchesStatus BY <1>3, Zenon DEF Init, ResultMatchesStatus, NoRow
<1>6. RetriesInv
  <2>1. NoRow.attempts = 0 BY DEF NoRow
  <2> QED BY <1>3, <2>1, QueueAssumption DEF Init, RetriesInv, RetriesBounded, AttemptLeft
<1> QED BY <1>4, <1>5, <1>6

\* A row that is written, next to rows that are not.
LEMMA RowWritten ==
  ASSUME TypeOK, NEW c \in Contents, NEW R \in Row, content' = [content EXCEPT ![c] = R]
  PROVE  /\ content' \in [Contents -> Row]
         /\ content'[c] = R
         /\ \A k \in Contents \ {c} : content'[k] = content[k]
  BY DEF TypeOK

\* The rest of the state, whose types every action keeps in its own way.
RestOK ==
  /\ parses \subseteq Contents
  /\ wake \in BOOLEAN
  /\ stopping \in BOOLEAN
  /\ issued \in Nat /\ rows \in Nat /\ restarts \in Nat /\ faults \in Nat
  /\ lost \in [Contents -> Nat]

\* A worker goes on with the claim it had, or without one.
ClaimsKept ==
  \A w \in Workers : worker'[w].pc \in ClaimPoints =>
    /\ worker[w].pc \in ClaimPoints
    /\ worker'[w].key = worker[w].key
    /\ worker'[w].token = worker[w].token
    /\ worker'[w].attempt = worker[w].attempt
    /\ worker[w].voided => worker'[w].voided

\* A statement that writes one row without leasing it keeps the fence if the
\* claims that remain on the row are voided.
LEMMA RowStep ==
  ASSUME FenceInv, NEW c \in Contents, NEW R \in Row,
         content' = [content EXCEPT ![c] = R], RestOK', issued' = issued,
         worker' \in [Workers -> WorkerRecord], ClaimsKept,
         \A w \in Workers : worker'[w].pc \in ClaimPoints /\ worker[w].key = c => worker'[w].voided,
         R.token # 0 <=> R.status = "processing",
         R.status = "processing" =>
           /\ content[c].status = "processing"
           /\ R.token = content[c].token /\ R.attempts = content[c].attempts
  PROVE  FenceInv'
<1>1. TypeOK BY DEF FenceInv
<1>2. /\ content' \in [Contents -> Row]
      /\ content'[c] = R
      /\ \A k \in Contents \ {c} : content'[k] = content[k]
  BY <1>1, RowWritten, Zenon
<1>3. TypeOK'
  <2>1. \A k \in Contents : content'[k].token # 0 <=> content'[k].status = "processing"
    BY <1>1, <1>2 DEF TypeOK
  <2> QED BY <1>2, <2>1 DEF TypeOK, RestOK
<1>4. TokensDrawn'
  <2>1. R.token <= issued
    BY <1>1, RowFields DEF FenceInv, TokensDrawn, TypeOK
  <2> QED BY <1>2, <2>1 DEF FenceInv, TokensDrawn, Claiming, ClaimsKept
<1>5. TokensDiffer'
  BY DEF FenceInv, TokensDiffer, Claiming, ClaimsKept
<1>6. LiveClaimStands' /\ LapsedIsVoided'
  BY <1>2 DEF FenceInv, TokensDrawn, LiveClaimStands, LapsedIsVoided, Claiming, ClaimsKept
<1>7. AttemptKnown'
  BY <1>2 DEF FenceInv, TokensDrawn, AttemptKnown, Owns, Claiming, ClaimsKept
<1> QED BY <1>3, <1>4, <1>5, <1>6, <1>7 DEF FenceInv

\* A step that writes no row and claims nothing keeps the fence.
LEMMA KeepStep ==
  ASSUME FenceInv, UNCHANGED <<content, issued>>, RestOK',
         worker' \in [Workers -> WorkerRecord], ClaimsKept
  PROVE  FenceInv'
<1>1. TypeOK' BY DEF FenceInv, TypeOK, RestOK
<1>2. TokensDrawn' /\ TokensDiffer'
  BY DEF FenceInv, TokensDrawn, TokensDiffer, Claiming, ClaimsKept
<1>3. LiveClaimStands' /\ LapsedIsVoided' /\ AttemptKnown'
  BY DEF FenceInv, LiveClaimStands, LapsedIsVoided, AttemptKnown, Owns, Claiming, ClaimsKept
<1> QED BY <1>1, <1>2, <1>3 DEF FenceInv

\* A step that does not touch the workers keeps their claims.
LEMMA SameClaims ==
  ASSUME UNCHANGED worker
  PROVE  ClaimsKept
  BY DEF ClaimsKept

\* A step in which one worker ends, or goes on with, its iteration keeps claims.
LEMMA OneWorker ==
  ASSUME TypeOK, NEW w \in Workers, NEW r \in WorkerRecord, Become(w, r),
         r.pc \in ClaimPoints =>
           /\ worker[w].pc \in ClaimPoints /\ r.key = worker[w].key
           /\ r.token = worker[w].token /\ r.attempt = worker[w].attempt
           /\ worker[w].voided => r.voided
  PROVE  ClaimsKept /\ worker' \in [Workers -> WorkerRecord]
<1>1. /\ worker' \in [Workers -> WorkerRecord]
      /\ worker'[w] = r
      /\ \A v \in Workers \ {w} : worker'[v] = worker[v]
  BY DEF TypeOK, Become
<1>2. ClaimsKept BY <1>1 DEF ClaimsKept
<1> QED BY <1>1, <1>2

\* A claim that stands is on a row that is being processed and has not lapsed.
LEMMA StandingClaim ==
  ASSUME FenceInv, NEW w \in Workers, worker[w].pc \in ClaimPoints, ~worker[w].voided
  PROVE  /\ content[worker[w].key].status = "processing"
         /\ content[worker[w].key].token = worker[w].token
         /\ ~content[worker[w].key].lapsed
  BY DEF FenceInv, LiveClaimStands, LapsedIsVoided, Claiming

\* Voiding the claims on a row changes nothing else of them.
LEMMA VoidEffect ==
  ASSUME TypeOK, NEW c \in Contents, Void(c)
  PROVE  /\ worker' \in [Workers -> WorkerRecord]
         /\ ClaimsKept
         /\ \A w \in Workers : worker'[w].pc \in ClaimPoints /\ worker[w].key = c => worker'[w].voided
<1>1. ASSUME NEW w \in Workers
      PROVE  /\ worker'[w] \in WorkerRecord
             /\ worker'[w].pc = worker[w].pc
             /\ worker'[w].key = worker[w].key
             /\ worker'[w].token = worker[w].token
             /\ worker'[w].attempt = worker[w].attempt
             /\ worker[w].voided => worker'[w].voided
             /\ w \in Claimants(c) => worker'[w].voided
  <2>1. worker[w] \in WorkerRecord BY DEF TypeOK
  <2>2. CASE w \in Claimants(c)
    <3>1. worker'[w] = [worker[w] EXCEPT !.voided = TRUE] BY <2>2 DEF Void
    <3> QED BY <2>1, <3>1, Zenon DEF WorkerRecord
  <2>3. CASE w \notin Claimants(c)
    <3>1. worker'[w] = worker[w] BY <2>3 DEF Void
    <3> QED BY <2>1, <2>3, <3>1
  <2> QED BY <2>2, <2>3
<1>2. worker' \in [Workers -> WorkerRecord]
  <2>1. worker' = [w \in Workers |-> worker'[w]] BY DEF Void
  <2> QED BY <1>1, <2>1
<1> QED BY <1>1, <1>2 DEF ClaimsKept, Claimants

\* Deliveries, deletions and the clock keep the fence.
LEMMA RowFence ==
  ASSUME FenceInv, NEW c \in Contents, Deliver(c) \/ Remove(c) \/ Clock(c) \/ Stall(c)
  PROVE  FenceInv'
<1>1. TypeOK /\ RestOK BY DEF FenceInv, TypeOK, RestOK
<1>2. content[c] \in Row BY <1>1 DEF TypeOK
<1>3. CASE Deliver(c)
  <2>1. worker' \in [Workers -> WorkerRecord] /\ ClaimsKept /\ worker' = worker
    BY <1>1, <1>3, SameClaims DEF Deliver, TypeOK
  <2>2. wake' \in BOOLEAN /\ issued' = issued BY <1>1, <1>3, Zenon DEF Deliver, RestOK
  <2>3. CASE content[c].status # "absent"
    <3>1. UNCHANGED <<content, rows>> BY <1>3, <2>3 DEF Deliver
    <3>2. RestOK' BY <1>1, <1>3, <2>2, <3>1 DEF Deliver, RestOK
    <3> QED BY <2>1, <2>2, <3>1, <3>2, KeepStep
  <2>4. CASE content[c].status = "absent"
    <3> DEFINE R == [NoRow EXCEPT !.status = "pending", !.due = TRUE]
    <3>1. R \in Row /\ R.status = "pending" /\ R.token = 0 BY Zenon DEF NoRow, Row
    <3>2. content' = [content EXCEPT ![c] = R] BY <1>3, <2>4 DEF Deliver
    <3> HIDE DEF R
    <3>3. RestOK'
      <4>1. rows' \in Nat BY <1>1, <1>3, <2>4 DEF Deliver, RestOK
      <4> QED BY <1>1, <1>3, <2>2, <4>1 DEF Deliver, RestOK
    <3>4. \A w \in Workers : worker'[w].pc \in ClaimPoints /\ worker[w].key = c => worker'[w].voided
      BY <2>1, <2>4, StandingClaim
    <3> QED BY <2>1, <2>2, <3>1, <3>2, <3>3, <3>4, RowStep, Zenon
  <2> QED BY <2>3, <2>4
<1>4. CASE Remove(c)
  <2>1. NoRow \in Row /\ NoRow.status = "absent" /\ NoRow.token = 0
    BY RowFields DEF NoRow
  <2>2. content' = [content EXCEPT ![c] = NoRow] /\ issued' = issued /\ Void(c)
    BY <1>4 DEF Remove
  <2>3. RestOK' BY <1>1, <1>4 DEF Remove, RestOK
  <2> QED BY <1>1, <2>1, <2>2, <2>3, VoidEffect, RowStep, Zenon
<1>5. CASE BecomeDue(c)
  <2> DEFINE R == [content[c] EXCEPT !.due = TRUE]
  <2>1. R \in Row /\ R.status = content[c].status /\ R.token = content[c].token
    BY <1>2, Zenon DEF Row
  <2>2. content' = [content EXCEPT ![c] = R] /\ issued' = issued /\ content[c].status = "pending"
    BY <1>5 DEF BecomeDue
  <2> HIDE DEF R
  <2>3. RestOK' BY <1>1, <1>5 DEF BecomeDue, RestOK
  <2>4. worker' \in [Workers -> WorkerRecord] /\ ClaimsKept /\ worker' = worker
    BY <1>1, <1>5, SameClaims DEF BecomeDue, TypeOK
  <2>5. \A w \in Workers : worker'[w].pc \in ClaimPoints /\ worker[w].key = c => worker'[w].voided
    BY <2>2, <2>4, StandingClaim
  <2>6. R.token # 0 <=> R.status = "processing" BY <1>1, <2>1 DEF TypeOK
  <2> QED BY <2>1, <2>2, <2>3, <2>4, <2>5, <2>6, RowStep, Zenon
<1>6. CASE Lapse(c) \/ Stall(c)
  <2> DEFINE R == [content[c] EXCEPT !.lapsed = TRUE]
  <2>1. /\ R \in Row /\ R.status = content[c].status /\ R.token = content[c].token
        /\ R.attempts = content[c].attempts
    BY <1>2, Zenon DEF Row
  <2>2. content' = [content EXCEPT ![c] = R] /\ issued' = issued /\ content[c].status = "processing"
    BY <1>6 DEF Lapse, Stall, Running
  <2> HIDE DEF R
  <2>3. RestOK'
    <3>1. CASE Lapse(c) BY <1>1, <3>1 DEF Lapse, RestOK
    <3>2. CASE Stall(c)
      <4>1. faults' \in Nat BY <1>1, <3>2 DEF Stall, RestOK
      <4>2. lost' \in [Contents -> Nat] BY <1>1, <3>2 DEF Stall, RestOK
      <4> QED BY <1>1, <3>2, <4>1, <4>2 DEF Stall, RestOK
    <3> QED BY <1>6, <3>1, <3>2
  <2>4. /\ worker' \in [Workers -> WorkerRecord] /\ ClaimsKept
        /\ \A w \in Workers : worker'[w].pc \in ClaimPoints /\ worker[w].key = c => worker'[w].voided
    <3>1. CASE Lapse(c)
      <4>1. worker' \in [Workers -> WorkerRecord] /\ ClaimsKept /\ worker' = worker
        BY <1>1, <3>1, SameClaims DEF Lapse, TypeOK
      <4>2. \A w \in Workers : worker[w].pc \in ClaimPoints /\ worker[w].key = c => worker[w].voided
        BY <3>1, StandingClaim DEF Lapse, Holders, Claimants
      <4> QED BY <4>1, <4>2
    <3>2. CASE Stall(c) BY <1>1, <3>2, VoidEffect DEF Stall
    <3> QED BY <1>6, <3>1, <3>2
  <2>6. R.token # 0 <=> R.status = "processing" BY <1>1, <2>1 DEF TypeOK
  <2> QED BY <2>1, <2>2, <2>3, <2>4, <2>6, RowStep, Zenon
<1> QED BY <1>3, <1>4, <1>5, <1>6 DEF Clock

\* ClaimContent, whether or not its answer arrives, keeps the fence: the token is
\* new, and the claims that were on the row are voided.
LEMMA ClaimFence ==
  ASSUME FenceInv, NEW w \in Workers, worker[w].pc = "idle",
         NEW c \in Candidates, content' = Leased(c), issued' = issued + 1, RestOK',
         NEW r \in WorkerRecord, Become(w, r),
         r.pc \in ClaimPoints =>
           /\ r.key = c /\ r.token = issued + 1 /\ r.attempt = content[c].attempts + 1
  PROVE  FenceInv'
<1>1. TypeOK /\ c \in Contents BY DEF FenceInv, Candidates
<1> DEFINE R == [status |-> "processing", attempts |-> content[c].attempts + 1,
                 token |-> issued + 1, due |-> TRUE, lapsed |-> FALSE]
<1>2. /\ R \in Row /\ R.status = "processing" /\ R.token = issued + 1 /\ ~R.lapsed
      /\ R.attempts = content[c].attempts + 1
  <2>1. content[c].attempts \in Nat /\ issued \in Nat
    BY <1>1, RowFields DEF TypeOK
  <2> QED BY <2>1 DEF Row
<1>3. content' = [content EXCEPT ![c] = R] BY DEF Leased
<1> HIDE DEF R
<1>4. /\ content' \in [Contents -> Row]
      /\ content'[c] = R
      /\ \A k \in Contents \ {c} : content'[k] = content[k]
  BY <1>1, <1>2, <1>3, RowWritten, Zenon
<1>5. /\ worker' \in [Workers -> WorkerRecord]
      /\ worker'[w] = r
      /\ \A v \in Workers \ {w} : worker'[v] = worker[v]
  BY <1>1 DEF TypeOK, Become
<1>6. issued \in Nat BY <1>1 DEF TypeOK
<1>7. TypeOK'
  <2>1. \A k \in Contents : content'[k].token # 0 <=> content'[k].status = "processing"
    BY <1>1, <1>2, <1>4, <1>6 DEF TypeOK
  <2> QED BY <1>4, <1>5, <2>1 DEF TypeOK, RestOK
<1>8. \A v \in Workers \ {w} : Claiming(v) =>
        /\ worker[v].key \in Contents /\ worker[v].token \in Nat
        /\ worker[v].token > 0 /\ worker[v].token <= issued
  BY <1>1, WorkerFields DEF TypeOK, FenceInv, TokensDrawn
<1>9. TokensDrawn'
  <2>1. \A k \in Contents : content[k].token \in Nat /\ content[k].token <= issued
    BY <1>1, RowFields DEF TypeOK, FenceInv, TokensDrawn
  <2>2. \A k \in Contents : content'[k].token <= issued'
    BY <1>2, <1>4, <1>6, <2>1
  <2> QED BY <1>1, <1>5, <1>6, <1>8, <2>2 DEF TokensDrawn, Claiming
<1>10. TokensDiffer'
  BY <1>5, <1>6, <1>8 DEF FenceInv, TokensDiffer, Claiming
<1>11. \A v \in Workers \ {w} : Claiming(v) /\ worker[v].key = c => worker[v].voided
  BY <1>1, StandingClaim DEF Claiming, Candidates
<1>12. LiveClaimStands' /\ LapsedIsVoided'
  BY <1>2, <1>4, <1>5, <1>8, <1>11 DEF FenceInv, LiveClaimStands, LapsedIsVoided, Claiming
<1>13. AttemptKnown'
  BY <1>2, <1>4, <1>5, <1>6, <1>8 DEF FenceInv, AttemptKnown, Owns, Claiming
<1> QED BY <1>7, <1>9, <1>10, <1>12, <1>13 DEF FenceInv

\* Ending an owned claim keeps the fence: every other claim on the row is voided.
LEMMA SettleFence ==
  ASSUME FenceInv, NEW w \in Workers, worker[w].pc \in ClaimPoints, Owns(w),
         NEW status \in {"pending", "parsed", "failed"}, NEW n \in Nat, NEW due \in BOOLEAN,
         Settle(worker[w].key, status, n, due), issued' = issued, RestOK',
         NEW pc \in {"idle", "sleep", "stopped"}, Become(w, Unclaimed(pc))
  PROVE  FenceInv'
<1>1. TypeOK /\ worker[w].key \in Contents BY DEF FenceInv, TokensDrawn, Claiming
<1> DEFINE c == worker[w].key
           R == [status |-> status, attempts |-> n, token |-> 0, due |-> due, lapsed |-> FALSE]
<1>2. R \in Row /\ R.status # "processing" /\ R.token = 0 BY DEF Row
<1>3. content' = [content EXCEPT ![c] = R] BY DEF Settle
<1>4. ClaimsKept /\ worker' \in [Workers -> WorkerRecord]
  BY <1>1, UnclaimedType, OneWorker
<1>5. /\ worker'[w].pc \notin ClaimPoints
      /\ \A v \in Workers \ {w} : worker'[v] = worker[v]
  BY <1>1, UnclaimedType DEF TypeOK, Become
<1>6. ASSUME NEW v \in Workers, worker'[v].pc \in ClaimPoints, worker[v].key = c
      PROVE  worker'[v].voided
  <2>1. v # w /\ worker[v].pc \in ClaimPoints /\ worker'[v] = worker[v] BY <1>5, <1>6
  <2>2. worker[v].token # worker[w].token
    BY <2>1 DEF FenceInv, TokensDiffer, Claiming
  <2> QED BY <1>6, <2>1, <2>2, StandingClaim DEF Owns
<1> HIDE DEF c, R
<1> QED BY <1>1, <1>2, <1>3, <1>4, <1>6, RowStep, Zenon DEF c

\* Every step of a worker keeps the fence.
LEMMA WorkerFence ==
  ASSUME FenceInv, NEW w \in Workers,
         WorkerStep(w) \/ ClaimFails(w) \/ FinishInterrupted(w) \/ FinishFails(w)
  PROVE  FenceInv'
<1>1. TypeOK /\ RestOK BY DEF FenceInv, TypeOK, RestOK
<1>2. worker[w] \in WorkerRecord BY <1>1 DEF TypeOK
<1>3. \A pc \in {"idle", "sleep"} :
        \E q \in {"idle", "sleep", "stopped"} : Continue(pc) = Unclaimed(q)
  BY DEF Continue
<1>4. ASSUME NEW q \in {"idle", "sleep", "stopped"}, Become(w, Unclaimed(q)),
             UNCHANGED <<content, issued>>, RestOK'
      PROVE  FenceInv'
  <2>1. ClaimsKept /\ worker' \in [Workers -> WorkerRecord]
    BY <1>1, <1>4, UnclaimedType, OneWorker
  <2> QED BY <1>4, <2>1, KeepStep
<1>5. ASSUME NEW W \in SUBSET Workers, Forget(W)
      PROVE  lost' \in [Contents -> Nat]
  BY <1>1, <1>5 DEF Forget, RestOK
<1>6. CASE Claim(w)
  <2>1. PICK c \in Candidates :
         /\ content' = Leased(c)
         /\ Become(w, [pc |-> "parsing", key |-> c, token |-> issued + 1,
                       attempt |-> content[c].attempts + 1, verdict |-> "none", voided |-> FALSE])
    BY <1>6, Zenon DEF Claim
  <2> DEFINE r == [pc |-> "parsing", key |-> c, token |-> issued + 1,
                   attempt |-> content[c].attempts + 1, verdict |-> "none", voided |-> FALSE]
  <2>2. c \in Contents /\ content[c].attempts \in Nat /\ issued \in Nat
    BY <1>1, RowFields DEF Candidates, TypeOK
  <2>3. r \in WorkerRecord /\ r.key = c /\ r.token = issued + 1 /\ r.attempt = content[c].attempts + 1
    BY <2>2 DEF WorkerRecord, ClaimPoints, Verdicts
  <2>4. RestOK' /\ issued' = issued + 1 /\ worker[w].pc = "idle"
    BY <1>1, <1>6, <2>2 DEF Claim, RestOK
  <2>5. content' = Leased(c) /\ Become(w, r) BY <2>1
  <2> HIDE DEF r
  <2> QED BY <2>3, <2>4, <2>5, ClaimFence
<1>7. CASE ClaimNothing(w)
  <2>1. RestOK' /\ UNCHANGED <<content, issued>> /\ Become(w, Continue("sleep"))
    BY <1>1, <1>7 DEF ClaimNothing, RestOK
  <2> QED BY <1>3, <1>4, <2>1
<1>8. CASE ClaimFails(w)
  <2>1. PICK q \in {"idle", "sleep", "stopped"} : Become(w, Unclaimed(q))
    BY <1>3, <1>8 DEF ClaimFails
  <2>2. faults' \in Nat BY <1>1, <1>8 DEF ClaimFails, RestOK
  <2>3. CASE UNCHANGED <<content, issued, lost>>
    <3>1. RestOK' BY <1>1, <1>8, <2>2, <2>3 DEF ClaimFails, RestOK
    <3> QED BY <1>4, <2>1, <2>3, <3>1
  <2>4. CASE \E c \in Candidates : /\ content' = Leased(c) /\ issued' = issued + 1
                                  /\ lost' = [lost EXCEPT ![c] = @ + 1]
    <3>1. PICK c \in Candidates : /\ content' = Leased(c) /\ issued' = issued + 1
                                  /\ lost' = [lost EXCEPT ![c] = @ + 1]
      BY <2>4, Zenon
    <3>2. lost' \in [Contents -> Nat] /\ issued' \in Nat BY <1>1, <3>1 DEF RestOK, Candidates
    <3>3. RestOK' /\ worker[w].pc = "idle" BY <1>1, <1>8, <2>2, <3>2 DEF ClaimFails, RestOK
    <3> QED BY <2>1, <3>1, <3>3, UnclaimedType, ClaimFence
  <2> QED BY <1>8, <2>3, <2>4 DEF ClaimFails
<1>9. CASE Parse(w)
  <2>1. RestOK' /\ UNCHANGED <<content, issued>> /\ worker[w].pc = "parsing"
    BY <1>1, <1>9, Zenon DEF Parse, RestOK
  <2>2. PICK pc \in {"release", "finish"}, v \in Verdicts :
          Become(w, [worker[w] EXCEPT !.pc = pc, !.verdict = v])
    <3>1. CASE stopping
      <4>1. Become(w, [worker[w] EXCEPT !.pc = "release"]) BY <1>9, <3>1 DEF Parse
      <4>2. [worker[w] EXCEPT !.pc = "release"]
              = [worker[w] EXCEPT !.pc = "release", !.verdict = worker[w].verdict]
        BY <1>2, Zenon DEF WorkerRecord
      <4>3. worker[w].verdict \in Verdicts BY <1>2 DEF WorkerRecord
      <4> QED BY <4>1, <4>2, <4>3, Zenon
    <3>2. CASE ~stopping BY <1>9, <3>2, Zenon DEF Parse
    <3> QED BY <3>1, <3>2, Zenon
  <2> DEFINE r == [worker[w] EXCEPT !.pc = pc, !.verdict = v]
  <2>3. /\ r \in WorkerRecord /\ r.key = worker[w].key /\ r.token = worker[w].token
        /\ r.attempt = worker[w].attempt /\ r.voided = worker[w].voided
    BY <1>2, Zenon DEF WorkerRecord, ClaimPoints
  <2> HIDE DEF r
  <2>4. Become(w, r) BY <2>2 DEF r
  <2>5. ClaimsKept /\ worker' \in [Workers -> WorkerRecord]
    BY <1>1, <2>1, <2>3, <2>4, OneWorker DEF ClaimPoints
  <2> QED BY <2>1, <2>5, KeepStep
<1>10. CASE Finish(w)
  <2>1. worker[w].pc \in ClaimPoints /\ issued' = issued BY <1>10 DEF Finish, ClaimPoints
  <2>2. PICK q \in {"idle", "sleep", "stopped"} : Become(w, Unclaimed(q))
    BY <1>3, <1>10 DEF Finish
  <2>3. worker[w].key \in Contents BY <2>1 DEF FenceInv, TokensDrawn, Claiming
  <2>4. /\ content[worker[w].key].attempts \in Nat /\ content[worker[w].key].due \in BOOLEAN
    BY <1>1, <2>3, RowFields DEF TypeOK
  <2>5. RestOK' BY <1>1, <1>10, <2>3, Zenon DEF Finish, RestOK
  <2>6. CASE ~Owns(w) BY <1>4, <1>10, <2>1, <2>2, <2>5, <2>6, Zenon DEF Finish
  <2>7. CASE Owns(w)
    <3>1. \/ Settle(worker[w].key, "parsed", content[worker[w].key].attempts, TRUE)
          \/ Settle(worker[w].key, "failed", content[worker[w].key].attempts, TRUE)
          \/ Settle(worker[w].key, "pending", content[worker[w].key].attempts, FALSE)
      BY <1>10, <2>7, Zenon DEF Finish
    <3>2. CASE Settle(worker[w].key, "parsed", content[worker[w].key].attempts, TRUE)
      BY <2>1, <2>2, <2>4, <2>5, <2>7, <3>2, SettleFence, Zenon
    <3>3. CASE Settle(worker[w].key, "failed", content[worker[w].key].attempts, TRUE)
      BY <2>1, <2>2, <2>4, <2>5, <2>7, <3>3, SettleFence, Zenon
    <3>4. CASE Settle(worker[w].key, "pending", content[worker[w].key].attempts, FALSE)
      BY <2>1, <2>2, <2>4, <2>5, <2>7, <3>4, SettleFence, Zenon
    <3> QED BY <3>1, <3>2, <3>3, <3>4, Zenon
  <2> QED BY <2>6, <2>7
<1>11. CASE Release(w)
  <2>1. worker[w].pc \in ClaimPoints /\ issued' = issued /\ Become(w, Unclaimed("stopped"))
    BY <1>11 DEF Release, ClaimPoints
  <2>2. worker[w].key \in Contents BY <2>1 DEF FenceInv, TokensDrawn, Claiming
  <2>3. content[worker[w].key].attempts \in Nat BY <1>1, <2>2, RowFields DEF TypeOK
  <2>4. RestOK' BY <1>1, <1>11 DEF Release, RestOK
  <2>5. CASE ~Owns(w) BY <1>4, <1>11, <2>1, <2>4, <2>5, Zenon DEF Release
  <2>6. CASE Owns(w)
    <3>1. TakenBack(content[worker[w].key].attempts) \in Nat BY <2>3 DEF TakenBack
    <3>2. Settle(worker[w].key, "pending", TakenBack(content[worker[w].key].attempts), TRUE)
      BY <1>11, <2>6, Zenon DEF Release
    <3> QED BY <2>1, <2>4, <2>6, <3>1, <3>2, SettleFence, Zenon
  <2> QED BY <2>5, <2>6
<1>12. CASE Poll(w)
  <2>1. wake' \in BOOLEAN BY <1>1, <1>12, Zenon DEF Poll, RestOK
  <2>2. RestOK' /\ UNCHANGED <<content, issued>> /\ Become(w, Continue("idle"))
    BY <1>1, <1>12, <2>1 DEF Poll, RestOK
  <2> QED BY <1>3, <1>4, <2>2
<1>13. CASE FinishInterrupted(w)
  <2>1. lost' \in [Contents -> Nat] BY <1>5, <1>13 DEF FinishInterrupted
  <2>2. RestOK' /\ UNCHANGED <<content, issued>> /\ Become(w, Unclaimed("stopped"))
    BY <1>1, <1>13, <2>1 DEF FinishInterrupted, RestOK
  <2> QED BY <1>4, <2>2
<1>14. CASE FinishFails(w)
  <2>1. lost' \in [Contents -> Nat] BY <1>5, <1>14 DEF FinishFails
  <2>2. faults' \in Nat BY <1>1, <1>14 DEF FinishFails, RestOK
  <2>3. RestOK' /\ UNCHANGED <<content, issued>> /\ Become(w, Continue("idle"))
    BY <1>1, <1>14, <2>1, <2>2 DEF FinishFails, RestOK
  <2> QED BY <1>3, <1>4, <2>3
<1> QED
  BY <1>6, <1>7, <1>8, <1>9, <1>10, <1>11, <1>12, <1>13, <1>14 DEF WorkerStep

\* Shutdown, restart and crash keep the fence: they take claims away at most.
LEMMA ProcessFence ==
  ASSUME FenceInv, Shutdown \/ Restart \/ Crash
  PROVE  FenceInv'
<1>1. TypeOK /\ RestOK BY DEF FenceInv, TypeOK, RestOK
<1>2. UNCHANGED <<content, issued>> BY DEF Shutdown, Restart, Crash
<1>3. ClaimsKept /\ worker' \in [Workers -> WorkerRecord]
  <2>1. CASE Shutdown BY <1>1, <2>1, SameClaims DEF Shutdown, TypeOK
  <2>2. CASE Restart \/ Crash
    <3>1. worker' = [w \in Workers |-> Unclaimed("idle")] BY <2>2 DEF Restart, Crash, Fresh
    <3> QED BY <3>1, UnclaimedType DEF ClaimsKept
  <2> QED BY <2>1, <2>2
<1>4. RestOK'
  <2>1. CASE Shutdown
    <3>1. restarts' \in Nat BY <1>1, <2>1 DEF Shutdown, RestOK
    <3> QED BY <1>1, <2>1, <3>1 DEF Shutdown, RestOK
  <2>2. CASE Restart BY <1>1, <2>2, Zenon DEF Restart, Fresh, RestOK
  <2>3. CASE Crash
    <3>1. faults' \in Nat BY <1>1, <2>3 DEF Crash, RestOK
    <3>2. lost' \in [Contents -> Nat] BY <1>1, <2>3 DEF Crash, Forget, RestOK
    <3> QED BY <1>1, <2>3, <3>1, <3>2, Zenon DEF Crash, Fresh, RestOK
  <2> QED BY <2>1, <2>2, <2>3
<1> QED BY <1>2, <1>3, <1>4, KeepStep

\* The fence is inductive: one case per group of actions.
LEMMA FenceStep == FenceInv /\ [Next]_vars => FenceInv'
<1> SUFFICES ASSUME FenceInv, [Next]_vars PROVE FenceInv' OBVIOUS
<1>1. CASE UNCHANGED vars
  <2>1. RestOK' /\ worker' \in [Workers -> WorkerRecord] /\ UNCHANGED <<content, issued, worker>>
    BY <1>1 DEF vars, FenceInv, TypeOK, RestOK
  <2> QED BY <2>1, SameClaims, KeepStep
<1>2. CASE Next BY <1>2, RowFence, WorkerFence, ProcessFence DEF Next
<1> QED BY <1>1, <1>2

\* A claim stands until its lease lapses or its row is deleted, for any number of
\* workers, contents, restarts and faults: the token check of CompleteContent and
\* finishClaim keeps every late worker out.
THEOREM ClaimsStand == Spec => [](TypeOK /\ LiveClaimStands)
<1>1. Init => FenceInv BY QueueInit
<1>2. FenceInv => TypeOK /\ LiveClaimStands BY DEF FenceInv
<1> QED BY <1>1, <1>2, FenceStep, PTL DEF Spec

-----------------------------------------------------------------------------

\* Results and statuses stay together through every step: only CompleteContent
\* stores a result, in the transaction that makes the row "parsed".
LEMMA ResultStep ==
  ASSUME FenceInv, ResultMatchesStatus, [Next]_vars
  PROVE  ResultMatchesStatus'
<1>1. TypeOK BY DEF FenceInv
<1>2. ASSUME UNCHANGED <<content, parses>> PROVE ResultMatchesStatus'
  BY <1>2 DEF ResultMatchesStatus
<1>3. ASSUME NEW c \in Contents, NEW R, content' = [content EXCEPT ![c] = R],
             \A k \in Contents \ {c} : k \in parses' <=> k \in parses,
             c \in parses' <=> R.status = "parsed"
      PROVE  ResultMatchesStatus'
  <2>1. content'[c] = R /\ \A k \in Contents \ {c} : content'[k] = content[k]
    BY <1>1, <1>3 DEF TypeOK
  <2> QED BY <1>3, <2>1 DEF ResultMatchesStatus
<1>4. ASSUME NEW c \in Contents, Deliver(c) PROVE ResultMatchesStatus'
  <2>1. CASE content[c].status # "absent" BY <1>2, <1>4, <2>1 DEF Deliver
  <2>2. CASE content[c].status = "absent"
    <3> DEFINE R == [NoRow EXCEPT !.status = "pending", !.due = TRUE]
    <3>1. R.status = "pending" BY DEF NoRow
    <3>2. content' = [content EXCEPT ![c] = R] /\ parses' = parses BY <1>4, <2>2 DEF Deliver
    <3> HIDE DEF R
    <3>3. c \notin parses BY <2>2 DEF ResultMatchesStatus
    <3> QED BY <1>3, <3>1, <3>2, <3>3, Zenon
  <2> QED BY <2>1, <2>2
<1>5. ASSUME NEW c \in Contents, Remove(c) PROVE ResultMatchesStatus'
  <2>1. NoRow.status = "absent" BY DEF NoRow
  <2> QED BY <1>3, <1>5, <2>1, Zenon DEF Remove
<1>6. ASSUME NEW c \in Contents, Clock(c) \/ Stall(c) PROVE ResultMatchesStatus'
  <2>1. content[c] \in Row BY <1>1 DEF TypeOK
  <2>2. PICK R : content' = [content EXCEPT ![c] = R] /\ R.status = content[c].status
    <3>1. [content[c] EXCEPT !.due = TRUE].status = content[c].status
      BY <2>1 DEF Row
    <3>2. [content[c] EXCEPT !.lapsed = TRUE].status = content[c].status
      BY <2>1 DEF Row
    <3> QED BY <1>6, <3>1, <3>2, Zenon DEF Clock, BecomeDue, Lapse, Stall
  <2>3. parses' = parses BY <1>6 DEF Clock, BecomeDue, Lapse, Stall
  <2> QED BY <1>3, <2>2, <2>3 DEF ResultMatchesStatus
<1>7. ASSUME NEW c \in Candidates, content' = Leased(c), parses' = parses PROVE ResultMatchesStatus'
  <2> DEFINE R == [status |-> "processing", attempts |-> content[c].attempts + 1,
                   token |-> issued + 1, due |-> TRUE, lapsed |-> FALSE]
  <2>1. R.status = "processing" OBVIOUS
  <2>2. content' = [content EXCEPT ![c] = R] BY <1>7 DEF Leased
  <2> HIDE DEF R
  <2>3. c \in Contents /\ c \notin parses BY DEF Candidates, ResultMatchesStatus
  <2> QED BY <1>3, <1>7, <2>1, <2>2, <2>3, Zenon
<1>8. ASSUME NEW c \in Contents, NEW status, NEW n, NEW due, Settle(c, status, n, due),
             \A k \in Contents \ {c} : k \in parses' <=> k \in parses,
             c \in parses' <=> status = "parsed"
      PROVE  ResultMatchesStatus'
  <2> DEFINE R == [status |-> status, attempts |-> n, token |-> 0, due |-> due, lapsed |-> FALSE]
  <2>1. R.status = status OBVIOUS
  <2>2. content' = [content EXCEPT ![c] = R] BY <1>8 DEF Settle
  <2> HIDE DEF R
  <2> QED BY <1>3, <1>8, <2>1, <2>2, Zenon
<1>9. ASSUME NEW w \in Workers, worker[w].pc \in ClaimPoints, Owns(w)
      PROVE  worker[w].key \in Contents /\ worker[w].key \notin parses
  BY <1>9 DEF FenceInv, TokensDrawn, Claiming, Owns, ResultMatchesStatus
<1>10. ASSUME NEW w \in Workers, Finish(w) PROVE ResultMatchesStatus'
  <2>1. worker[w].pc \in ClaimPoints BY <1>10 DEF Finish, ClaimPoints
  <2>2. CASE ~Owns(w) BY <1>2, <1>10, <2>2, Zenon DEF Finish
  <2>3. CASE Owns(w)
    <3>1. worker[w].key \in Contents /\ worker[w].key \notin parses BY <1>9, <2>1, <2>3
    <3>2. \/ /\ Settle(worker[w].key, "parsed", content[worker[w].key].attempts, TRUE)
             /\ parses' = parses \union {worker[w].key}
          \/ /\ Settle(worker[w].key, "failed", content[worker[w].key].attempts, TRUE)
             /\ parses' = parses
          \/ /\ Settle(worker[w].key, "pending", content[worker[w].key].attempts, FALSE)
             /\ parses' = parses
      BY <1>10, <2>3, Zenon DEF Finish
    <3> QED BY <1>8, <3>1, <3>2, Zenon
  <2> QED BY <2>2, <2>3
<1>11. ASSUME NEW w \in Workers, Release(w) PROVE ResultMatchesStatus'
  <2>1. worker[w].pc \in ClaimPoints BY <1>11 DEF Release, ClaimPoints
  <2>2. CASE ~Owns(w) BY <1>2, <1>11, <2>2, Zenon DEF Release
  <2>3. CASE Owns(w)
    <3>1. worker[w].key \in Contents /\ worker[w].key \notin parses BY <1>9, <2>1, <2>3
    <3>2. PICK n : Settle(worker[w].key, "pending", n, TRUE) BY <1>11, <2>3, Zenon DEF Release
    <3>3. parses' = parses BY <1>11 DEF Release
    <3> QED BY <1>8, <3>1, <3>2, <3>3, Zenon
  <2> QED BY <2>2, <2>3
<1>12. ASSUME NEW w \in Workers, Claim(w) \/ ClaimFails(w) PROVE ResultMatchesStatus'
  BY <1>2, <1>7, <1>12, Zenon DEF Claim, ClaimFails
<1>13. ASSUME NEW w \in Workers,
              ClaimNothing(w) \/ Parse(w) \/ Poll(w) \/ FinishInterrupted(w) \/ FinishFails(w)
       PROVE  ResultMatchesStatus'
  BY <1>2, <1>13, Zenon DEF ClaimNothing, Parse, Poll, FinishInterrupted, FinishFails
<1>14. CASE Shutdown \/ Restart \/ Crash \/ UNCHANGED vars
  BY <1>2, <1>14 DEF Shutdown, Restart, Crash, vars
<1> QED
  BY <1>4, <1>5, <1>6, <1>10, <1>11, <1>12, <1>13, <1>14 DEF Next, WorkerStep

\* A parse result exists exactly for the parsed rows, for every instance: the
\* status and the result are committed, and cascade away, together.
THEOREM ResultsAgree == Spec => []ResultMatchesStatus
<1>1. Init => FenceInv /\ ResultMatchesStatus BY QueueInit
<1>2. FenceInv /\ ResultMatchesStatus /\ [Next]_vars => (FenceInv /\ ResultMatchesStatus)'
  BY FenceStep, ResultStep
<1> QED BY <1>1, <1>2, PTL DEF Spec

-----------------------------------------------------------------------------

\* What a step may do to the rows it does not write: it leaves their attempts,
\* and it loses a holder only with a lost attempt.
LEMMA RetriesElsewhere ==
  ASSUME FenceInv, RetriesInv, NEW c \in Contents,
         content'[c].status = content[c].status, content'[c].attempts = content[c].attempts,
         content'[c].lapsed = content[c].lapsed,
         lost'[c] \in Nat, lost'[c] >= lost[c],
         lost'[c] > lost[c] \/ (Holders(c)' = {} => Holders(c) = {})
  PROVE  /\ content'[c].attempts <= MaxAttempts + lost'[c]
         /\ Claimable(c)' => AttemptLeft(c)'
<1>1. content[c].attempts \in Nat /\ lost[c] \in Nat /\ MaxAttempts \in Nat
  BY RowFields, QueueAssumption DEF FenceInv, TypeOK
<1>2. content[c].attempts <= MaxAttempts + lost[c] BY DEF RetriesInv, RetriesBounded
<1>3. CASE lost'[c] > lost[c] BY <1>1, <1>2, <1>3 DEF AttemptLeft
<1>4. CASE Holders(c)' = {} => Holders(c) = {}
  <2>1. Claimable(c)' => Claimable(c) BY <1>4 DEF Claimable
  <2> QED BY <1>1, <1>2, <2>1 DEF RetriesInv, AttemptLeft
<1> QED BY <1>3, <1>4

\* The holders of a row whose token a step keeps are the workers that keep their
\* claim.
LEMMA HoldersKept ==
  ASSUME NEW c \in Contents, content'[c].token = content[c].token, UNCHANGED worker
  PROVE  Holders(c)' = Holders(c)
  BY DEF Holders, Claimants

\* A worker that gives up a claim takes the attempt with it (Forget).
LEMMA ForgetRetries ==
  ASSUME FenceInv, RetriesInv, UNCHANGED content, NEW W \in SUBSET Workers, Forget(W),
         \A v \in Workers \ W : worker'[v] = worker[v]
  PROVE  RetriesInv'
<1>1. lost \in [Contents -> Nat] BY DEF FenceInv, TypeOK
<1>2. ASSUME NEW c \in Contents
      PROVE  /\ content'[c].attempts <= MaxAttempts + lost'[c]
             /\ Claimable(c)' => AttemptLeft(c)'
  <2>1. CASE Holders(c) \intersect W = {}
    <3>1. lost'[c] = lost[c] BY <2>1 DEF Forget
    <3>2. Holders(c) \subseteq Holders(c)'
      BY <2>1 DEF Holders, Claimants
    <3> QED BY <1>1, <3>1, <3>2, RetriesElsewhere
  <2>2. CASE Holders(c) \intersect W # {}
    <3>1. lost'[c] = lost[c] + 1 BY <2>2 DEF Forget
    <3> QED BY <1>1, <3>1, RetriesElsewhere
  <2> QED BY <2>1, <2>2
<1> QED BY <1>2 DEF RetriesInv, RetriesBounded

\* One row is written, the rest keeps its holders.
LEMMA WriteRetries ==
  ASSUME FenceInv, RetriesInv, NEW c \in Contents, NEW R \in Row,
         content' = [content EXCEPT ![c] = R],
         lost' \in [Contents -> Nat], \A k \in Contents \ {c} : lost'[k] = lost[k],
         \A k \in Contents \ {c} : Holders(k)' = {} => Holders(k) = {},
         R.attempts <= MaxAttempts + lost'[c],
         Claimable(c)' => R.attempts < MaxAttempts + lost'[c]
  PROVE  RetriesInv'
<1>1. TypeOK BY DEF FenceInv
<1>2. /\ content'[c] = R
      /\ \A k \in Contents \ {c} : content'[k] = content[k]
  BY <1>1, RowWritten, Zenon
<1>3. ASSUME NEW k \in Contents
      PROVE  /\ content'[k].attempts <= MaxAttempts + lost'[k]
             /\ Claimable(k)' => AttemptLeft(k)'
  <2>1. CASE k = c BY <1>2, <2>1 DEF AttemptLeft
  <2>2. CASE k # c
    <3>1. lost'[k] = lost[k] /\ lost[k] \in Nat BY <1>1, <2>2 DEF TypeOK
    <3> QED BY <1>2, <2>2, <3>1, RetriesElsewhere
  <2> QED BY <2>1, <2>2
<1> QED BY <1>3 DEF RetriesInv, RetriesBounded

\* Every step keeps the account of attempts.
LEMMA RetriesStep ==
  ASSUME FenceInv, RetriesInv, [Next]_vars
  PROVE  RetriesInv'
<1>1. TypeOK /\ lost \in [Contents -> Nat] BY DEF FenceInv, TypeOK
<1>2. MaxAttempts \in Nat /\ MaxAttempts > 0 BY QueueAssumption
<1>3. \A c \in Contents : content[c] \in Row /\ content[c].attempts \in Nat /\ lost[c] \in Nat
  BY <1>1, RowFields DEF TypeOK
<1>4. \A c \in Contents : /\ content[c].attempts <= MaxAttempts + lost[c]
                          /\ Claimable(c) => content[c].attempts < MaxAttempts + lost[c]
  BY DEF RetriesInv, RetriesBounded, AttemptLeft
\* Nothing is written and no holder goes.
<1>5. ASSUME UNCHANGED <<content, lost>>, \A k \in Contents : Holders(k)' = {} => Holders(k) = {}
      PROVE  RetriesInv'
  <2>1. ASSUME NEW k \in Contents
        PROVE  /\ content'[k].attempts <= MaxAttempts + lost'[k]
               /\ Claimable(k)' => AttemptLeft(k)'
    BY <1>3, <1>5, RetriesElsewhere
  <2> QED BY <2>1 DEF RetriesInv, RetriesBounded
<1>6. ASSUME NEW c \in Contents, Deliver(c) PROVE RetriesInv'
  <2>1. UNCHANGED <<worker, lost>> BY <1>6 DEF Deliver
  <2>2. CASE content[c].status # "absent"
    <3>1. UNCHANGED content BY <1>6, <2>2 DEF Deliver
    <3> QED BY <1>5, <2>1, <3>1, HoldersKept
  <2>3. CASE content[c].status = "absent"
    <3> DEFINE R == [NoRow EXCEPT !.status = "pending", !.due = TRUE]
    <3>1. R \in Row /\ R.attempts = 0 BY Zenon DEF NoRow, Row
    <3>2. content' = [content EXCEPT ![c] = R] BY <1>6, <2>3 DEF Deliver
    <3> HIDE DEF R
    <3>3. \A k \in Contents \ {c} : content'[k] = content[k] BY <1>1, <3>1, <3>2, RowWritten
    <3>4. \A k \in Contents \ {c} : Holders(k)' = Holders(k) BY <2>1, <3>3, HoldersKept
    <3>5. lost'[c] = lost[c] /\ R.attempts <= MaxAttempts + lost[c] /\ R.attempts < MaxAttempts + lost[c]
      BY <1>2, <1>3, <2>1, <3>1
    <3> QED BY <1>1, <2>1, <3>1, <3>2, <3>4, <3>5, WriteRetries, Zenon
  <2> QED BY <2>2, <2>3
\* The holders of rows other than c, when claims are voided or nothing happens to them.
<1>7. ASSUME NEW c \in Contents, Void(c) \/ UNCHANGED worker,
             \A k \in Contents \ {c} : content'[k] = content[k]
      PROVE  \A k \in Contents \ {c} : Holders(k)' = Holders(k)
  <2>1. CASE UNCHANGED worker BY <1>7, <2>1, HoldersKept
  <2>2. CASE Void(c)
    <3>1. \A w \in Workers : worker[w].key # c => worker'[w] = worker[w]
      BY <2>2 DEF Void, Claimants
    <3>2. \A w \in Workers : worker'[w].key = worker[w].key
      <4>1. ASSUME NEW w \in Workers PROVE worker'[w].key = worker[w].key
        <5>1. worker[w] \in WorkerRecord BY <1>1 DEF TypeOK
        <5>2. worker'[w] = worker[w] \/ worker'[w] = [worker[w] EXCEPT !.voided = TRUE]
          BY <2>2 DEF Void
        <5> QED BY <5>1, <5>2 DEF WorkerRecord
      <4> QED BY <4>1
    <3> QED BY <1>7, <3>1, <3>2 DEF Holders, Claimants
  <2> QED BY <1>7, <2>1, <2>2
<1>8. ASSUME NEW c \in Contents, Remove(c) PROVE RetriesInv'
  <2>1. NoRow \in Row /\ NoRow.attempts = 0 BY RowFields DEF NoRow
  <2>2. content' = [content EXCEPT ![c] = NoRow] /\ Void(c) BY <1>8 DEF Remove
  <2>3. \A k \in Contents \ {c} : content'[k] = content[k] BY <1>1, <2>1, <2>2, RowWritten
  <2>4. \A k \in Contents \ {c} : Holders(k)' = Holders(k) BY <1>7, <2>2, <2>3
  <2>5. lost' \in [Contents -> Nat] /\ lost'[c] = 0 /\ \A k \in Contents \ {c} : lost'[k] = lost[k]
    BY <1>1, <1>8 DEF Remove
  <2>6. NoRow.attempts <= MaxAttempts + lost'[c] /\ NoRow.attempts < MaxAttempts + lost'[c]
    BY <1>2, <2>1, <2>5
  <2> QED BY <2>1, <2>2, <2>4, <2>5, <2>6, WriteRetries, Zenon
<1>9. ASSUME NEW c \in Contents, BecomeDue(c) PROVE RetriesInv'
  <2> DEFINE R == [content[c] EXCEPT !.due = TRUE]
  <2>1. R \in Row /\ R.attempts = content[c].attempts BY <1>3, Zenon DEF Row
  <2>2. content' = [content EXCEPT ![c] = R] /\ UNCHANGED <<worker, lost>> BY <1>9 DEF BecomeDue
  <2> HIDE DEF R
  <2>3. \A k \in Contents \ {c} : content'[k] = content[k] BY <1>1, <2>1, <2>2, RowWritten
  <2>4. \A k \in Contents \ {c} : Holders(k)' = Holders(k) BY <1>7, <2>2, <2>3
  <2>5. Claimable(c) BY <1>9 DEF BecomeDue, Claimable
  <2> QED BY <1>1, <1>4, <2>1, <2>2, <2>4, <2>5, WriteRetries, Zenon
<1>10. ASSUME NEW c \in Contents, Lapse(c) \/ Stall(c) PROVE RetriesInv'
  <2> DEFINE R == [content[c] EXCEPT !.lapsed = TRUE]
  <2>1. R \in Row /\ R.attempts = content[c].attempts BY <1>3, Zenon DEF Row
  <2>2. content' = [content EXCEPT ![c] = R] /\ (Void(c) \/ UNCHANGED worker)
    BY <1>10 DEF Lapse, Stall
  <2> HIDE DEF R
  <2>3. \A k \in Contents \ {c} : content'[k] = content[k] BY <1>1, <2>1, <2>2, RowWritten
  <2>4. \A k \in Contents \ {c} : Holders(k)' = Holders(k) BY <1>7, <2>2, <2>3
  <2>5. CASE Lapse(c)
    <3>1. Claimable(c) /\ lost' = lost BY <2>5 DEF Lapse, Running, Claimable
    <3> QED BY <1>1, <1>4, <2>1, <2>2, <2>4, <3>1, WriteRetries, Zenon
  <2>6. CASE Stall(c)
    <3>1. /\ lost' \in [Contents -> Nat] /\ lost'[c] = lost[c] + 1
          /\ \A k \in Contents \ {c} : lost'[k] = lost[k]
      BY <1>1, <2>6 DEF Stall
    <3>2. content[c].attempts < MaxAttempts + lost'[c] BY <1>2, <1>3, <1>4, <3>1
    <3>3. R.attempts <= MaxAttempts + lost'[c] BY <1>2, <1>3, <2>1, <3>1, <3>2
    <3> QED BY <2>1, <2>2, <2>4, <3>1, <3>2, <3>3, WriteRetries, Zenon
  <2> QED BY <1>10, <2>5, <2>6
<1>12. \A q \in {"idle", "sleep", "stopped"}, w \in Workers :
          Become(w, Unclaimed(q)) => \A v \in Workers \ {w} : worker'[v] = worker[v]
  BY <1>1 DEF TypeOK, Become
<1>13. \A pc \in {"idle", "sleep"} :
        \E q \in {"idle", "sleep", "stopped"} : Continue(pc) = Unclaimed(q)
  BY DEF Continue
\* A worker that holds no row leaves the holders of all rows in place.
<1>14. ASSUME NEW w \in Workers, \A k \in Contents : w \notin Holders(k),
              \A v \in Workers \ {w} : worker'[v] = worker[v], UNCHANGED <<content, lost>>
       PROVE  RetriesInv'
  <2>1. \A k \in Contents : Holders(k) \subseteq Holders(k)' BY <1>14 DEF Holders, Claimants
  <2> QED BY <1>5, <1>14, <2>1
<1>15. ASSUME NEW w \in Workers, worker[w].pc \notin ClaimPoints \/ ~Owns(w)
       PROVE  \A k \in Contents : w \notin Holders(k)
  <2>1. ASSUME NEW k \in Contents, w \in Holders(k) PROVE FALSE
    <3>1. /\ worker[w].pc \in ClaimPoints /\ worker[w].key = k /\ worker[w].token = content[k].token
      BY <2>1 DEF Holders, Claimants
    <3>2. worker[w].token > 0 /\ worker[w].token \in Nat
      BY <1>1, <3>1, WorkerFields DEF FenceInv, TokensDrawn, Claiming, TypeOK
    <3>3. content[k].status = "processing" BY <1>1, <3>1, <3>2 DEF TypeOK
    <3> QED BY <1>15, <3>1, <3>3 DEF Owns
  <2> QED BY <2>1
<1>16. ASSUME NEW w \in Workers, ClaimNothing(w) \/ Poll(w) PROVE RetriesInv'
  <2>1. worker[w].pc \notin ClaimPoints BY <1>16, Zenon DEF ClaimNothing, Poll, ClaimPoints
  <2>2. UNCHANGED <<content, lost>> BY <1>16, Zenon DEF ClaimNothing, Poll
  <2>3. \A v \in Workers \ {w} : worker'[v] = worker[v]
    BY <1>12, <1>13, <1>16, ZenonT(60) DEF ClaimNothing, Poll
  <2> QED BY <1>14, <1>15, <2>1, <2>2, <2>3
<1>17. ASSUME NEW w \in Workers, Parse(w) PROVE RetriesInv'
  <2>1. UNCHANGED <<content, lost>> /\ worker[w].pc \in ClaimPoints BY <1>17, Zenon DEF Parse, ClaimPoints
  <2>2. worker[w] \in WorkerRecord BY <1>1 DEF TypeOK
  <2>3. PICK r : /\ Become(w, r) /\ r.pc \in ClaimPoints
                 /\ r.key = worker[w].key /\ r.token = worker[w].token
    <3>1. CASE stopping
      <4>1. Become(w, [worker[w] EXCEPT !.pc = "release"]) BY <1>17, <3>1 DEF Parse
      <4> QED BY <2>2, <4>1 DEF WorkerRecord, ClaimPoints
    <3>2. CASE ~stopping
      <4>1. PICK v \in Verdicts : Become(w, [worker[w] EXCEPT !.pc = "finish", !.verdict = v])
        BY <1>17, <3>2, Zenon DEF Parse
      <4> DEFINE r == [worker[w] EXCEPT !.pc = "finish", !.verdict = v]
      <4>2. r.pc \in ClaimPoints /\ r.key = worker[w].key /\ r.token = worker[w].token
        BY <2>2 DEF WorkerRecord, ClaimPoints
      <4> HIDE DEF r
      <4>3. Become(w, r) BY <4>1 DEF r
      <4> QED BY <4>2, <4>3
    <3> QED BY <3>1, <3>2
  <2>4. worker'[w] = r /\ \A v \in Workers \ {w} : worker'[v] = worker[v]
    BY <1>1, <2>3 DEF TypeOK, Become
  <2>5. \A k \in Contents : Holders(k) \subseteq Holders(k)'
    BY <2>1, <2>3, <2>4 DEF Holders, Claimants
  <2> QED BY <1>5, <2>1, <2>5
\* Holders of rows other than the one a worker leases or settles.
<1>18. ASSUME NEW w \in Workers, NEW c \in Contents,
              worker[w].pc \in ClaimPoints => worker[w].key = c,
              \A v \in Workers \ {w} : worker'[v] = worker[v],
              \A k \in Contents \ {c} : content'[k] = content[k]
       PROVE  \A k \in Contents \ {c} : Holders(k)' = {} => Holders(k) = {}
  <2>1. \A k \in Contents \ {c} : Holders(k) \subseteq Holders(k)'
    BY <1>18 DEF Holders, Claimants
  <2> QED BY <2>1
<1>19. ASSUME NEW w \in Workers, NEW c \in Candidates, content' = Leased(c),
              worker[w].pc = "idle", \A v \in Workers \ {w} : worker'[v] = worker[v],
              lost' \in [Contents -> Nat], \A k \in Contents \ {c} : lost'[k] = lost[k],
              \/ lost'[c] = lost[c] + 1
              \/ /\ lost'[c] = lost[c]
                 /\ worker'[w].pc \in ClaimPoints /\ worker'[w].key = c
                 /\ worker'[w].token = issued + 1
       PROVE  RetriesInv'
  <2> DEFINE R == [status |-> "processing", attempts |-> content[c].attempts + 1,
                   token |-> issued + 1, due |-> TRUE, lapsed |-> FALSE]
  <2>1. c \in Contents /\ Claimable(c) BY DEF Candidates, Claimable
  <2>2. /\ R \in Row /\ R.attempts = content[c].attempts + 1 /\ R.token = issued + 1
        /\ ~R.lapsed /\ R.status = "processing"
    <3>1. issued + 1 \in Nat BY <1>1 DEF TypeOK
    <3>2. content[c].attempts + 1 \in Nat BY <1>3, <2>1
    <3> QED BY <3>1, <3>2 DEF Row
  <2>3. content' = [content EXCEPT ![c] = R] BY <1>19 DEF Leased
  <2> HIDE DEF R
  <2>4. content'[c] = R /\ \A k \in Contents \ {c} : content'[k] = content[k]
    BY <1>1, <2>1, <2>2, <2>3, RowWritten, Zenon
  <2>5. \A k \in Contents \ {c} : Holders(k)' = {} => Holders(k) = {}
    BY <1>18, <1>19, <2>1, <2>4 DEF ClaimPoints
  <2>6. /\ content[c].attempts < MaxAttempts + lost[c]
        /\ content[c].attempts \in Nat /\ lost[c] \in Nat /\ MaxAttempts \in Nat
    BY <1>2, <1>3, <1>4, <2>1
  <2>7. CASE lost'[c] = lost[c] + 1
    <3>1. R.attempts < MaxAttempts + lost'[c] /\ R.attempts <= MaxAttempts + lost'[c]
      BY <2>2, <2>6, <2>7
    <3> QED BY <1>19, <2>1, <2>2, <2>3, <2>5, <3>1, WriteRetries, Zenon
  <2>8. CASE /\ lost'[c] = lost[c]
             /\ worker'[w].pc \in ClaimPoints /\ worker'[w].key = c
             /\ worker'[w].token = issued + 1
    <3>1. R.attempts <= MaxAttempts + lost'[c]
      BY <2>2, <2>6, <2>8
    <3>2. w \in Holders(c)' BY <2>2, <2>4, <2>8 DEF Holders, Claimants
    <3>3. ~Claimable(c)' BY <2>2, <2>4, <3>2 DEF Claimable
    <3> QED BY <1>19, <2>1, <2>2, <2>3, <2>5, <3>1, <3>3, WriteRetries, Zenon
  <2> QED BY <1>19, <2>7, <2>8
<1>20. ASSUME NEW w \in Workers, Claim(w) PROVE RetriesInv'
  <2>1. PICK c \in Candidates :
         /\ content' = Leased(c)
         /\ Become(w, [pc |-> "parsing", key |-> c, token |-> issued + 1,
                       attempt |-> content[c].attempts + 1, verdict |-> "none", voided |-> FALSE])
    BY <1>20, Zenon DEF Claim
  <2>2. /\ worker'[w].pc \in ClaimPoints /\ worker'[w].key = c /\ worker'[w].token = issued + 1
        /\ \A v \in Workers \ {w} : worker'[v] = worker[v]
    BY <1>1, <2>1 DEF TypeOK, Become, ClaimPoints
  <2>3. worker[w].pc = "idle" /\ lost' = lost BY <1>20 DEF Claim
  <2>4. c \in Contents BY DEF Candidates
  <2> QED BY <1>1, <1>19, <2>1, <2>2, <2>3, <2>4
<1>21. ASSUME NEW w \in Workers, ClaimFails(w) PROVE RetriesInv'
  <2>1. worker[w].pc = "idle" /\ \A v \in Workers \ {w} : worker'[v] = worker[v]
    BY <1>12, <1>13, <1>21 DEF ClaimFails
  <2>2. CASE UNCHANGED <<content, issued, lost>>
    BY <1>14, <1>15, <2>1, <2>2 DEF ClaimPoints
  <2>3. CASE \E c \in Candidates : content' = Leased(c) /\ lost' = [lost EXCEPT ![c] = @ + 1]
    <3>1. PICK c \in Candidates : content' = Leased(c) /\ lost' = [lost EXCEPT ![c] = @ + 1]
      BY <2>3, Zenon
    <3>2. /\ lost' \in [Contents -> Nat] /\ lost'[c] = lost[c] + 1
          /\ \A k \in Contents \ {c} : lost'[k] = lost[k]
      BY <1>1, <3>1 DEF Candidates
    <3> QED BY <1>19, <2>1, <3>1, <3>2
  <2> QED BY <1>21, <2>2, <2>3 DEF ClaimFails
\* Ending an owned claim.
<1>22. ASSUME NEW w \in Workers, worker[w].pc \in ClaimPoints, Owns(w),
              NEW c \in Contents, c = worker[w].key,
              NEW status \in {"pending", "parsed", "failed"}, NEW n \in Nat, NEW due \in BOOLEAN,
              Settle(c, status, n, due), lost' = lost,
              \A v \in Workers \ {w} : worker'[v] = worker[v],
              n <= content[c].attempts,
              status = "pending" => n < MaxAttempts + lost[c]
       PROVE  RetriesInv'
  <2> DEFINE R == [status |-> status, attempts |-> n, token |-> 0, due |-> due, lapsed |-> FALSE]
  <2>2. R \in Row /\ R.attempts = n /\ R.status = status BY DEF Row
  <2>3. content' = [content EXCEPT ![c] = R] BY <1>22 DEF Settle
  <2> HIDE DEF R
  <2>4. content'[c] = R /\ \A k \in Contents \ {c} : content'[k] = content[k]
    BY <1>1, <2>2, <2>3, RowWritten, Zenon
  <2>5. \A k \in Contents \ {c} : Holders(k)' = {} => Holders(k) = {}
    BY <1>18, <1>22, <2>4
  <2>6. n <= MaxAttempts + lost'[c]
    <3>1. /\ content[c].attempts \in Nat /\ lost[c] \in Nat /\ MaxAttempts \in Nat
          /\ content[c].attempts <= MaxAttempts + lost[c]
      BY <1>2, <1>3, <1>4
    <3>2. n <= content[c].attempts /\ lost'[c] = lost[c] BY <1>22
    <3> QED BY <3>1, <3>2
  <2>7. Claimable(c)' => n < MaxAttempts + lost'[c]
    <3>1. CASE status = "pending" BY <1>22, <3>1
    <3>2. CASE status # "pending"
      <4>1. content'[c].status \notin {"absent", "pending", "processing"} BY <2>2, <2>4, <3>2
      <4> QED BY <4>1 DEF Claimable
    <3> QED BY <3>1, <3>2
  <2> QED BY <1>1, <1>22, <2>2, <2>3, <2>5, <2>6, <2>7, WriteRetries, Zenon
<1>23. ASSUME NEW w \in Workers, Finish(w) PROVE RetriesInv'
  <2>1. /\ worker[w].pc \in ClaimPoints /\ lost' = lost
        /\ \A v \in Workers \ {w} : worker'[v] = worker[v]
    BY <1>12, <1>13, <1>23, Zenon DEF Finish, ClaimPoints
  <2>2. CASE ~Owns(w)
    <3>1. UNCHANGED content BY <1>23, <2>2, Zenon DEF Finish
    <3> QED BY <1>14, <1>15, <2>1, <2>2, <3>1
  <2>3. CASE Owns(w)
    <3>1. PICK c \in Contents : c = worker[w].key
      BY <2>1 DEF FenceInv, TokensDrawn, Claiming
    <3>2. content[c].attempts \in Nat /\ content[c].attempts <= content[c].attempts BY <1>3
    <3>3. CASE Settle(c, "parsed", content[c].attempts, TRUE)
      BY <1>22, <2>1, <2>3, <3>1, <3>2, <3>3, Zenon
    <3>4. CASE Settle(c, "failed", content[c].attempts, TRUE)
      BY <1>22, <2>1, <2>3, <3>1, <3>2, <3>4, Zenon
    <3>5. CASE /\ ~GivesUp(w)
               /\ Settle(c, "pending", content[c].attempts, FALSE)
      <4>1. worker[w].attempt = content[c].attempts
        BY <2>1, <2>3, <3>1 DEF FenceInv, AttemptKnown, Claiming
      <4>2. content[c].attempts < MaxAttempts + lost[c]
        BY <1>2, <1>3, <3>2, <3>5, <4>1 DEF GivesUp
      <4> QED BY <1>22, <2>1, <2>3, <3>1, <3>2, <3>5, <4>2, Zenon
    <3> QED BY <1>23, <2>3, <3>1, <3>3, <3>4, <3>5, Zenon DEF Finish
  <2> QED BY <2>2, <2>3
<1>24. ASSUME NEW w \in Workers, Release(w) PROVE RetriesInv'
  <2>1. /\ worker[w].pc \in ClaimPoints /\ lost' = lost
        /\ \A v \in Workers \ {w} : worker'[v] = worker[v]
    BY <1>12, <1>24 DEF Release, ClaimPoints
  <2>2. CASE ~Owns(w)
    <3>1. UNCHANGED content BY <1>24, <2>2, Zenon DEF Release
    <3> QED BY <1>14, <1>15, <2>1, <2>2, <3>1
  <2>3. CASE Owns(w)
    <3>1. PICK c \in Contents : c = worker[w].key
      BY <2>1 DEF FenceInv, TokensDrawn, Claiming
    <3> DEFINE n == TakenBack(content[c].attempts)
    <3>2. /\ n \in Nat /\ n <= content[c].attempts
          /\ n < MaxAttempts + lost[c]
      BY <1>2, <1>3, <1>4 DEF TakenBack
    <3>3. Settle(c, "pending", n, TRUE) BY <1>24, <2>3, <3>1, Zenon DEF Release
    <3> HIDE DEF n
    <3> QED BY <1>22, <2>1, <2>3, <3>1, <3>2, <3>3, Zenon
  <2> QED BY <2>2, <2>3
<1>25. ASSUME NEW w \in Workers, FinishInterrupted(w) \/ FinishFails(w) PROVE RetriesInv'
  <2>1. Forget({w}) /\ UNCHANGED content BY <1>25 DEF FinishInterrupted, FinishFails
  <2>2. \A v \in Workers \ {w} : worker'[v] = worker[v]
    BY <1>12, <1>13, <1>25 DEF FinishInterrupted, FinishFails
  <2> QED BY <2>1, <2>2, ForgetRetries
<1>26. CASE Crash BY <1>26, ForgetRetries DEF Crash
<1>27. CASE Restart
  <2>1. \A k \in Contents : Holders(k) = {}
    BY <1>27 DEF Restart, Holders, Claimants, ClaimPoints
  <2> QED BY <1>5, <1>27, <2>1 DEF Restart
<1>28. CASE Shutdown \/ UNCHANGED vars
  BY <1>5, <1>28, HoldersKept DEF Shutdown, vars
<1> QED
  BY <1>6, <1>8, <1>9, <1>10, <1>16, <1>17, <1>20, <1>21, <1>23, <1>24, <1>25, <1>26, <1>27, <1>28
  DEF Next, WorkerStep, Clock

\* Transient failures never take a content past MaxAttempts, for every instance:
\* each further attempt is matched by a claim that was lost with its holder.
THEOREM RetriesAreBounded == Spec => []RetriesBounded
<1>1. Init => FenceInv /\ RetriesInv BY QueueInit
<1>2. FenceInv /\ RetriesInv /\ [Next]_vars => (FenceInv /\ RetriesInv)'
  BY FenceStep, RetriesStep
<1>3. RetriesInv => RetriesBounded BY DEF RetriesInv
<1> QED BY <1>1, <1>2, <1>3, PTL DEF Spec
=============================================================================
