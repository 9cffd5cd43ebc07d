----------------------------- MODULE ParseQueue -----------------------------
(***************************************************************************)
(* The content parse queue: mail_contents rows that wait to be parsed, the *)
(* worker goroutines that lease, parse and settle them, deliveries and     *)
(* deletions that create and remove rows, and graceful or sudden ends of   *)
(* the process.  A claim is a lease with a fresh token; every statement    *)
(* that ends a claim compares status and token.                            *)
(*                                                                         *)
(* Time is reduced to two facts per row: a retry delay that is over (due)  *)
(* and a lease that is over (lapsed).                                      *)
(***************************************************************************)
EXTENDS Naturals

CONSTANTS
  Contents,     \* content keys
  NoKey,        \* the key of a worker without a claim
  Workers,      \* worker goroutines of ParserWorker.Run
  MaxAttempts,  \* ParserOptions.MaxAttempts
  MaxRows,      \* bound on mail_contents rows ever inserted
  MaxRestarts,  \* bound on graceful shutdowns
  MaxFaults     \* bound on crashes, stalls and failing statements

ASSUME QueueAssumption ==
  /\ NoKey \notin Contents
  /\ MaxAttempts \in Nat \ {0}
  /\ MaxRows \in Nat
  /\ MaxRestarts \in Nat
  /\ MaxFaults \in Nat

VARIABLES
  content,   \* the parse columns of each mail_contents row
  parses,    \* keys with a mail_content_parses row
  worker,    \* each goroutine and the claim it holds
  wake,      \* the wake channel holds its one element
  stopping,  \* the context of Run is cancelled
  issued,    \* lease tokens drawn so far; every UUID is new
  rows, restarts, faults,
  lost       \* history: claims on the row that their holder never ended

vars == <<content, parses, worker, wake, stopping, issued, rows, restarts, faults, lost>>

Row ==
  [status : {"absent", "pending", "processing", "parsed", "failed"},
   attempts : Nat, token : Nat, due : BOOLEAN, lapsed : BOOLEAN]
NoRow == [status |-> "absent", attempts |-> 0, token |-> 0, due |-> FALSE, lapsed |-> FALSE]

\* voided is history: the lease lapsed, or the row went, while the claim was held.
ClaimPoints == {"parsing", "finish", "release"}
Verdicts == {"none", "ok", "transient", "permanent"}
WorkerRecord ==
  [pc : ClaimPoints \union {"idle", "sleep", "stopped"}, key : Contents \union {NoKey},
   token : Nat, attempt : Nat, verdict : Verdicts, voided : BOOLEAN]
Unclaimed(pc) ==
  [pc |-> pc, key |-> NoKey, token |-> 0, attempt |-> 0, verdict |-> "none", voided |-> FALSE]

\* The row keeps the shape its CHECK constraints demand: a token exactly while
\* it is being processed.
TypeOK ==
  /\ content \in [Contents -> Row]
  /\ \A c \in Contents : content[c].token # 0 <=> content[c].status = "processing"
  /\ parses \subseteq Contents
  /\ worker \in [Workers -> WorkerRecord]
  /\ wake \in BOOLEAN
  /\ stopping \in BOOLEAN
  /\ issued \in Nat /\ rows \in Nat /\ restarts \in Nat /\ faults \in Nat
  /\ lost \in [Contents -> Nat]

Init ==
  /\ content = [c \in Contents |-> NoRow]
  /\ parses = {}
  /\ worker = [w \in Workers |-> Unclaimed("idle")]
  /\ wake = FALSE
  /\ stopping = FALSE
  /\ issued = 0
  /\ rows = 0
  /\ restarts = 0
  /\ faults = 0
  /\ lost = [c \in Contents |-> 0]

-----------------------------------------------------------------------------
(* Receiver.Receive and the deletions, as far as the queue sees them.      *)

\* CommitDelivery inserts the row unless it is there; Notify puts an element
\* into the channel of capacity one, or is lost with an unconfirmed commit.
Deliver(c) ==
  /\ \/ /\ content[c].status = "absent"
        /\ rows < MaxRows
        /\ rows' = rows + 1
        /\ content' = [content EXCEPT ![c] = [NoRow EXCEPT !.status = "pending", !.due = TRUE]]
     \/ /\ content[c].status # "absent"
        /\ UNCHANGED <<rows, content>>
  /\ wake' \in {wake, TRUE}
  /\ UNCHANGED <<parses, worker, stopping, issued, restarts, faults, lost>>

\* The claims on a row in the hands of a worker.
Claimants(c) == {w \in Workers : worker[w].pc \in ClaimPoints /\ worker[w].key = c}
Void(c) ==
  worker' = [w \in Workers |->
    IF w \in Claimants(c) THEN [worker[w] EXCEPT !.voided = TRUE] ELSE worker[w]]

\* Mutant: the parse result refers to its row without ON DELETE CASCADE.
RemoveRowOnly(c) ==
  /\ content[c].status # "absent"
  /\ content' = [content EXCEPT ![c] = NoRow]
  /\ lost' = [lost EXCEPT ![c] = 0]
  /\ Void(c)
  /\ UNCHANGED <<parses, wake, stopping, issued, rows, restarts, faults>>

\* The last message goes: the row is deleted and its parse result cascades.
Remove(c) ==
  /\ content[c].status # "absent"
  /\ content' = [content EXCEPT ![c] = NoRow]
  /\ parses' = parses \ {c}
  /\ lost' = [lost EXCEPT ![c] = 0]
  /\ Void(c)
  /\ UNCHANGED <<wake, stopping, issued, rows, restarts, faults>>

-----------------------------------------------------------------------------
(* The clock.                                                              *)

\* parse_available_at passes.
BecomeDue(c) ==
  /\ content[c].status = "pending" /\ ~content[c].due
  /\ content' = [content EXCEPT ![c] = [@ EXCEPT !.due = TRUE]]
  /\ UNCHANGED <<parses, worker, wake, stopping, issued, rows, restarts, faults, lost>>

\* The workers whose claim on c is the current one.
Holders(c) == {w \in Claimants(c) : worker[w].token = content[c].token}

Running(c) == content[c].status = "processing" /\ ~content[c].lapsed

\* parse_lease_until passes on a claim that no worker holds any more.
Lapse(c) ==
  /\ Running(c)
  /\ Holders(c) = {}
  /\ content' = [content EXCEPT ![c] = [@ EXCEPT !.lapsed = TRUE]]
  /\ UNCHANGED <<parses, worker, wake, stopping, issued, rows, restarts, faults, lost>>

\* The parse timeout is shorter than the lease, but nothing stops a process from
\* being suspended until the lease of a claim it holds is over.
Stall(c) ==
  /\ Running(c)
  /\ Holders(c) # {}
  /\ faults < MaxFaults
  /\ faults' = faults + 1
  /\ content' = [content EXCEPT ![c] = [@ EXCEPT !.lapsed = TRUE]]
  /\ lost' = [lost EXCEPT ![c] = @ + 1]
  /\ Void(c)
  /\ UNCHANGED <<parses, wake, stopping, issued, rows, restarts>>

-----------------------------------------------------------------------------
(* runWorker and processNext.                                              *)

Become(w, state) == worker' = [worker EXCEPT ![w] = state]

\* After an iteration the worker returns if the context is cancelled.
Continue(pc) == Unclaimed(IF stopping THEN "stopped" ELSE pc)

\* Mutant: lapsed leases are not taken over.
PendingCandidates == {c \in Contents : content[c].status = "pending" /\ content[c].due}

Candidates ==
  {c \in Contents : \/ content[c].status = "pending" /\ content[c].due
                    \/ content[c].status = "processing" /\ content[c].lapsed}

Leased(c) ==
  [content EXCEPT ![c] = [status |-> "processing", attempts |-> content[c].attempts + 1,
                          token |-> issued + 1, due |-> TRUE, lapsed |-> FALSE]]

\* ClaimContent: FOR UPDATE SKIP LOCKED LIMIT 1 and the UPDATE are one statement.
\* Which candidate comes first is left open.
Claim(w) ==
  /\ worker[w].pc = "idle"
  /\ ~stopping
  /\ \E c \in Candidates :
       /\ content' = Leased(c)
       /\ Become(w, [pc |-> "parsing", key |-> c, token |-> issued + 1,
                     attempt |-> content[c].attempts + 1, verdict |-> "none", voided |-> FALSE])
  /\ issued' = issued + 1
  /\ UNCHANGED <<parses, wake, stopping, rows, restarts, faults, lost>>

ClaimNothing(w) ==
  /\ worker[w].pc = "idle"
  /\ stopping \/ Candidates = {}
  /\ Become(w, Continue("sleep"))
  /\ UNCHANGED <<content, parses, wake, stopping, issued, rows, restarts, faults, lost>>

\* The claim fails, or its answer is lost after the server applied it.
ClaimFails(w) ==
  /\ worker[w].pc = "idle"
  /\ faults < MaxFaults
  /\ faults' = faults + 1
  /\ Become(w, Continue("sleep"))
  /\ \/ UNCHANGED <<content, issued, lost>>
     \/ \E c \in Candidates :
          /\ content' = Leased(c)
          /\ issued' = issued + 1
          /\ lost' = [lost EXCEPT ![c] = @ + 1]
  /\ UNCHANGED <<parses, wake, stopping, rows, restarts>>

\* parseClaim and classifyParseError: a result, a lasting defect of the content,
\* or a failure that may pass (timeout, source unavailable); then the check
\* whether the context was cancelled.
Parse(w) ==
  /\ worker[w].pc = "parsing"
  /\ \/ /\ stopping
        /\ Become(w, [worker[w] EXCEPT !.pc = "release"])
     \/ /\ ~stopping
        /\ \E v \in Verdicts \ {"none"} :
             Become(w, [worker[w] EXCEPT !.pc = "finish", !.verdict = v])
  /\ UNCHANGED <<content, parses, wake, stopping, issued, rows, restarts, faults, lost>>

\* Mutant: the statement that ends a claim does not compare the token.
OwnsByStatus(w) == content[worker[w].key].status = "processing"

\* WHERE content_key = $1 AND parse_status = 'processing' AND parse_lease_token = $2.
Owns(w) ==
  LET row == content[worker[w].key] IN
  row.status = "processing" /\ row.token = worker[w].token

\* Mutant: off by one.
GivesUpLate(w) == worker[w].verdict = "permanent" \/ worker[w].attempt > MaxAttempts

GivesUp(w) == worker[w].verdict = "permanent" \/ worker[w].attempt >= MaxAttempts

\* The row leaves "processing"; its token and lease become NULL.
Settle(c, status, attempts, due) ==
  content' = [content EXCEPT ![c] = [status |-> status, attempts |-> attempts,
                                     token |-> 0, due |-> due, lapsed |-> FALSE]]

\* CompleteContent, FailContent or RetryContent; zero updated rows mean
\* ErrStaleParseClaim, and the worker goes on.
Finish(w) ==
  LET c == worker[w].key
      row == content[c] IN
  /\ worker[w].pc = "finish"
  /\ \/ /\ ~Owns(w)
        /\ UNCHANGED <<content, parses>>
     \/ /\ Owns(w)
        /\ worker[w].verdict = "ok"
        /\ Settle(c, "parsed", row.attempts, TRUE)
        /\ parses' = parses \union {c}
     \/ /\ Owns(w)
        /\ worker[w].verdict # "ok" /\ GivesUp(w)
        /\ Settle(c, "failed", row.attempts, TRUE)
        /\ UNCHANGED parses
     \/ /\ Owns(w)
        /\ worker[w].verdict # "ok" /\ ~GivesUp(w)
        /\ Settle(c, "pending", row.attempts, FALSE)
        /\ UNCHANGED parses
  /\ Become(w, Continue("idle"))
  /\ UNCHANGED <<wake, stopping, issued, rows, restarts, faults, lost>>

\* The history of a claim that its holder did not end.
Forget(W) ==
  lost' = [c \in Contents |-> IF Holders(c) \intersect W = {} THEN lost[c] ELSE lost[c] + 1]

\* The context is cancelled after processNext looked at it: the statement fails
\* with the context and nobody releases the claim.
FinishInterrupted(w) ==
  /\ worker[w].pc = "finish"
  /\ stopping
  /\ Forget({w})
  /\ Become(w, Unclaimed("stopped"))
  /\ UNCHANGED <<content, parses, wake, stopping, issued, rows, restarts, faults>>

\* The statement fails: the row keeps the lease until it lapses.
FinishFails(w) ==
  /\ worker[w].pc \in {"finish", "release"}
  /\ faults < MaxFaults
  /\ faults' = faults + 1
  /\ Forget({w})
  /\ Become(w, Continue("idle"))
  /\ UNCHANGED <<content, parses, wake, stopping, issued, rows, restarts>>

\* GREATEST(parse_attempts - 1, 0).
TakenBack(attempts) == IF attempts > 0 THEN attempts - 1 ELSE 0

\* releaseAfterCancellation: ReleaseContent takes the attempt back.
Release(w) ==
  LET c == worker[w].key IN
  /\ worker[w].pc = "release"
  /\ \/ /\ Owns(w)
        /\ Settle(c, "pending", TakenBack(content[c].attempts), TRUE)
     \/ /\ ~Owns(w)
        /\ UNCHANGED content
  /\ Become(w, Unclaimed("stopped"))
  /\ UNCHANGED <<parses, wake, stopping, issued, rows, restarts, faults, lost>>

\* The select of an idle worker: the context, the wake channel or the poll timer.
Poll(w) ==
  /\ worker[w].pc = "sleep"
  /\ wake' \in {wake, FALSE}
  /\ Become(w, Continue("idle"))
  /\ UNCHANGED <<content, parses, stopping, issued, rows, restarts, faults, lost>>

WorkerStep(w) ==
  \/ Claim(w) \/ ClaimNothing(w) \/ Parse(w) \/ Finish(w) \/ Release(w) \/ Poll(w)

-----------------------------------------------------------------------------
(* The process.                                                            *)

\* SIGTERM cancels the context of Run.
Shutdown ==
  /\ ~stopping
  /\ restarts < MaxRestarts
  /\ restarts' = restarts + 1
  /\ stopping' = TRUE
  /\ UNCHANGED <<content, parses, worker, wake, issued, rows, faults, lost>>

Fresh ==
  /\ worker' = [w \in Workers |-> Unclaimed("idle")]
  /\ wake' = FALSE
  /\ stopping' = FALSE

\* Run returned; serve is started again.
Restart ==
  /\ stopping
  /\ \A w \in Workers : worker[w].pc = "stopped"
  /\ Fresh
  /\ UNCHANGED <<content, parses, issued, rows, restarts, faults, lost>>

\* The process is killed, or Run does not return before the shutdown deadline.
Crash ==
  /\ faults < MaxFaults
  /\ faults' = faults + 1
  /\ Forget(Workers)
  /\ Fresh
  /\ UNCHANGED <<content, parses, issued, rows, restarts>>

Clock(c) == BecomeDue(c) \/ Lapse(c)

Next ==
  \/ \E c \in Contents : Deliver(c) \/ Remove(c) \/ Clock(c) \/ Stall(c)
  \/ \E w \in Workers : WorkerStep(w) \/ ClaimFails(w) \/ FinishInterrupted(w) \/ FinishFails(w)
  \/ Shutdown
  \/ Restart
  \/ Crash

Spec == Init /\ [][Next]_vars

\* Goroutines run, the clock advances and the service manager starts a stopped
\* service again; mail, deletions and failures are not obliged to happen.
FairSpec ==
  /\ Spec
  /\ \A w \in Workers : WF_vars(WorkerStep(w))
  /\ \A c \in Contents : WF_vars(Clock(c))
  /\ WF_vars(Restart)

-----------------------------------------------------------------------------
(* Properties.                                                             *)

\* A worker whose lease has not lapsed, and whose row was not deleted, still owns
\* its claim: no statement of a worker with an older token ended it
\* (finishClaim, CompleteContent, ClaimContent).
LiveClaimStands ==
  \A w \in Workers :
    worker[w].pc \in ClaimPoints /\ ~worker[w].voided =>
      /\ content[worker[w].key].status = "processing"
      /\ content[worker[w].key].token = worker[w].token

\* A stored parse result and the status "parsed" come and go together, and no
\* late worker takes a parsed content back to the queue.
ResultMatchesStatus ==
  \A c \in Contents : c \in parses <=> content[c].status = "parsed"

\* Transient failures are retried at most up to MaxAttempts: beyond it an attempt
\* is explained by a claim that was lost with its holder.
RetriesBounded ==
  \A c \in Contents : content[c].attempts <= MaxAttempts + lost[c]

\* Every row is parsed, failed or removed in the end, although notifications get
\* lost, workers die and shutdowns interrupt them.
EveryContentSettles ==
  \A c \in Contents :
    content[c].status \in {"pending", "processing"}
      ~> content[c].status \in {"parsed", "failed", "absent"}

\* A graceful shutdown costs no attempt: as long as nothing fails, no content is
\* attempted more often than MaxAttempts, however often serve is restarted.
ShutdownIsFree ==
  faults = 0 => \A c \in Contents : content[c].attempts <= MaxAttempts
=============================================================================
