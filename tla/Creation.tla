------------------------------ MODULE Creation ------------------------------
(***************************************************************************)
(* Creation of an Inbox by the four APIs, with the token bucket, the daily *)
(* quota, address conflicts, compensation of a failed creation, and the    *)
(* DuckMail password login with its two hashing slots.  Extends the        *)
(* requests of Credentials; together they are everything that issues,      *)
(* replaces or ends access to an Inbox.                                    *)
(*                                                                         *)
(* There is one client identity.  One unit of time is one day.  The two    *)
(* compensations of a Cloudflare address (its own and mailbox.Create's)    *)
(* delete the same Inbox and are one action.                               *)
(***************************************************************************)
EXTENDS Credentials

CONSTANTS
  Lifetime,    \* defaultTTL
  DailyLimit,  \* abuse.Service.dailyLimit
  KeptDays,    \* age in days up to which counters are kept (2 in the code)
  Burst,       \* capacity of the token bucket
  Attempts,    \* maxAddressGenerationAttempts
  KdfSlots     \* capacity of kdfSlots

ASSUME CreationAssumption ==
  /\ Lifetime \in Nat \ {0} /\ DailyLimit \in Nat \ {0} /\ Burst \in Nat \ {0}
  /\ Attempts \in Nat \ {0} /\ KdfSlots \in Nat \ {0} /\ KeptDays \in Nat

VARIABLES
  used,      \* inbox_create_quotas of the identity by day; 0 is no row
  tokens,    \* the token bucket
  kdf,       \* hashing slots in use
  numbered   \* Inboxes in cloudflare_temp_inbox_ids

admission == <<used, tokens, kdf>>
vars == <<credVars, admission, numbered>>

Days == 0 .. MaxTime
Creating(r) == req[r].op = "create" /\ req[r].pc \in {"issue", "number", "compensate"}

\* Types and bounds of the tables, the counters and the hashing slots.
TypeOK ==
  /\ now \in Days
  /\ \A i \in Inboxes : inboxes[i].address \in Addresses /\ inboxes[i].expires \in Nat
  /\ \A c \in Caps : caps[c].inbox \in Inboxes /\ caps[c].from \in 0 .. c - 1
  /\ told \subseteq Caps /\ lost \subseteq Inboxes /\ numbered \subseteq Inboxes
  /\ used \in [Days -> 0 .. DailyLimit] /\ tokens \in 0 .. Burst /\ kdf \in 0 .. KdfSlots

\* An empty database, or one with an Inbox whose owner has its capability.
Init ==
  /\ now = 0 /\ cookies = {} /\ req = [r \in Requests |-> NoRequest] /\ events = 0 /\ lost = {}
  /\ tokens = Burst /\ kdf = 0 /\ numbered = {}
  /\ \/ inboxes = <<>> /\ caps = <<>> /\ told = {} /\ used = [d \in Days |-> 0]
     \/ \E a \in Addresses :
          /\ inboxes = <<[address |-> a, expires |-> Lifetime, account |-> FALSE,
                          removed |-> FALSE, day |-> 0]>>
          /\ caps = <<[inbox |-> 1, expires |-> Lifetime, revoked |-> FALSE, from |-> 0]>>
          /\ told = {1} /\ used = [d \in Days |-> IF d = 0 THEN 1 ELSE 0]

Create(api, a) == [NoRequest EXCEPT !.pc = "consume", !.op = "create", !.api = api, !.address = a]

\* The requests behind the token bucket.  The canonical API chooses an address, DuckMail
\* is given one, Cloudflare and YYDS do either; YYDS creates like the canonical API.
CanonicalCreate == {Create("canonical", Any)}
YydsCreate == {Create("canonical", a) : a \in Addresses \union {Any}}
CloudflareCreate == {Create("cloudflare", a) : a \in Addresses \union {Any}}
DuckMailCreate == {Create("duckmail", a) : a \in Addresses}
DuckMailToken == {[NoRequest EXCEPT !.pc = "find", !.op = "login", !.address = a] : a \in Addresses}

Admitted(r) ==
  \/ \E s \in CanonicalCreate \union YydsCreate \union CloudflareCreate
                \union DuckMailCreate \union DuckMailToken : Become(r, s)
  \/ Reply(r, "bad_request")

\* A creation or a login arrives at createLimiter.allow.
Ask(r) ==
  /\ req[r].pc = "done" /\ Event
  /\ IF tokens >= 1 THEN tokens' = tokens - 1 /\ Admitted(r)
     ELSE Reply(r, "rate_limited") /\ UNCHANGED tokens
  /\ UNCHANGED <<now, tables, cookies, told, lost, used, kdf>>

Start(r) ==
  /\ Ask(r) \/ (Present(r) /\ UNCHANGED admission)
  /\ UNCHANGED numbered

\* Mutant: the cleanup of stale buckets takes today's along.
FreshDrained == [d \in Days |-> IF d <= now THEN 0 ELSE used[d]]

\* Counters older than KeptDays are deleted by a successful consumption.
Fresh == [d \in Days |-> IF d < now - KeptDays THEN 0 ELSE used[d]]

\* ConsumeInboxCreate, one transaction that a refusal rolls back; afterwards the
\* name, domain, password and lifetime are validated.
Consume(r) ==
  /\ req[r].pc = "consume"
  /\ IF Fresh[now] < DailyLimit
       THEN /\ used' = [Fresh EXCEPT ![now] = @ + 1]
            /\ \/ Become(r, [req[r] EXCEPT !.day = now, !.expires = now + Lifetime,
                                           !.pc = IF req[r].api = "duckmail" THEN "hash" ELSE "insert"])
               \/ Reply(r, "bad_request")
       ELSE Reply(r, "quota") /\ UNCHANGED used
  /\ UNCHANGED <<now, tables, cookies, events, told, lost, tokens, kdf, numbered>>

\* The transaction fails, or it is committed and its answer lost: the quota is used up.
ConsumeFails(r) ==
  /\ req[r].pc = "consume" /\ Event
  /\ \/ Fresh[now] < DailyLimit /\ used' = [Fresh EXCEPT ![now] = @ + 1]
     \/ UNCHANGED used
  /\ Reply(r, "error")
  /\ UNCHANGED <<now, tables, cookies, told, lost, tokens, kdf, numbered>>

\* FindAccountByAddress.  A login that finds nothing hashes all the same.
FindAccount(r) ==
  /\ req[r].pc = "find"
  /\ LET found == {i \in Inboxes : inboxes[i].account /\ inboxes[i].address = req[r].address /\ Active(i)}
     IN \/ \E i \in found :
             Become(r, [req[r] EXCEPT !.pc = "hash", !.inbox = i, !.expires = inboxes[i].expires])
        \/ found = {} /\ Goto(r, "hash")
  /\ UNCHANGED <<now, tables, cookies, events, told, lost, admission, numbered>>

\* withKDF takes a slot or waits.
Hash(r) ==
  /\ req[r].pc = "hash" /\ kdf < KdfSlots
  /\ kdf' = kdf + 1
  /\ Goto(r, "hashing")
  /\ UNCHANGED <<now, tables, cookies, events, told, lost, used, tokens, numbered>>

\* The client goes away while it waits for a slot.
HashCancelled(r) ==
  /\ req[r].pc = "hash" /\ Event
  /\ Reply(r, "error")
  /\ UNCHANGED <<now, tables, cookies, told, lost, admission, numbered>>

\* What follows the hash: the insert, or for a login the capability.
AfterHash(r) ==
  IF req[r].op = "create"
    THEN Become(r, [req[r] EXCEPT !.pc = "insert", !.expires = now + Lifetime])
    ELSE \/ Reply(r, "unauthenticated")
         \/ req[r].inbox # 0 /\ Goto(r, "issue")

\* Mutant: a login that fails keeps its slot.
HashedLeaks(r) ==
  /\ req[r].pc = "hashing"
  /\ AfterHash(r)
  /\ kdf' = IF req'[r].pc = "done" THEN kdf ELSE kdf - 1
  /\ UNCHANGED <<now, tables, cookies, events, told, lost, used, tokens, numbered>>

\* The hash is done and the deferred receive frees the slot.
Hashed(r) ==
  /\ req[r].pc = "hashing"
  /\ AfterHash(r)
  /\ kdf' = kdf - 1
  /\ UNCHANGED <<now, tables, cookies, events, told, lost, used, tokens, numbered>>

-----------------------------------------------------------------------------
Taken(a) == \E i \in Inboxes : inboxes[i].address = a /\ ~inboxes[i].removed
NewInbox(r, a) ==
  [address |-> a, expires |-> req[r].expires, account |-> req[r].api = "duckmail",
   removed |-> FALSE, day |-> req[r].day]
Candidates(r) == IF req[r].address = Any THEN Addresses ELSE {req[r].address}

\* CreateInbox, or DuckMail's transaction of Inbox and password.  A chosen address
\* that is taken is tried again; an expired Inbox holds its address until swept.
Insert(r) ==
  /\ req[r].pc = "insert"
  /\ \E a \in Candidates(r) :
       IF Taken(a)
         THEN /\ IF req[r].address = Any /\ req[r].attempts + 1 < Attempts
                   THEN Become(r, [req[r] EXCEPT !.attempts = @ + 1])
                   ELSE Reply(r, "conflict")
              /\ UNCHANGED inboxes
         ELSE /\ inboxes' = Append(inboxes, NewInbox(r, a))
              /\ IF req[r].api = "duckmail" THEN Reply(r, "ok")
                 ELSE Become(r, [req[r] EXCEPT !.pc = "issue", !.inbox = Len(inboxes) + 1])
  /\ UNCHANGED <<now, caps, cookies, events, told, lost, admission, numbered>>

\* The insert fails, or it is committed and its answer lost: nothing compensates.
InsertFails(r) ==
  /\ req[r].pc = "insert" /\ Event
  /\ \/ \E a \in Candidates(r) :
          /\ ~Taken(a)
          /\ inboxes' = Append(inboxes, NewInbox(r, a))
          /\ lost' = lost \union {Len(inboxes) + 1}
     \/ UNCHANGED <<inboxes, lost>>
  /\ Reply(r, "error")
  /\ UNCHANGED <<now, caps, cookies, told, admission, numbered>>

\* CreateCapability inserts only for an active Inbox that outlasts the capability.
Issuable(r) ==
  req[r].expires > now /\ Active(req[r].inbox) /\ req[r].expires <= inboxes[req[r].inbox].expires
NewCap(r) == [inbox |-> req[r].inbox, expires |-> req[r].expires, revoked |-> FALSE, from |-> 0]

\* Mutant: the Inbox stays when no capability could be issued for it.
IssueFailedKeeps(r) == Reply(r, "error")

\* Create deletes the Inbox again; a login only reports the error.
IssueFailed(r) == IF req[r].op = "create" THEN Goto(r, "compensate") ELSE Reply(r, "error")

Issue(r) ==
  /\ req[r].pc = "issue"
  /\ IF ~Issuable(r) THEN IssueFailed(r) /\ UNCHANGED <<caps, told>>
     ELSE /\ caps' = Append(caps, NewCap(r))
          /\ IF req[r].api = "cloudflare"
               THEN Become(r, [req[r] EXCEPT !.pc = "number", !.cap = Len(caps) + 1])
                    /\ UNCHANGED told
               ELSE Reply(r, "ok") /\ told' = told \union {Len(caps) + 1}
  /\ UNCHANGED <<now, inboxes, cookies, events, lost, admission, numbered>>

IssueFails(r) ==
  /\ req[r].pc = "issue" /\ Issuable(r) /\ Event
  /\ caps' = Append(caps, NewCap(r)) \/ UNCHANGED caps
  /\ IssueFailed(r)
  /\ UNCHANGED <<now, inboxes, cookies, told, lost, admission, numbered>>

\* EnsureInboxID: the foreign key needs the Inbox.
Number(r) ==
  /\ req[r].pc = "number"
  /\ IF inboxes[req[r].inbox].removed
       THEN Goto(r, "compensate") /\ UNCHANGED <<numbered, told>>
       ELSE /\ numbered' = numbered \union {req[r].inbox}
            /\ told' = told \union {req[r].cap}
            /\ Reply(r, "ok")
  /\ UNCHANGED <<now, tables, cookies, events, lost, admission>>

\* It fails, or it is committed and its answer lost.
NumberFails(r) ==
  /\ req[r].pc = "number" /\ Event
  /\ \/ ~inboxes[req[r].inbox].removed /\ numbered' = numbered \union {req[r].inbox}
     \/ UNCHANGED numbered
  /\ Goto(r, "compensate")
  /\ UNCHANGED <<now, tables, cookies, told, lost, admission>>

\* DeleteInbox of the compensation finds nothing when the Inbox is expired.
Compensate(r) ==
  /\ req[r].pc = "compensate"
  /\ LET i == req[r].inbox
     IN inboxes' = IF Active(i) THEN [inboxes EXCEPT ![i].removed = TRUE] ELSE inboxes
  /\ Reply(r, "error")
  /\ UNCHANGED <<now, caps, cookies, events, told, lost, admission, numbered>>

CompensateFails(r) ==
  /\ req[r].pc = "compensate" /\ Event
  /\ lost' = lost \union {req[r].inbox}
  /\ Reply(r, "error")
  /\ UNCHANGED <<now, tables, cookies, told, admission, numbered>>

-----------------------------------------------------------------------------
\* The process dies and is started again: requests, slots and buckets are gone.
Crash ==
  /\ Event
  /\ \E r \in Requests : req[r].pc # "done"
  /\ lost' = lost \union {req[r].inbox : r \in {r \in Requests : Creating(r)}}
  /\ req' = [r \in Requests |-> IF req[r].pc = "done" THEN req[r] ELSE NoRequest]
  /\ kdf' = 0 /\ tokens' = Burst
  /\ UNCHANGED <<now, tables, cookies, told, used, numbered>>

Tick ==
  /\ now < MaxTime /\ now' = now + 1
  /\ tokens' = Burst
  /\ UNCHANGED <<tables, cookies, req, events, told, lost, used, kdf, numbered>>

Sweep == (\E i \in Inboxes : SweepInbox(i)) /\ UNCHANGED <<admission, numbered>>

Step(r) ==
  \/ CredStep(r) /\ UNCHANGED <<admission, numbered>>
  \/ Consume(r) \/ FindAccount(r) \/ Hash(r) \/ Hashed(r)
  \/ Insert(r) \/ Issue(r) \/ Number(r) \/ Compensate(r)

Failure(r) ==
  \/ RotateFails(r) /\ UNCHANGED <<admission, numbered>>
  \/ ConsumeFails(r) \/ HashCancelled(r) \/ InsertFails(r) \/ IssueFails(r) \/ NumberFails(r)
  \/ CompensateFails(r)

Next ==
  \/ \E r \in Requests : Start(r) \/ Step(r) \/ Failure(r)
  \/ Tick \/ Sweep \/ Crash

Spec == Init /\ [][Next]_vars
FairSpec == Spec /\ \A r \in Requests : WF_vars(Step(r))

-----------------------------------------------------------------------------
\* One identity creates at most DailyLimit Inboxes with one day's quota, although
\* admission and creation are different transactions and old counters are purged.
CreationsBounded ==
  \A d \in Days : Cardinality({i \in Inboxes : inboxes[i].day = d}) <= DailyLimit

\* An active Inbox has somebody who can open it: a password, a capability that
\* reached its owner and is valid, or a creation that is still at work; only a
\* failed call or a lost answer leaves one without.
OwnerKeepsAccess ==
  \A i \in Inboxes : Active(i) =>
    \/ inboxes[i].account
    \/ \E c \in told : caps[c].inbox = i /\ Live(c)
    \/ \E r \in Requests : req[r].inbox = i /\ Creating(r)
    \/ i \in lost

\* Every request is answered: waiting for a hashing slot, trying addresses and
\* losing a race do not hold it up for ever.
EveryRequestEnds == \A r \in Requests : (req[r].pc # "done") ~> (req[r].pc = "done")
=============================================================================
