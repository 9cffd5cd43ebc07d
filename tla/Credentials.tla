----------------------------- MODULE Credentials -----------------------------
(***************************************************************************)
(* Capabilities and browser sessions of Inboxes: authentication, exchange  *)
(* of a capability for a session, renewal of a session, rotation of a      *)
(* capability, and the calls that read an Inbox, list its messages or      *)
(* delete it with either.                                                  *)
(*                                                                         *)
(* A request takes one step per SQL statement or transaction, so that      *)
(* other requests, the end of an Inbox and its removal come in between.    *)
(* Time is a counter that orders the instants the code compares; Go and    *)
(* PostgreSQL read the same clock.  Every credential that the program      *)
(* issues has all five scopes, so scopes are left out, and so are digests, *)
(* key identifiers and the sealing of the cookie.                          *)
(***************************************************************************)
EXTENDS Integers, Sequences, FiniteSets

CONSTANTS
  Requests,         \* requests the server works on at the same time
  Addresses,        \* mail addresses
  SessionLifetime,  \* BrowserSessionManager.lifetime
  MaxTime,          \* bound on the clock
  MaxEvents         \* bound on requests, failing calls, lost answers and crashes together

Any == "any"  \* an address the server chooses

ASSUME CredentialsAssumption ==
  /\ Any \notin Addresses
  /\ SessionLifetime \in Nat \ {0} /\ MaxTime \in Nat /\ MaxEvents \in Nat

VARIABLES
  now,      \* the clock
  inboxes,  \* rows of inboxes by number; removed ones are marked
  caps,     \* rows of inbox_capabilities by number
  cookies,  \* the sealed sessions that browsers were given
  req,      \* one record per request
  events,
  told,     \* history: capabilities whose plaintext reached its owner
  lost      \* history: Inboxes whose owner missed a key by a failure

tables == <<inboxes, caps>>
credVars == <<now, tables, cookies, req, events, told, lost>>

NoCookie == [inbox |-> 0, expires |-> 0, cap |-> 0]
NoRequest ==
  [pc |-> "done", op |-> "none", api |-> "none", address |-> Any, attempts |-> 0,
   cap |-> 0, cookie |-> NoCookie, inbox |-> 0, expires |-> 0, day |-> 0, late |-> FALSE]

Inboxes == DOMAIN inboxes
Caps == DOMAIN caps
Active(i) == ~inboxes[i].removed /\ inboxes[i].expires > now

\* resolve: the credential is known, not revoked, not expired, its Inbox active.
Live(c) == ~caps[c].revoked /\ caps[c].expires > now /\ Active(caps[c].inbox)

Event == events < MaxEvents /\ events' = events + 1
Become(r, s) == req' = [req EXCEPT ![r] = s]
Goto(r, pc) == Become(r, [req[r] EXCEPT !.pc = pc])

\* The answer.  Of an answered request only late stays: that it was served ("ok")
\* although its credential or its Inbox had come to an end when it began.
Reply(r, code) == Become(r, [NoRequest EXCEPT !.late = req[r].late /\ code = "ok"])

FirstStep(op) ==
  CASE op = "exchange" -> "seal"
    [] op \in {"delete", "list"} -> op
    [] OTHER -> "get"

-----------------------------------------------------------------------------
\* What each API offers to the holder of a capability: reading the Inbox, listing its
\* messages, deleting it, and one way to turn the capability into something else.
CanonicalCalls == {"read", "list", "delete", "exchange"}
DuckMailCalls == {"read", "list", "delete"}
CloudflareCalls == {"read", "list", "delete"}
YydsCalls == {"read", "list", "delete", "refresh"}

\* A call with a capability arrives.
PresentCap(r) ==
  \E c \in told, op \in CanonicalCalls \union DuckMailCalls \union CloudflareCalls \union YydsCalls :
    Become(r, [NoRequest EXCEPT !.pc = "auth", !.op = op, !.cap = c, !.inbox = caps[c].inbox,
                                !.expires = caps[c].expires, !.late = ~Live(c)])

\* A call with a session, which is opened without the database: an Inbox that came to
\* an end does not close it.  DELETE /session needs no more than that and clears the
\* browser's cookie.  A call that changes state may lack its CSRF proof.
PresentCookie(r) ==
  \E k \in cookies, op \in {"read", "list", "delete", "session", "logout"} :
    \/ /\ k.expires > now /\ op # "logout"
       /\ Become(r, [NoRequest EXCEPT !.pc = FirstStep(op), !.op = op, !.cookie = k,
                                      !.inbox = k.inbox, !.expires = k.expires,
                                      !.late = ~Active(k.inbox)])
    \/ k.expires > now /\ op = "logout" /\ Reply(r, "cookie_cleared")
    \/ k.expires <= now /\ Reply(r, "unauthenticated")
    \/ op \in {"delete", "logout"} /\ Reply(r, "csrf_required")

Present(r) ==
  /\ req[r].pc = "done" /\ Event
  /\ PresentCap(r) \/ PresentCookie(r)
  /\ UNCHANGED <<now, tables, cookies, told, lost>>

\* Authenticate looks the capability up before anything else is done.
Authenticate(r) ==
  /\ req[r].pc = "auth"
  /\ IF Live(req[r].cap) THEN Goto(r, FirstStep(req[r].op)) ELSE Reply(r, "unauthenticated")
  /\ UNCHANGED <<now, tables, cookies, events, told, lost>>

\* Mutant: the session always lasts its full lifetime.
SessionUncapped(r) ==
  [inbox |-> req[r].inbox, expires |-> now + SessionLifetime,
   cap |-> IF req[r].cap # 0 THEN req[r].cap ELSE req[r].cookie.cap]

\* The session Issue seals: it ends with the principal at the latest.  cap is
\* history: the capability the chain of sessions began with.
SessionOf(r) ==
  [inbox |-> req[r].inbox,
   expires |-> IF req[r].expires < now + SessionLifetime THEN req[r].expires
               ELSE now + SessionLifetime,
   cap |-> IF req[r].cap # 0 THEN req[r].cap ELSE req[r].cookie.cap]

\* The exchange seals before it reads the Inbox, the renewal afterwards.
Seal(r) ==
  /\ req[r].pc = "seal"
  /\ IF req[r].expires <= now
       THEN Reply(r, "unauthenticated") /\ UNCHANGED cookies
       ELSE IF req[r].op = "exchange"
              THEN /\ Become(r, [req[r] EXCEPT !.pc = "get", !.cookie = SessionOf(r)])
                   /\ UNCHANGED cookies
              ELSE Reply(r, "ok") /\ cookies' = cookies \union {SessionOf(r)}
  /\ UNCHANGED <<now, tables, events, told, lost>>

AfterGet(r) ==
  CASE req[r].op = "session" -> Goto(r, "seal") /\ UNCHANGED cookies
    [] req[r].op = "refresh" -> Goto(r, "resolve") /\ UNCHANGED cookies
    [] req[r].op = "exchange" -> Reply(r, "ok") /\ cookies' = cookies \union {req[r].cookie}
    [] OTHER -> Reply(r, "ok") /\ UNCHANGED cookies

\* Mutant: a row is enough.
GetAnyway(r) ==
  /\ req[r].pc = "get"
  /\ AfterGet(r)
  /\ UNCHANGED <<now, tables, events, told, lost>>

\* GetInbox reads an active, unexpired row.
Get(r) ==
  /\ req[r].pc = "get"
  /\ IF Active(req[r].inbox) THEN AfterGet(r) ELSE Reply(r, "not_found") /\ UNCHANGED cookies
  /\ UNCHANGED <<now, tables, events, told, lost>>

\* ListMessages selects the messages of an active, unexpired Inbox: for any other it
\* finds none, and the answer is an empty page, not an error.
List(r) ==
  /\ req[r].pc = "list"
  /\ Reply(r, IF Active(req[r].inbox) THEN "ok" ELSE "empty_page")
  /\ UNCHANGED <<now, tables, cookies, events, told, lost>>

\* RefreshToken was given another address.
Mismatch(r) ==
  /\ req[r].pc = "get" /\ req[r].op = "refresh" /\ Active(req[r].inbox)
  /\ Reply(r, "unauthenticated")
  /\ UNCHANGED <<now, tables, cookies, events, told, lost>>

DeleteInbox(r) ==
  /\ req[r].pc = "delete"
  /\ LET i == req[r].inbox
     IN IF Active(i) THEN inboxes' = [inboxes EXCEPT ![i].removed = TRUE] /\ Reply(r, "ok")
        ELSE Reply(r, "not_found") /\ UNCHANGED inboxes
  /\ UNCHANGED <<now, caps, cookies, events, told, lost>>

Resolve(r) ==
  /\ req[r].pc = "resolve"
  /\ IF Live(req[r].cap) THEN Goto(r, "rotate") ELSE Reply(r, "unauthenticated")
  /\ UNCHANGED <<now, tables, cookies, events, told, lost>>

Successor(c) == [inbox |-> caps[c].inbox, expires |-> caps[c].expires, revoked |-> FALSE, from |-> c]

\* Mutant: the replacement is inserted and the old credential left alone.
ReplaceOnly(c) == caps' = Append(caps, Successor(c))

\* The writes of RotateCapability.
Replace(c) == caps' = Append([caps EXCEPT ![c].revoked = TRUE], Successor(c))

\* RotateCapability: the row is locked, so the check and the writes are one step.
Rotate(r) ==
  /\ req[r].pc = "rotate"
  /\ LET c == req[r].cap
     IN IF Live(c)
          THEN /\ Replace(c)
               /\ told' = told \union {Len(caps) + 1}
               /\ Reply(r, "ok")
          ELSE /\ Reply(r, IF caps[c].revoked THEN "already_rotated" ELSE "unauthenticated")
               /\ UNCHANGED <<caps, told>>
  /\ UNCHANGED <<now, inboxes, cookies, events, lost>>

\* The rotation fails, or it is committed and its answer is lost.
RotateFails(r) ==
  /\ req[r].pc = "rotate" /\ Live(req[r].cap) /\ Event
  /\ \/ Replace(req[r].cap) /\ lost' = lost \union {req[r].inbox}
     \/ UNCHANGED <<caps, lost>>
  /\ Reply(r, "error")
  /\ UNCHANGED <<now, inboxes, cookies, told>>

CredStep(r) ==
  \/ Authenticate(r) \/ Seal(r) \/ Get(r) \/ List(r) \/ Mismatch(r)
  \/ DeleteInbox(r) \/ Resolve(r) \/ Rotate(r)

\* The retention sweeper removes an expired Inbox.
SweepInbox(i) ==
  /\ ~inboxes[i].removed /\ inboxes[i].expires <= now
  /\ inboxes' = [inboxes EXCEPT ![i].removed = TRUE]
  /\ UNCHANGED <<now, caps, cookies, req, events, told, lost>>

-----------------------------------------------------------------------------
\* A capability has at most one successor, and none while it is itself valid:
\* two rotations of one capability at once leave one live credential.
OneSuccessor ==
  \A c \in Caps : caps[c].from # 0 =>
    /\ caps[caps[c].from].revoked
    /\ \A d \in Caps : caps[d].from = caps[c].from => d = c

\* A session, renewed however often, ends with the capability it began with, and
\* a capability ends with its Inbox.
GrantsNest ==
  /\ \A c \in Caps : caps[c].expires <= inboxes[caps[c].inbox].expires
  /\ \A k \in cookies : k.expires <= caps[k.cap].expires /\ k.inbox = caps[k.cap].inbox

\* A call that begins after its capability or its Inbox came to an end obtains and
\* changes nothing: a capability is refused, and a session that has not expired, which
\* is opened without asking the database, gets an error, an empty page of messages or
\* its own cookie cleared.
EndIsFinal == \A r \in Requests : req[r].pc = "done" => ~req[r].late
=============================================================================
