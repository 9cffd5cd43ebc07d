--------------------------- MODULE CreationProofs ---------------------------
(* Proofs about the credentials and the quota of Creation, for any number   *)
(* of requests and addresses, any lifetimes and limits and any bound on     *)
(* failures.                                                                *)
EXTENDS Creation, FiniteSetTheorems, SequenceTheorems, TLAPS

InboxRow == [address : Addresses, expires : Nat, account : BOOLEAN, removed : BOOLEAN, day : Nat]
CapRow == [inbox : Nat, expires : Nat, revoked : BOOLEAN, from : Nat]
Cookie == [inbox : Nat, expires : Nat, cap : Nat]
Pcs ==
  {"done", "auth", "seal", "get", "list", "delete", "resolve", "rotate", "consume", "find", "hash", "hashing",
   "insert", "issue", "number", "compensate"}
Ops == {"none", "read", "list", "delete", "exchange", "refresh", "session", "create", "login"}
Apis == {"none", "canonical", "cloudflare", "duckmail"}
Request ==
  [pc : Pcs, op : Ops, api : Apis, address : Addresses \union {Any}, attempts : Nat,
   cap : Nat, cookie : Cookie, inbox : Nat, expires : Nat, day : Nat, late : BOOLEAN]

\* A capability ends exactly when its Inbox does; its predecessor is revoked and
\* has no other successor.
CapOK(c, ib, cp) ==
  /\ cp[c].inbox \in DOMAIN ib
  /\ cp[c].expires = ib[cp[c].inbox].expires
  /\ cp[c].from \in Nat /\ cp[c].from < c
  /\ cp[c].from # 0 => cp[cp[c].from].revoked
  /\ cp[c].from # 0 => \A d \in DOMAIN cp : cp[d].from = cp[c].from => d = c

Tables(ib, cp) ==
  /\ ib \in Seq(InboxRow) /\ cp \in Seq(CapRow)
  /\ \A c \in DOMAIN cp : CapOK(c, ib, cp)

\* A session, or a request that acts for one, is within capability c.
Within(g, c, cp) == c \in DOMAIN cp /\ g.inbox = cp[c].inbox /\ g.expires <= cp[c].expires
CookieOK(k, cp) == k \in Cookie /\ Within(k, k.cap, cp)

\* The capability a request goes back to.
Root(s) == IF s.cap # 0 THEN s.cap ELSE s.cookie.cap

\* A capability that is not live, and stays so.
Dead(c, ib, cp, t) ==
  \/ cp[c].revoked \/ cp[c].expires <= t
  \/ ib[cp[c].inbox].removed \/ ib[cp[c].inbox].expires <= t

\* What a request s relies on: the rows it names are there, and one that began after
\* the end of its capability or its Inbox has not passed the check that refuses it.
RequestOK(s, ib, cp, t) ==
  /\ s \in Request
  /\ s.pc \in {"auth", "seal", "get", "list", "delete", "resolve", "rotate"} =>
       Within(s, Root(s), cp)
  /\ s.pc = "number" => Within(s, s.cap, cp)
  /\ s.pc = "get" /\ s.op = "exchange" => CookieOK(s.cookie, cp)
  /\ s.op = "refresh" \/ s.pc \in {"auth", "resolve", "rotate"} => s.cap # 0
  /\ s.pc \in {"consume", "find"} => s.inbox = 0
  /\ s.pc \in {"hash", "hashing"} /\ s.inbox # 0 =>
       s.inbox \in DOMAIN ib /\ s.expires = ib[s.inbox].expires
  /\ s.pc \in {"issue", "number", "compensate"} =>
       s.inbox \in DOMAIN ib /\ s.expires = ib[s.inbox].expires
  /\ s.late => s.pc \in {"auth", "get", "list", "delete"}
  /\ s.late /\ s.pc = "auth" => s.cap \in DOMAIN cp /\ Dead(s.cap, ib, cp, t)
  /\ s.late /\ s.pc # "auth" =>
       s.inbox \in DOMAIN ib /\ (ib[s.inbox].removed \/ ib[s.inbox].expires <= t)

\* The inductive invariant.
AccessInv ==
  /\ now \in Nat
  /\ Tables(inboxes, caps)
  /\ told \subseteq Caps
  /\ \A k \in cookies : CookieOK(k, caps)
  /\ req = [r \in Requests |-> req[r]]
  /\ \A r \in Requests : RequestOK(req[r], inboxes, caps, now)
-----------------------------------------------------------------------------
\* Rows stay, keep their times and owners, and no removal or revocation is undone.
Later(ib, cp, t, ib2, cp2, t2) ==
  /\ t2 \in Nat /\ t <= t2
  /\ \A i \in DOMAIN ib : /\ i \in DOMAIN ib2 /\ ib2[i].expires = ib[i].expires
                          /\ ib[i].removed => ib2[i].removed
  /\ \A c \in DOMAIN cp : /\ c \in DOMAIN cp2 /\ cp2[c].inbox = cp[c].inbox
                          /\ cp2[c].expires = cp[c].expires
                          /\ cp[c].revoked => cp2[c].revoked

\* Appending a row, stated with the domain of the sequence.
LEMMA Appended ==
  ASSUME NEW S, NEW q \in Seq(S), NEW e \in S
  PROVE  /\ Append(q, e) \in Seq(S)
         /\ Len(q) \in Nat /\ DOMAIN q = 1 .. Len(q)
         /\ DOMAIN Append(q, e) = 1 .. Len(q) + 1
         /\ \A i \in DOMAIN q : Append(q, e)[i] = q[i]
         /\ Append(q, e)[Len(q) + 1] = e
BY AppendProperties, LenProperties

\* What holds of sessions and requests goes on holding as the tables grow.
LEMMA Carried ==
  ASSUME NEW ib, NEW cp, NEW t \in Nat, NEW ib2, NEW cp2, NEW t2,
         Tables(ib, cp), Later(ib, cp, t, ib2, cp2, t2)
  PROVE  /\ \A k : CookieOK(k, cp) => CookieOK(k, cp2)
         /\ \A s : RequestOK(s, ib, cp, t) => RequestOK(s, ib2, cp2, t2)
<1>1. \A g, c : Within(g, c, cp) => Within(g, c, cp2)
  BY DEF Within, Later
<1>2. \A k : CookieOK(k, cp) => CookieOK(k, cp2)
  BY <1>1 DEF CookieOK
<1>3. ASSUME NEW i \in DOMAIN ib, ib[i].removed \/ ib[i].expires <= t
      PROVE  ib2[i].removed \/ ib2[i].expires <= t2
  <2>1. ib[i] \in InboxRow
    BY DEF Tables
  <2>2. ib[i].expires \in Nat
    BY <2>1 DEF InboxRow
  <2> QED
    BY <1>3, <2>2 DEF Later
<1>4. ASSUME NEW c \in DOMAIN cp, Dead(c, ib, cp, t)
      PROVE  Dead(c, ib2, cp2, t2)
  <2>1. cp[c] \in CapRow /\ cp[c].inbox \in DOMAIN ib
    BY DEF Tables, CapOK
  <2>2. cp[c].expires \in Nat
    BY <2>1 DEF CapRow
  <2>3. /\ t2 \in Nat /\ t <= t2 /\ cp2[c].inbox = cp[c].inbox /\ cp2[c].expires = cp[c].expires
        /\ cp[c].revoked => cp2[c].revoked
    BY DEF Later
  <2>4. cp[c].expires <= t => cp2[c].expires <= t2
    BY <2>2, <2>3
  <2> QED
    BY <1>3, <1>4, <2>1, <2>3, <2>4, Zenon DEF Dead
<1>5. ASSUME NEW s, RequestOK(s, ib, cp, t)
      PROVE  RequestOK(s, ib2, cp2, t2)
  <2>1. \A c \in DOMAIN cp : c \in DOMAIN cp2
    BY DEF Later
  <2>2. \A i \in DOMAIN ib : i \in DOMAIN ib2 /\ ib2[i].expires = ib[i].expires
    BY DEF Later
  <2> QED
    BY <1>1, <1>2, <1>3, <1>4, <1>5, <2>1, <2>2, Zenon DEF RequestOK
<1> QED
  BY <1>2, <1>5

\* The four changes of the tables: a new Inbox, a removed one, a new capability, a
\* rotated one; and the passing of time.
LEMMA NewInboxOK ==
  ASSUME NEW ib, NEW cp, NEW t \in Nat, NEW row \in InboxRow, Tables(ib, cp)
  PROVE  /\ Tables(Append(ib, row), cp)
         /\ Later(ib, cp, t, Append(ib, row), cp, t)
BY Appended DEF Tables, CapOK, Later

LEMMA RemovedOK ==
  ASSUME NEW ib, NEW cp, NEW t \in Nat, NEW i, Tables(ib, cp)
  PROVE  /\ Tables([ib EXCEPT ![i].removed = TRUE], cp)
         /\ Later(ib, cp, t, [ib EXCEPT ![i].removed = TRUE], cp, t)
<1> DEFINE ib2 == [ib EXCEPT ![i].removed = TRUE]
<1>1. ib \in Seq(InboxRow) /\ cp \in Seq(CapRow)
  BY DEF Tables
<1>2. \A j \in DOMAIN ib : ib[j] \in InboxRow
  BY <1>1
<1>3. ib2 \in Seq(InboxRow) /\ DOMAIN ib2 = DOMAIN ib
  <2>1. \A j \in DOMAIN ib : ib2[j] \in InboxRow
    BY <1>2, Zenon DEF InboxRow
  <2>2. ib2 = [j \in DOMAIN ib |-> ib2[j]] /\ DOMAIN ib2 = DOMAIN ib
    BY Zenon
  <2>3. Len(ib) \in Nat /\ DOMAIN ib = 1 .. Len(ib)
    BY <1>1, LenProperties
  <2>4. ib2 \in [1 .. Len(ib) -> InboxRow]
    BY <2>1, <2>2, <2>3, Zenon
  <2> HIDE DEF ib2
  <2> QED
    BY <2>2, <2>3, <2>4, SeqDef
<1>4. \A j \in DOMAIN ib : ib2[j].expires = ib[j].expires /\ (ib[j].removed => ib2[j].removed)
  BY <1>2 DEF InboxRow
<1>5. Tables(ib2, cp)
  BY <1>1, <1>3, <1>4 DEF Tables, CapOK
<1>6. Later(ib, cp, t, ib2, cp, t)
  BY <1>3, <1>4 DEF Later
<1> QED
  BY <1>5, <1>6

LEMMA NewCapOK ==
  ASSUME NEW ib, NEW cp, NEW t \in Nat, NEW row \in CapRow, Tables(ib, cp),
         row.from = 0, row.inbox \in DOMAIN ib, row.expires = ib[row.inbox].expires
  PROVE  /\ Tables(ib, Append(cp, row))
         /\ Later(ib, cp, t, ib, Append(cp, row), t)
<1> DEFINE cp2 == Append(cp, row)
<1>1. /\ cp2 \in Seq(CapRow) /\ Len(cp) \in Nat /\ DOMAIN cp = 1 .. Len(cp)
      /\ DOMAIN cp2 = 1 .. Len(cp) + 1
      /\ \A i \in DOMAIN cp : cp2[i] = cp[i]
      /\ cp2[Len(cp) + 1] = row
  BY Appended DEF Tables
<1> HIDE DEF cp2
<1>2. ASSUME NEW c \in DOMAIN cp2
      PROVE  CapOK(c, ib, cp2)
  <2>1. CASE c = Len(cp) + 1
    BY <1>1, <2>1 DEF CapOK
  <2>2. CASE c \in DOMAIN cp
    <3>1. cp2[c] = cp[c] /\ CapOK(c, ib, cp)
      BY <1>1, <2>2 DEF Tables
    <3>2. cp[c].from # 0 => cp[c].from \in DOMAIN cp /\ cp2[cp[c].from] = cp[cp[c].from]
      BY <1>1, <2>2, <3>1 DEF CapOK
    <3> QED
      BY <1>1, <3>1, <3>2 DEF CapOK
  <2> QED
    BY <1>1, <2>1, <2>2
<1>3. Tables(ib, cp2)
  BY <1>1, <1>2 DEF Tables
<1>4. Later(ib, cp, t, ib, cp2, t)
  BY <1>1 DEF Later
<1> QED
  BY <1>3, <1>4 DEF cp2

LEMMA RotatedOK ==
  ASSUME NEW ib, NEW cp, NEW t \in Nat, NEW c \in DOMAIN cp, NEW row \in CapRow,
         Tables(ib, cp), ~cp[c].revoked,
         row.from = c, row.inbox = cp[c].inbox, row.expires = cp[c].expires
  PROVE  /\ Tables(ib, Append([cp EXCEPT ![c].revoked = TRUE], row))
         /\ Later(ib, cp, t, ib, Append([cp EXCEPT ![c].revoked = TRUE], row), t)
<1> DEFINE cp1 == [cp EXCEPT ![c].revoked = TRUE]
           cp2 == Append(cp1, row)
<1>1. cp \in Seq(CapRow) /\ Len(cp) \in Nat /\ DOMAIN cp = 1 .. Len(cp)
  BY LenProperties DEF Tables
<1>2. \A d \in DOMAIN cp : cp[d] \in CapRow
  BY <1>1
<1>3. cp1 \in Seq(CapRow) /\ DOMAIN cp1 = DOMAIN cp
  <2>1. \A d \in DOMAIN cp : cp1[d] \in CapRow
    BY <1>2, Zenon DEF CapRow
  <2>2. cp1 = [d \in DOMAIN cp |-> cp1[d]] /\ DOMAIN cp1 = DOMAIN cp
    BY Zenon
  <2>3. cp1 \in [1 .. Len(cp) -> CapRow]
    BY <1>1, <2>1, <2>2, Zenon
  <2> QED
    BY <1>1, <2>2, <2>3, SeqDef
<1>4. Len(cp1) = Len(cp)
  BY <1>1, <1>3, LenProperties
<1>5. /\ cp1[c].revoked
      /\ \A d \in DOMAIN cp : /\ cp1[d].inbox = cp[d].inbox /\ cp1[d].expires = cp[d].expires
                              /\ cp1[d].from = cp[d].from
                              /\ cp[d].revoked => cp1[d].revoked
  BY <1>2 DEF CapRow
<1> HIDE DEF cp1
<1>6. /\ cp2 \in Seq(CapRow) /\ DOMAIN cp2 = 1 .. Len(cp) + 1
      /\ \A d \in DOMAIN cp : cp2[d] = cp1[d]
      /\ cp2[Len(cp) + 1] = row
  BY <1>3, <1>4, Appended
<1> HIDE DEF cp2
<1>7. \A d \in DOMAIN cp : cp[d].from # c
  BY <1>1 DEF Tables, CapOK
<1>8. ASSUME NEW d \in DOMAIN cp2
      PROVE  CapOK(d, ib, cp2)
  <2>1. CASE d = Len(cp) + 1
    <3>1. /\ cp2[d] = row /\ c < d /\ c \in Nat
          /\ cp2[c].revoked
          /\ \A e \in DOMAIN cp2 : cp2[e].from = c => e = d
      BY <1>1, <1>5, <1>6, <1>7, <2>1
    <3>2. cp[c].inbox \in DOMAIN ib /\ cp[c].expires = ib[cp[c].inbox].expires
      BY DEF Tables, CapOK
    <3> QED
      BY <3>1, <3>2 DEF CapOK
  <2>2. CASE d \in DOMAIN cp
    <3>1. CapOK(d, ib, cp)
      BY <2>2 DEF Tables
    <3>2. /\ cp2[d].inbox = cp[d].inbox /\ cp2[d].expires = cp[d].expires
          /\ cp2[d].from = cp[d].from
      BY <1>5, <1>6, <2>2
    <3>3. cp[d].from # 0 => cp[d].from \in DOMAIN cp
      BY <1>1, <2>2, <3>1 DEF CapOK
    <3>4. cp[d].from # 0 => cp2[cp[d].from].revoked
      BY <1>5, <1>6, <3>1, <3>3 DEF CapOK
    <3>5. ASSUME cp[d].from # 0, NEW e \in DOMAIN cp2, cp2[e].from = cp[d].from
          PROVE  e = d
      <4>1. e \in DOMAIN cp
        BY <1>1, <1>6, <1>7, <2>2, <3>5
      <4>2. cp[e].from = cp[d].from
        BY <1>5, <1>6, <3>5, <4>1
      <4> QED
        BY <3>1, <3>5, <4>1, <4>2 DEF CapOK
    <3> QED
      BY <3>1, <3>2, <3>4, <3>5 DEF CapOK
  <2> QED
    BY <1>1, <1>6, <2>1, <2>2
<1>9. Tables(ib, cp2)
  BY <1>6, <1>8 DEF Tables
<1>10. Later(ib, cp, t, ib, cp2, t)
  BY <1>1, <1>5, <1>6 DEF Later
<1> QED
  BY <1>9, <1>10 DEF cp1, cp2

-----------------------------------------------------------------------------
LEMMA Idle ==
  ASSUME NEW ib, NEW cp, NEW t
  PROVE  RequestOK(NoRequest, ib, cp, t)
<1>1. NoRequest \in Request
  <2>1. NoCookie \in Cookie
    BY DEF NoCookie, Cookie
  <2>2. "done" \in Pcs /\ "none" \in Ops /\ "none" \in Apis
    BY DEF Pcs, Ops, Apis
  <2>3. 0 \in Nat
    OBVIOUS
  <2> QED
    BY <2>1, <2>2, <2>3, Zenon DEF NoRequest, Request
<1> QED
  BY <1>1 DEF RequestOK, NoRequest

\* An answer clears the request; late stays only if a late request was granted.
LEMMA Answer ==
  ASSUME NEW r \in Requests, NEW code, Reply(r, code), code = "ok" => ~req[r].late
  PROVE  Become(r, NoRequest)
<1>1. (req[r].late /\ code = "ok") = FALSE
  OBVIOUS
<1>2. [NoRequest EXCEPT !.late = FALSE] = NoRequest
  <2>1. NoRequest \in Request
    BY Idle DEF RequestOK
  <2>2. NoRequest.late = FALSE
    BY Zenon DEF NoRequest
  <2>3. \A s \in Request : s.late = FALSE => [s EXCEPT !.late = FALSE] = s
    BY DEF Request
  <2> QED
    BY <2>1, <2>2, <2>3
<1> QED
  BY <1>1, <1>2, Zenon DEF Reply

LEMMA LaterRefl ==
  ASSUME AccessInv
  PROVE  Later(inboxes, caps, now, inboxes, caps, now)
BY DEF AccessInv, Later

\* A step of one request keeps the invariant if the tables only grow and what the
\* request becomes, the cookie and the key it is given are in order.
LEMMA Moves ==
  ASSUME AccessInv, NEW r \in Requests, NEW s, Become(r, s),
         Tables(inboxes', caps'), Later(inboxes, caps, now, inboxes', caps', now'),
         RequestOK(s, inboxes', caps', now'),
         \A k \in cookies' : k \in cookies \/ CookieOK(k, caps'),
         \A c \in told' : c \in told \/ c \in DOMAIN caps'
  PROVE  AccessInv'
<1>1. /\ \A k : CookieOK(k, caps) => CookieOK(k, caps')
      /\ \A q : RequestOK(q, inboxes, caps, now) => RequestOK(q, inboxes', caps', now')
  BY Carried DEF AccessInv
<1>2. now' \in Nat /\ \A c \in DOMAIN caps : c \in DOMAIN caps'
  BY DEF Later
<1>3. \A k \in cookies' : CookieOK(k, caps')
  BY <1>1 DEF AccessInv
<1>4. \A c \in told' : c \in DOMAIN caps'
  BY <1>2 DEF AccessInv, Caps
<1>5. req' = [q \in Requests |-> req'[q]] /\ \A q \in Requests : RequestOK(req'[q], inboxes', caps', now')
  BY <1>1 DEF AccessInv, Become
<1> QED
  BY <1>2, <1>3, <1>4, <1>5 DEF AccessInv, Caps

\* The case of a step that leaves the tables, the cookies and the keys alone.
LEMMA Turns ==
  ASSUME AccessInv, NEW r \in Requests, NEW s, Become(r, s),
         RequestOK(s, inboxes, caps, now), UNCHANGED <<now, tables, cookies, told>>
  PROVE  AccessInv'
<1>1. inboxes' = inboxes /\ caps' = caps /\ now' = now /\ cookies' = cookies /\ told' = told
  BY DEF tables
<1>2. Tables(inboxes, caps)
  BY DEF AccessInv
<1> QED
  BY <1>1, <1>2, LaterRefl, Moves

\* And of one that only answers.
LEMMA Answers ==
  ASSUME AccessInv, NEW r \in Requests, NEW code, Reply(r, code), code = "ok" => ~req[r].late,
         UNCHANGED <<now, tables, cookies, told>>
  PROVE  AccessInv'
BY Answer, Idle, Turns

-----------------------------------------------------------------------------
\* The rows of the tables, typed.
LEMMA Rows ==
  ASSUME AccessInv
  PROVE  /\ \A i \in Inboxes : i \in Nat /\ i # 0 /\ inboxes[i] \in InboxRow
         /\ \A c \in Caps : c \in Nat /\ c # 0 /\ caps[c] \in CapRow /\ caps[c].inbox \in Inboxes
         /\ Len(inboxes) \in Nat /\ Len(caps) \in Nat
<1>1. inboxes \in Seq(InboxRow) /\ caps \in Seq(CapRow) /\ \A c \in Caps : CapOK(c, inboxes, caps)
  BY DEF AccessInv, Tables, Caps
<1>2. /\ Len(inboxes) \in Nat /\ DOMAIN inboxes = 1 .. Len(inboxes)
      /\ Len(caps) \in Nat /\ DOMAIN caps = 1 .. Len(caps)
  BY <1>1, LenProperties
<1> QED
  BY <1>1, <1>2 DEF CapOK, Inboxes, Caps

\* A call that is marked late and is past Authenticate works on an Inbox that is not active.
LEMMA ActiveNotLate ==
  ASSUME AccessInv, NEW r \in Requests, req[r].pc # "auth", Active(req[r].inbox)
  PROVE  ~req[r].late
<1>1. RequestOK(req[r], inboxes, caps, now) /\ now \in Nat
  BY DEF AccessInv
<1>2. SUFFICES ASSUME req[r].late
               PROVE  FALSE
  OBVIOUS
<1>3. /\ req[r].inbox \in Inboxes
      /\ inboxes[req[r].inbox].removed \/ inboxes[req[r].inbox].expires <= now
  BY <1>1, <1>2 DEF RequestOK, Inboxes
<1>4. inboxes[req[r].inbox].expires \in Nat
  BY <1>3, Rows DEF InboxRow
<1> QED
  BY <1>1, <1>3, <1>4 DEF Active

\* The times of a capability and its Inbox, with which Live and Dead are opposites.
LEMMA LiveOrDead ==
  ASSUME AccessInv, NEW c \in Caps
  PROVE  Live(c) <=> ~Dead(c, inboxes, caps, now)
<1>1. caps[c] \in CapRow /\ inboxes[caps[c].inbox] \in InboxRow /\ now \in Nat
  BY Rows DEF AccessInv
<1>2. caps[c].expires \in Nat /\ inboxes[caps[c].inbox].expires \in Nat
  BY <1>1 DEF CapRow, InboxRow
<1> QED
  BY <1>1, <1>2 DEF Live, Active, Dead

LEMMA FirstSteps ==
  ASSUME NEW op
  PROVE  /\ FirstStep(op) \in {"seal", "get", "list", "delete"}
         /\ FirstStep(op) = "get" => op # "exchange"
<1>1. CASE op = "exchange"
  BY <1>1 DEF FirstStep
<1>2. CASE op \in {"delete", "list"}
  BY <1>2 DEF FirstStep
<1>3. CASE op # "exchange" /\ op \notin {"delete", "list"}
  BY <1>3 DEF FirstStep
<1> QED
  BY <1>1, <1>2, <1>3

\* The two kinds of calls: with a capability, and with a session.
WithCap(c, op) ==
  [NoRequest EXCEPT !.pc = "auth", !.op = op, !.cap = c, !.inbox = caps[c].inbox,
                    !.expires = caps[c].expires, !.late = ~Live(c)]
SessionOps == {"read", "list", "delete", "session"}
WithCookie(k, op) ==
  [NoRequest EXCEPT !.pc = FirstStep(op), !.op = op, !.cookie = k, !.inbox = k.inbox,
                    !.expires = k.expires, !.late = ~Active(k.inbox)]

LEMMA CapArrives ==
  ASSUME NEW r, PresentCap(r)
  PROVE  \E c \in told, op \in Ops : Become(r, WithCap(c, op))
<1>1. CanonicalCalls \union DuckMailCalls \union CloudflareCalls \union YydsCalls \subseteq Ops
  BY DEF CanonicalCalls, DuckMailCalls, CloudflareCalls, YydsCalls, Ops
<1> QED
  BY <1>1, Zenon DEF PresentCap, WithCap

LEMMA CookieArrives ==
  ASSUME NEW r, PresentCookie(r)
  PROVE  \E k \in cookies, op \in SessionOps :
           Become(r, WithCookie(k, op)) \/ \E code : code # "ok" /\ Reply(r, code)
<1>1. PICK k \in cookies, op \in {"read", "list", "delete", "session", "logout"} :
        \/ op # "logout" /\ Become(r, WithCookie(k, op))
        \/ Reply(r, "cookie_cleared") \/ Reply(r, "unauthenticated") \/ Reply(r, "csrf_required")
  BY Zenon DEF PresentCookie, WithCookie
<1>2. CASE op # "logout" /\ Become(r, WithCookie(k, op))
  <2>1. op \in SessionOps
    BY <1>2 DEF SessionOps
  <2> QED
    BY <1>2, <2>1, Zenon
<1>3. CASE \E code : code # "ok" /\ Reply(r, code)
  <2>1. "read" \in SessionOps
    BY DEF SessionOps
  <2> QED
    BY <1>3, <2>1, Zenon
<1> QED
  BY <1>1, <1>2, <1>3

\* A call that arrives: with a capability, with a session, or for a creation or login.
LEMMA PresentStep ==
  ASSUME AccessInv, NEW r \in Requests, Present(r)
  PROVE  AccessInv'
<1>1. UNCHANGED <<now, tables, cookies, told>>
  BY DEF Present
<1>2. NoRequest \in Request /\ NoRequest.cap = 0
  BY Idle, Zenon DEF RequestOK, NoRequest
<1>3. CASE PresentCap(r)
  <2>1. PICK c \in told, op \in Ops : Become(r, WithCap(c, op))
    BY <1>3, CapArrives
  <2>2. c \in Caps /\ c \in Nat /\ c # 0 /\ caps[c] \in CapRow /\ c \in DOMAIN caps
    BY Rows DEF AccessInv, Caps
  <2> DEFINE s == WithCap(c, op)
  <2>3. (~Live(c)) \in BOOLEAN
    BY Zenon DEF Live
  <2>4. s \in Request /\ s.pc = "auth" /\ s.op = op /\ s.cap = c
        /\ s.inbox = caps[c].inbox /\ s.expires = caps[c].expires
    BY <1>2, <2>2, <2>3, Zenon DEF WithCap, Request, CapRow, Pcs
  <2>5. s.late <=> ~Live(c)
    BY <1>2, Zenon DEF WithCap, Request
  <2> HIDE DEF s
  <2>6. Within(s, Root(s), caps)
    BY <2>2, <2>4 DEF Within, Root, CapRow
  <2>7. s.late => Dead(c, inboxes, caps, now)
    BY <2>2, <2>5, LiveOrDead
  <2>8. RequestOK(s, inboxes, caps, now)
    BY <2>2, <2>4, <2>6, <2>7 DEF RequestOK
  <2> QED
    BY <1>1, <2>1, <2>8, Turns DEF s
<1>4. CASE PresentCookie(r)
  <2>1. PICK k \in cookies, op \in SessionOps :
          Become(r, WithCookie(k, op)) \/ \E code : code # "ok" /\ Reply(r, code)
    BY <1>4, CookieArrives
  <2> DEFINE s == WithCookie(k, op)
  <2>2. CASE Become(r, s)
    <3>1. op \in Ops /\ op # "exchange" /\ op # "refresh" /\ FirstStep(op) \in Pcs
      BY FirstSteps DEF SessionOps, Ops, Pcs
    <3>2. k \in Cookie /\ Within(k, k.cap, caps)
      BY DEF AccessInv, CookieOK
    <3>3. (~Active(k.inbox)) \in BOOLEAN
      BY Zenon DEF Active
    <3>4. s \in Request /\ s.pc = FirstStep(op) /\ s.op = op /\ s.cap = 0 /\ s.cookie = k
          /\ s.inbox = k.inbox /\ s.expires = k.expires
      BY <1>2, <3>1, <3>2, <3>3, ZenonT(60) DEF WithCookie, Request, Cookie
    <3>5. s.late <=> ~Active(k.inbox)
      BY <1>2, Zenon DEF WithCookie, Request
    <3> HIDE DEF s
    <3>6. s.pc \in {"seal", "get", "list", "delete"} /\ s.op # "exchange" /\ s.op # "refresh"
          /\ s.pc # "seal"
      BY <3>1, <3>4, FirstSteps DEF FirstStep, SessionOps
    <3>7. Within(s, Root(s), caps)
      BY <3>2, <3>4 DEF Within, Root
    <3>8. k.inbox \in DOMAIN inboxes /\ inboxes[k.inbox].expires \in Nat
      BY <3>2, Rows DEF Within, Inboxes, Caps, InboxRow
    <3>9. ~Active(k.inbox) => inboxes[k.inbox].removed \/ inboxes[k.inbox].expires <= now
      BY <3>8 DEF Active, AccessInv
    <3>10. RequestOK(s, inboxes, caps, now)
      BY <3>4, <3>5, <3>6, <3>7, <3>8, <3>9 DEF RequestOK
    <3> QED
      BY <1>1, <2>2, <3>10, Turns
  <2>3. CASE \E code : code # "ok" /\ Reply(r, code)
    BY <1>1, <2>3, Answers
  <2> QED
    BY <2>1, <2>2, <2>3
<1> QED
  BY <1>3, <1>4 DEF Present

\* Authenticate lets no capability pass that is not live, and a list of an Inbox that
\* is not active has nothing on it.
LEMMA CheckStep ==
  ASSUME AccessInv, NEW r \in Requests, Authenticate(r) \/ List(r)
  PROVE  AccessInv'
<1>1. UNCHANGED <<now, tables, cookies, told>>
  BY DEF Authenticate, List
<1>2. RequestOK(req[r], inboxes, caps, now) /\ req[r] \in Request
  BY DEF AccessInv, RequestOK
<1>3. CASE Authenticate(r) /\ Live(req[r].cap)
  <2>1. /\ req[r].pc = "auth" /\ Goto(r, FirstStep(req[r].op))
        /\ req[r].cap # 0 /\ req[r].cap \in Caps /\ Within(req[r], Root(req[r]), caps)
    BY <1>2, <1>3, Zenon DEF Authenticate, RequestOK, Within, Root, Caps
  <2>2. ~req[r].late
    BY <1>2, <1>3, <2>1, LiveOrDead DEF RequestOK
  <2> DEFINE pc == FirstStep(req[r].op)
             s == [req[r] EXCEPT !.pc = pc]
  <2>3. pc \in {"seal", "get", "list", "delete"} /\ (pc = "get" => req[r].op # "exchange")
    BY FirstSteps
  <2>4. Become(r, s)
    BY <2>1 DEF Goto
  <2> HIDE DEF pc
  <2>5. /\ s \in Request /\ s.pc = pc
        /\ s.op = req[r].op /\ s.cap = req[r].cap /\ s.cookie = req[r].cookie
        /\ s.inbox = req[r].inbox /\ s.expires = req[r].expires /\ ~s.late
    BY <1>2, <2>2, <2>3 DEF Request, Pcs
  <2> HIDE DEF s
  <2>6. Within(s, Root(s), caps)
    BY <2>1, <2>5 DEF Within, Root
  <2>7. RequestOK(s, inboxes, caps, now)
    BY <2>1, <2>3, <2>5, <2>6 DEF RequestOK
  <2> QED
    BY <1>1, <2>4, <2>7, Turns
<1>4. CASE Authenticate(r) /\ ~Live(req[r].cap)
  BY <1>1, <1>4, Answers DEF Authenticate
<1>5. CASE List(r)
  <2>1. Active(req[r].inbox) => ~req[r].late
    BY <1>5, ActiveNotLate DEF List
  <2> QED
    BY <1>1, <1>5, <2>1, Answers DEF List
<1> QED
  BY <1>3, <1>4, <1>5

-----------------------------------------------------------------------------
\* A cookie that Issue seals lies within the capability of the request.
LEMMA Sealed ==
  ASSUME AccessInv, NEW r \in Requests, req[r].pc = "seal"
  PROVE  CookieOK(SessionOf(r), caps)
<1>1. req[r] \in Request /\ Within(req[r], Root(req[r]), caps)
  BY DEF AccessInv, RequestOK
<1>2. SessionLifetime \in Nat /\ now \in Nat
  BY CredentialsAssumption DEF AccessInv
<1>3. Root(req[r]) \in Caps /\ caps[Root(req[r])].expires \in Nat /\ Root(req[r]) \in Nat
  BY <1>1, Rows DEF Within, Caps, CapRow
<1>4. SessionOf(r).cap = Root(req[r]) /\ SessionOf(r).inbox = req[r].inbox
      /\ SessionOf(r).expires \in Nat /\ SessionOf(r).expires <= req[r].expires
  BY <1>1, <1>2, SMTT(30) DEF SessionOf, Root, Request
<1>5. SessionOf(r) \in Cookie
  BY <1>1, <1>3, <1>4 DEF SessionOf, Cookie, Request
<1> QED
  BY <1>1, <1>3, <1>4, <1>5 DEF CookieOK, Within, Request

LEMMA SealStep ==
  ASSUME AccessInv, NEW r \in Requests, Seal(r)
  PROVE  AccessInv'
<1>1. /\ req[r].pc = "seal" /\ inboxes' = inboxes /\ caps' = caps /\ now' = now /\ told' = told
      /\ UNCHANGED <<now, tables, told>>
  BY DEF Seal, tables
<1>2. RequestOK(req[r], inboxes, caps, now) /\ req[r] \in Request /\ ~req[r].late
  BY <1>1 DEF AccessInv, RequestOK
<1>3. CookieOK(SessionOf(r), caps)
  BY <1>1, Sealed, Zenon
<1>4. CASE req[r].expires <= now
  BY <1>1, <1>4, Answers DEF Seal
<1>5. CASE ~(req[r].expires <= now) /\ req[r].op = "exchange"
  <2> DEFINE s == [req[r] EXCEPT !.pc = "get", !.cookie = SessionOf(r)]
  <2>1. Become(r, s) /\ cookies' = cookies
    BY <1>5 DEF Seal
  <2>2. s \in Request /\ s.pc = "get" /\ s.op = "exchange" /\ s.cookie = SessionOf(r)
        /\ s.cap = req[r].cap /\ s.inbox = req[r].inbox /\ s.expires = req[r].expires /\ ~s.late
    BY <1>2, <1>3, <1>5, Zenon DEF Request, Pcs, CookieOK
  <2> HIDE DEF s
  <2>3. SessionOf(r).cap = Root(req[r])
    BY DEF SessionOf, Root
  <2>4. Within(s, Root(s), caps)
    BY <1>1, <1>2, <2>2, <2>3, Zenon DEF RequestOK, Within, Root
  <2>5. RequestOK(s, inboxes, caps, now)
    BY <1>3, <2>2, <2>4, Zenon DEF RequestOK
  <2> QED
    BY <1>1, <2>1, <2>5, Turns
<1>6. CASE ~(req[r].expires <= now) /\ req[r].op # "exchange"
  <2>1. Reply(r, "ok") /\ cookies' = cookies \union {SessionOf(r)}
    BY <1>6 DEF Seal
  <2>2. Become(r, NoRequest)
    BY <1>2, <2>1, Answer
  <2> QED
    BY <1>1, <1>3, <2>1, <2>2, Idle, LaterRefl, Moves DEF AccessInv
<1> QED
  BY <1>4, <1>5, <1>6

LEMMA GetStep ==
  ASSUME AccessInv, NEW r \in Requests, Get(r) \/ Mismatch(r)
  PROVE  AccessInv'
<1>1. /\ req[r].pc = "get" /\ inboxes' = inboxes /\ caps' = caps /\ now' = now /\ told' = told
      /\ UNCHANGED <<now, tables, told>>
  BY DEF Get, Mismatch, tables
<1>2. RequestOK(req[r], inboxes, caps, now) /\ req[r] \in Request
  BY DEF AccessInv, RequestOK
<1>3. CASE \/ Reply(r, "not_found") /\ UNCHANGED cookies
           \/ Reply(r, "unauthenticated") /\ UNCHANGED cookies
  BY <1>1, <1>3, Answers
<1>4. CASE Active(req[r].inbox) /\ AfterGet(r)
  <2>1. ~req[r].late
    BY <1>1, <1>4, ActiveNotLate
  <2>2. ASSUME NEW pc \in {"seal", "resolve"}, Goto(r, pc), UNCHANGED cookies,
               pc = "resolve" => req[r].op = "refresh"
        PROVE  AccessInv'
    <3> DEFINE s == [req[r] EXCEPT !.pc = pc]
    <3>1. /\ s \in Request /\ s.pc = pc
          /\ s.op = req[r].op /\ s.cap = req[r].cap /\ s.cookie = req[r].cookie
          /\ s.inbox = req[r].inbox /\ s.expires = req[r].expires /\ ~s.late
      BY <1>2, <2>1 DEF Request, Pcs
    <3>2. Become(r, s)
      BY <2>2 DEF Goto
    <3> HIDE DEF s
    <3>3. Within(s, Root(s), caps)
      BY <1>1, <1>2, <3>1, Zenon DEF RequestOK, Within, Root
    <3>4. RequestOK(s, inboxes, caps, now)
      BY <1>2, <2>2, <3>1, <3>3, Zenon DEF RequestOK
    <3> QED
      BY <1>1, <2>2, <3>2, <3>4, Turns
  <2>3. CASE req[r].op = "exchange"
    <3>1. CookieOK(req[r].cookie, caps)
      BY <1>1, <1>2, <2>3 DEF RequestOK
    <3>2. Reply(r, "ok") /\ cookies' = cookies \union {req[r].cookie}
      BY <1>4, <2>3 DEF AfterGet
    <3>3. Become(r, NoRequest)
      BY <2>1, <3>2, Answer
    <3> QED
      BY <1>1, <3>1, <3>2, <3>3, Idle, LaterRefl, Moves DEF AccessInv
  <2>4. CASE req[r].op \in {"session", "refresh"}
    BY <1>4, <2>2, <2>4 DEF AfterGet
  <2>5. CASE req[r].op \notin {"session", "refresh", "exchange"}
    BY <1>1, <1>4, <2>1, <2>5, Answers DEF AfterGet
  <2> QED
    BY <2>3, <2>4, <2>5
<1> QED
  BY <1>3, <1>4 DEF Get, Mismatch

\* DeleteInbox refuses an Inbox that has ended.
LEMMA DeleteStep ==
  ASSUME AccessInv, NEW r \in Requests, DeleteInbox(r)
  PROVE  AccessInv'
<1>1. /\ req[r].pc = "delete" /\ caps' = caps /\ now' = now /\ cookies' = cookies /\ told' = told
  BY DEF DeleteInbox
<1>2. RequestOK(req[r], inboxes, caps, now) /\ now \in Nat /\ Tables(inboxes, caps)
  BY DEF AccessInv
<1>3. CASE Active(req[r].inbox)
  <2>1. ~req[r].late
    BY <1>1, <1>3, ActiveNotLate
  <2>2. inboxes' = [inboxes EXCEPT ![req[r].inbox].removed = TRUE] /\ Reply(r, "ok")
    BY <1>3 DEF DeleteInbox
  <2>3. Become(r, NoRequest)
    BY <2>1, <2>2, Answer
  <2>4. Tables(inboxes', caps') /\ Later(inboxes, caps, now, inboxes', caps', now')
    BY <1>1, <1>2, <2>2, RemovedOK, Zenon
  <2> QED
    BY <1>1, <2>3, <2>4, Idle, Moves
<1>4. CASE ~Active(req[r].inbox)
  BY <1>1, <1>4, Answers DEF DeleteInbox, tables
<1> QED
  BY <1>3, <1>4

LEMMA ResolveStep ==
  ASSUME AccessInv, NEW r \in Requests, Resolve(r)
  PROVE  AccessInv'
<1>1. req[r].pc = "resolve" /\ UNCHANGED <<now, tables, cookies, told>>
  BY DEF Resolve
<1>2. RequestOK(req[r], inboxes, caps, now) /\ req[r] \in Request /\ ~req[r].late
  BY <1>1 DEF AccessInv, RequestOK
<1>3. CASE Goto(r, "rotate")
  <2> DEFINE s == [req[r] EXCEPT !.pc = "rotate"]
  <2>1. /\ s \in Request /\ s.pc = "rotate"
        /\ s.op = req[r].op /\ s.cap = req[r].cap /\ s.cookie = req[r].cookie
        /\ s.inbox = req[r].inbox /\ s.expires = req[r].expires /\ ~s.late
    BY <1>2 DEF Request, Pcs
  <2>2. Become(r, s)
    BY <1>3 DEF Goto
  <2> HIDE DEF s
  <2>3. RequestOK(s, inboxes, caps, now)
    BY <1>1, <1>2, <2>1, Zenon DEF RequestOK, Within, Root
  <2> QED
    BY <1>1, <2>2, <2>3, Turns
<1>4. CASE Reply(r, "unauthenticated")
  BY <1>1, <1>4, Answers
<1> QED
  BY <1>3, <1>4 DEF Resolve

\* The writes of a rotation keep the tables in order and add one capability.
LEMMA Replaced ==
  ASSUME AccessInv, NEW c \in Caps, Live(c), Replace(c), inboxes' = inboxes, now' = now
  PROVE  /\ Tables(inboxes', caps') /\ Later(inboxes, caps, now, inboxes', caps', now')
         /\ Len(caps) + 1 \in DOMAIN caps'
<1> DEFINE row == Successor(c)
           cp1 == [caps EXCEPT ![c].revoked = TRUE]
<1>1. caps' = Append(cp1, row)
  BY DEF Replace
<1>2. caps[c] \in CapRow /\ c \in Nat /\ Len(caps) \in Nat
  BY Rows
<1>3. row \in CapRow /\ row.from = c /\ row.inbox = caps[c].inbox /\ row.expires = caps[c].expires
  <2>1. FALSE \in BOOLEAN
    OBVIOUS
  <2>2. caps[c].inbox \in Nat /\ caps[c].expires \in Nat
    BY <1>2 DEF CapRow
  <2> QED
    BY <1>2, <2>1, <2>2, Zenon DEF Successor, CapRow
<1>4. ~caps[c].revoked
  BY DEF Live
<1>5. now \in Nat /\ Tables(inboxes, caps) /\ c \in DOMAIN caps
  BY DEF AccessInv, Caps
<1> HIDE DEF row
<1>6. Tables(inboxes, caps') /\ Later(inboxes, caps, now, inboxes, caps', now)
  BY <1>1, <1>3, <1>4, <1>5, RotatedOK, Zenon
<1>7. Len(caps) + 1 \in DOMAIN caps'
  <2>1. caps \in Seq(CapRow) /\ caps' \in Seq(CapRow)
    BY <1>5, <1>6 DEF Tables
  <2>2. cp1 \in [DOMAIN caps -> CapRow] /\ DOMAIN caps = 1 .. Len(caps)
    <3>1. \A d \in DOMAIN caps : caps[d] \in CapRow
      BY Rows DEF Caps
    <3> QED
      BY <2>1, <3>1, LenProperties, Zenon DEF CapRow
  <2> HIDE DEF cp1
  <2>3. cp1 \in Seq(CapRow) /\ DOMAIN cp1 = 1 .. Len(caps)
    BY <1>2, <2>2, SeqDef
  <2>4. Len(cp1) = Len(caps)
    BY <1>2, <2>3, LenProperties
  <2> QED
    BY <1>1, <1>2, <1>3, <2>3, <2>4, Appended
<1> QED
  BY <1>6, <1>7

LEMMA RotateStep ==
  ASSUME AccessInv, NEW r \in Requests, Rotate(r) \/ RotateFails(r)
  PROVE  AccessInv'
<1>1. /\ req[r].pc = "rotate" /\ inboxes' = inboxes /\ now' = now /\ cookies' = cookies
      /\ UNCHANGED <<now, cookies>>
  BY DEF Rotate, RotateFails
<1>2. req[r].cap \in Caps /\ ~req[r].late
  BY <1>1 DEF AccessInv, RequestOK, Within, Root, Caps
<1>3. CASE Live(req[r].cap) /\ Replace(req[r].cap)
  <2>1. /\ Tables(inboxes', caps') /\ Later(inboxes, caps, now, inboxes', caps', now')
        /\ Len(caps) + 1 \in DOMAIN caps'
    BY <1>1, <1>2, <1>3, Replaced
  <2>2. Become(r, NoRequest) /\ told' \subseteq told \union {Len(caps) + 1}
    BY <1>2, <1>3, Answer DEF Rotate, RotateFails
  <2> QED
    BY <1>1, <2>1, <2>2, Idle, Moves
<1>4. CASE caps' = caps /\ told' = told /\ \E code : code # "ok" /\ Reply(r, code)
  BY <1>1, <1>4, Answers DEF tables
<1>5. CASE Rotate(r) /\ ~Live(req[r].cap)
  <2>1. caps' = caps /\ told' = told
        /\ Reply(r, IF caps[req[r].cap].revoked THEN "already_rotated" ELSE "unauthenticated")
    BY <1>5 DEF Rotate
  <2>2. (IF caps[req[r].cap].revoked THEN "already_rotated" ELSE "unauthenticated") # "ok"
    OBVIOUS
  <2> QED
    BY <1>4, <2>1, <2>2
<1>6. CASE RotateFails(r) /\ caps' = caps
  <2>1. told' = told /\ Reply(r, "error") /\ "error" # "ok"
    BY <1>6 DEF RotateFails
  <2> QED
    BY <1>4, <1>6, <2>1
<1> QED
  BY <1>3, <1>5, <1>6 DEF Rotate, RotateFails

-----------------------------------------------------------------------------
\* A creation or a login that arrives names no row yet.
LEMMA AskStep ==
  ASSUME AccessInv, NEW r \in Requests, Ask(r)
  PROVE  AccessInv'
<1>1. UNCHANGED <<now, tables, cookies, told>>
  BY DEF Ask
<1>2. NoRequest \in Request /\ NoRequest.inbox = 0 /\ ~NoRequest.late
  BY Idle, Zenon DEF RequestOK, NoRequest
<1>3. ASSUME NEW api \in Apis, NEW a \in Addresses \union {Any}
      PROVE  RequestOK(Create(api, a), inboxes, caps, now)
  <2>1. /\ Create(api, a) \in Request /\ Create(api, a).pc = "consume"
        /\ Create(api, a).op = "create" /\ Create(api, a).inbox = 0 /\ ~Create(api, a).late
    BY <1>2, Zenon DEF Create, Request, Pcs, Ops
  <2> QED
    BY <2>1, Zenon DEF RequestOK
<1>4. ASSUME NEW a \in Addresses
      PROVE  RequestOK([NoRequest EXCEPT !.pc = "find", !.op = "login", !.address = a],
                       inboxes, caps, now)
  <2> DEFINE s == [NoRequest EXCEPT !.pc = "find", !.op = "login", !.address = a]
  <2>1. s \in Request /\ s.pc = "find" /\ s.op = "login" /\ s.inbox = 0 /\ ~s.late
    BY <1>2, Zenon DEF Request, Pcs, Ops
  <2> HIDE DEF s
  <2>2. RequestOK(s, inboxes, caps, now)
    BY <2>1 DEF RequestOK
  <2> QED
    BY <2>2 DEF s
<1>5. \A s \in CanonicalCreate \union YydsCreate \union CloudflareCreate
                 \union DuckMailCreate \union DuckMailToken : RequestOK(s, inboxes, caps, now)
  <2>1. {"canonical", "cloudflare", "duckmail"} \subseteq Apis
    BY DEF Apis
  <2> QED
    BY <1>3, <1>4, <2>1, Zenon
    DEF CanonicalCreate, YydsCreate, CloudflareCreate, DuckMailCreate, DuckMailToken
<1>6. CASE Admitted(r)
  BY <1>1, <1>5, <1>6, Turns, Answers DEF Admitted
<1>7. CASE Reply(r, "rate_limited")
  BY <1>1, <1>7, Answers
<1> QED
  BY <1>6, <1>7 DEF Ask

\* The steps before the insert.
LEMMA EarlySteps ==
  ASSUME AccessInv, NEW r \in Requests,
         Consume(r) \/ ConsumeFails(r) \/ FindAccount(r) \/ Hash(r) \/ HashCancelled(r) \/ Hashed(r)
  PROVE  AccessInv'
<1>1. UNCHANGED <<now, tables, cookies, told>> /\ req[r].pc \in {"consume", "find", "hash", "hashing"}
  BY Zenon DEF Consume, ConsumeFails, FindAccount, Hash, HashCancelled, Hashed
<1>2. /\ RequestOK(req[r], inboxes, caps, now) /\ req[r] \in Request /\ ~req[r].late
      /\ now \in Nat /\ Lifetime \in Nat
  BY <1>1, CreationAssumption, Zenon DEF AccessInv, RequestOK
<1>3. CASE Consume(r)
  <2>1. ASSUME NEW e \in Nat, NEW pc \in {"hash", "insert"},
               Become(r, [req[r] EXCEPT !.day = now, !.expires = e, !.pc = pc])
        PROVE  AccessInv'
    <3> DEFINE s == [req[r] EXCEPT !.day = now, !.expires = e, !.pc = pc]
    <3>1. /\ s \in Request /\ s.pc \in {"hash", "insert"} /\ s.inbox = req[r].inbox
          /\ s.op = req[r].op /\ s.cap = req[r].cap /\ ~s.late
      BY <1>2, Zenon DEF Request, Pcs
    <3>2. req[r].inbox = 0
      BY <1>2, <1>3 DEF Consume, RequestOK
    <3> HIDE DEF s
    <3>3. RequestOK(s, inboxes, caps, now)
      BY <1>2, <3>1, <3>2, Zenon DEF RequestOK
    <3> QED
      BY <1>1, <2>1, <3>3, Turns DEF s
  <2>2. CASE Reply(r, "bad_request") \/ Reply(r, "quota")
    BY <1>1, <2>2, Answers, Zenon
  <2>3. now + Lifetime \in Nat
    BY <1>2
  <2>4. (IF req[r].api = "duckmail" THEN "hash" ELSE "insert") \in {"hash", "insert"}
    OBVIOUS
  <2> QED
    BY <1>3, <2>1, <2>2, <2>3, <2>4, Zenon DEF Consume
<1>4. ASSUME NEW i \in Inboxes,
             Become(r, [req[r] EXCEPT !.pc = "hash", !.inbox = i, !.expires = inboxes[i].expires])
      PROVE  AccessInv'
  <2> DEFINE s == [req[r] EXCEPT !.pc = "hash", !.inbox = i, !.expires = inboxes[i].expires]
  <2>1. i \in Nat /\ inboxes[i].expires \in Nat /\ i \in DOMAIN inboxes
    BY Rows DEF Inboxes, InboxRow
  <2>2. /\ s \in Request /\ s.pc = "hash" /\ s.inbox = i /\ s.expires = inboxes[i].expires
        /\ s.op = req[r].op /\ s.cap = req[r].cap /\ ~s.late
    BY <1>2, <2>1, Zenon DEF Request, Pcs
  <2>3. Become(r, s)
    BY <1>4
  <2> HIDE DEF s
  <2>4. RequestOK(s, inboxes, caps, now)
    BY <1>2, <2>1, <2>2, Zenon DEF RequestOK
  <2> QED
    BY <1>1, <2>3, <2>4, Turns
<1>5. ASSUME NEW pc \in {"hash", "hashing", "issue"}, Goto(r, pc),
             pc = "issue" => req[r].pc = "hashing" /\ req[r].inbox # 0
      PROVE  AccessInv'
  <2> DEFINE s == [req[r] EXCEPT !.pc = pc]
  <2>1. /\ s \in Request /\ s.pc = pc
        /\ s.op = req[r].op /\ s.cap = req[r].cap
        /\ s.inbox = req[r].inbox /\ s.expires = req[r].expires /\ ~s.late
    BY <1>2 DEF Request, Pcs
  <2>2. Become(r, s)
    BY <1>5 DEF Goto
  <2> HIDE DEF s
  <2>3. RequestOK(s, inboxes, caps, now)
    BY <1>1, <1>2, <1>5, <2>1, Zenon DEF RequestOK
  <2> QED
    BY <1>1, <2>2, <2>3, Turns
<1>6. ASSUME NEW e \in Nat, Become(r, [req[r] EXCEPT !.pc = "insert", !.expires = e])
      PROVE  AccessInv'
  <2> DEFINE s == [req[r] EXCEPT !.pc = "insert", !.expires = e]
  <2>1. s \in Request /\ s.pc = "insert" /\ s.op = req[r].op /\ s.cap = req[r].cap /\ ~s.late
    BY <1>2, Zenon DEF Request, Pcs
  <2>2. Become(r, s)
    BY <1>6
  <2> HIDE DEF s
  <2>3. RequestOK(s, inboxes, caps, now)
    BY <1>2, <2>1, Zenon DEF RequestOK
  <2> QED
    BY <1>1, <2>2, <2>3, Turns, Zenon
<1>7. CASE FindAccount(r)
  BY <1>4, <1>5, <1>7, Zenon DEF FindAccount
<1>8. CASE Hash(r)
  BY <1>5, <1>8, Zenon DEF Hash
<1>9. CASE HashCancelled(r) \/ ConsumeFails(r)
  BY <1>1, <1>9, Answers DEF HashCancelled, ConsumeFails
<1>10. CASE Hashed(r)
  <2>1. CASE Reply(r, "unauthenticated")
    BY <1>1, <2>1, Answers
  <2>2. now + Lifetime \in Nat
    BY <1>2
  <2> QED
    BY <1>5, <1>6, <1>10, <2>1, <2>2, Zenon DEF Hashed, AfterHash
<1> QED
  BY <1>3, <1>7, <1>8, <1>9, <1>10

\* The row that a creation inserts.
LEMMA Inserted ==
  ASSUME AccessInv, NEW r \in Requests, NEW a \in Candidates(r), req[r].pc = "insert",
         inboxes' = Append(inboxes, NewInbox(r, a)), caps' = caps, now' = now
  PROVE  /\ Tables(inboxes', caps') /\ Later(inboxes, caps, now, inboxes', caps', now')
         /\ Len(inboxes) + 1 \in DOMAIN inboxes' /\ Len(inboxes) + 1 \in Nat
         /\ inboxes'[Len(inboxes) + 1].expires = req[r].expires
         /\ inboxes'[Len(inboxes) + 1].account <=> req[r].api = "duckmail"
         /\ \A i \in Inboxes : inboxes'[i] = inboxes[i]
         /\ \A i \in Inboxes' : i \in Inboxes \/ i = Len(inboxes) + 1
<1> DEFINE row == NewInbox(r, a)
<1>1. req[r] \in Request /\ now \in Nat /\ Tables(inboxes, caps) /\ inboxes \in Seq(InboxRow)
  BY DEF AccessInv, RequestOK, Tables
<1>2. a \in Addresses
  BY <1>1 DEF Candidates, Request
<1>3. /\ row \in InboxRow /\ row.expires = req[r].expires
      /\ row.account <=> req[r].api = "duckmail"
  <2>1. req[r].expires \in Nat /\ req[r].day \in Nat
    BY <1>1, Zenon DEF Request
  <2>2. (req[r].api = "duckmail") \in BOOLEAN /\ FALSE \in BOOLEAN
    OBVIOUS
  <2> QED
    BY <1>2, <2>1, <2>2, Zenon DEF NewInbox, InboxRow
<1> HIDE DEF row
<1>4. inboxes' = Append(inboxes, row)
  BY DEF row
<1>5. /\ Len(inboxes) \in Nat /\ DOMAIN inboxes = 1 .. Len(inboxes)
      /\ DOMAIN inboxes' = 1 .. Len(inboxes) + 1 /\ inboxes'[Len(inboxes) + 1] = row
      /\ \A i \in DOMAIN inboxes : inboxes'[i] = inboxes[i]
  BY <1>1, <1>3, <1>4, Appended
<1>6. Tables(inboxes', caps) /\ Later(inboxes, caps, now, inboxes', caps, now)
  BY <1>1, <1>3, <1>4, NewInboxOK
<1> QED
  BY <1>3, <1>5, <1>6 DEF Inboxes

LEMMA InsertStep ==
  ASSUME AccessInv, NEW r \in Requests, Insert(r) \/ InsertFails(r)
  PROVE  AccessInv'
<1>1. /\ req[r].pc = "insert" /\ caps' = caps /\ now' = now /\ cookies' = cookies /\ told' = told
      /\ UNCHANGED <<now, caps, cookies, told>>
  BY DEF Insert, InsertFails
<1>2. /\ RequestOK(req[r], inboxes, caps, now) /\ req[r] \in Request /\ ~req[r].late
  BY <1>1, Zenon DEF AccessInv, RequestOK
<1>3. CASE inboxes' = inboxes /\ (Reply(r, "conflict") \/ Reply(r, "error"))
  BY <1>1, <1>3, Answers DEF tables
<1>4. CASE inboxes' = inboxes /\ Become(r, [req[r] EXCEPT !.attempts = @ + 1])
  <2>1. req[r].attempts + 1 \in Nat
    BY <1>2 DEF Request
  <2> DEFINE n == req[r].attempts + 1
             s == [req[r] EXCEPT !.attempts = n]
  <2>2. Become(r, s) /\ n \in Nat
    BY <1>4, <2>1
  <2> HIDE DEF n
  <2>3. s \in Request /\ s.pc = "insert" /\ s.op = req[r].op /\ s.cap = req[r].cap /\ ~s.late
    BY <1>1, <1>2, <2>2 DEF Request
  <2> HIDE DEF s
  <2>4. RequestOK(s, inboxes, caps, now)
    BY <1>2, <2>3, Zenon DEF RequestOK
  <2> QED
    BY <1>1, <1>4, <2>2, <2>4, Turns DEF tables
<1>5. ASSUME NEW a \in Candidates(r), inboxes' = Append(inboxes, NewInbox(r, a)),
             \/ Reply(r, "ok") \/ Reply(r, "error")
             \/ Become(r, [req[r] EXCEPT !.pc = "issue", !.inbox = Len(inboxes) + 1])
      PROVE  AccessInv'
  <2> DEFINE i == Len(inboxes) + 1
             s == [req[r] EXCEPT !.pc = "issue", !.inbox = i]
  <2>1. /\ Tables(inboxes', caps') /\ Later(inboxes, caps, now, inboxes', caps', now')
        /\ i \in DOMAIN inboxes' /\ i \in Nat /\ inboxes'[i].expires = req[r].expires
    BY <1>1, <1>5, Inserted
  <2>2. CASE Reply(r, "ok") \/ Reply(r, "error")
    <3>1. Become(r, NoRequest)
      BY <1>2, <2>2, Answer
    <3> QED
      BY <1>1, <2>1, <3>1, Idle, Moves, Zenon
  <2>3. CASE Become(r, s)
    <3> HIDE DEF i
    <3>1. /\ s \in Request /\ s.pc = "issue" /\ s.inbox = i /\ s.expires = req[r].expires
          /\ s.op = req[r].op /\ s.cap = req[r].cap /\ ~s.late
      BY <1>2, <2>1, Zenon DEF Request, Pcs
    <3> HIDE DEF s
    <3>2. RequestOK(s, inboxes', caps', now')
      BY <1>2, <2>1, <3>1, Zenon DEF RequestOK
    <3> QED
      BY <1>1, <2>1, <2>3, <3>2, Moves, Zenon
  <2> QED
    BY <1>5, <2>2, <2>3
<1> QED
  BY <1>3, <1>4, <1>5 DEF Insert, InsertFails

\* A capability that is issued for the Inbox of a request.
LEMMA Issued ==
  ASSUME AccessInv, NEW r \in Requests, req[r].pc = "issue",
         caps' = Append(caps, NewCap(r)), inboxes' = inboxes, now' = now
  PROVE  /\ Tables(inboxes', caps') /\ Later(inboxes, caps, now, inboxes', caps', now')
         /\ Len(caps) + 1 \in DOMAIN caps' /\ Len(caps) + 1 \in Nat
         /\ caps'[Len(caps) + 1] = NewCap(r) /\ Len(caps) + 1 \notin Caps
         /\ \A c \in Caps : caps'[c] = caps[c]
<1> DEFINE row == NewCap(r)
<1>1. /\ req[r] \in Request /\ now \in Nat /\ Tables(inboxes, caps) /\ caps \in Seq(CapRow)
      /\ req[r].inbox \in DOMAIN inboxes /\ req[r].expires = inboxes[req[r].inbox].expires
  BY DEF AccessInv, RequestOK, Tables
<1>2. row \in CapRow /\ row.from = 0 /\ row.inbox = req[r].inbox /\ row.expires = req[r].expires
  <2>1. req[r].expires \in Nat /\ req[r].inbox \in Nat /\ 0 \in Nat
    BY <1>1, Zenon DEF Request
  <2> QED
    BY <2>1, Zenon DEF NewCap, CapRow
<1> HIDE DEF row
<1>3. caps' = Append(caps, row)
  BY DEF row
<1>4. /\ Len(caps) \in Nat /\ DOMAIN caps = 1 .. Len(caps)
      /\ DOMAIN caps' = 1 .. Len(caps) + 1 /\ caps'[Len(caps) + 1] = row
      /\ \A c \in DOMAIN caps : caps'[c] = caps[c]
  BY <1>1, <1>2, <1>3, Appended
<1>5. Tables(inboxes, caps') /\ Later(inboxes, caps, now, inboxes, caps', now)
  BY <1>1, <1>2, <1>3, NewCapOK
<1> QED
  BY <1>4, <1>5 DEF row, Caps

LEMMA IssueStep ==
  ASSUME AccessInv, NEW r \in Requests, Issue(r) \/ IssueFails(r)
  PROVE  AccessInv'
<1>1. /\ req[r].pc = "issue" /\ inboxes' = inboxes /\ now' = now /\ cookies' = cookies
      /\ \A c \in told' : c \in told \/ (c = Len(caps) + 1 /\ caps' = Append(caps, NewCap(r)))
      /\ caps' = caps \/ caps' = Append(caps, NewCap(r))
  BY DEF Issue, IssueFails
<1>2. RequestOK(req[r], inboxes, caps, now) /\ req[r] \in Request /\ ~req[r].late
  BY <1>1, Zenon DEF AccessInv, RequestOK
<1>3. /\ Tables(inboxes', caps') /\ Later(inboxes, caps, now, inboxes', caps', now')
      /\ \A c \in told' : c \in told \/ c \in DOMAIN caps'
  <2>1. CASE caps' = caps
    BY <1>1, <2>1, LaterRefl, Issued DEF AccessInv
  <2>2. CASE caps' = Append(caps, NewCap(r))
    BY <1>1, <2>2, Issued
  <2> QED
    BY <1>1, <2>1, <2>2, Zenon
<1>4. CASE Reply(r, "ok") \/ Reply(r, "error")
  <2>1. Become(r, NoRequest)
    BY <1>2, <1>4, Answer
  <2> QED
    BY <1>1, <1>3, <2>1, Idle, Moves, Zenon
<1>5. CASE Goto(r, "compensate")
  <2> DEFINE s == [req[r] EXCEPT !.pc = "compensate"]
  <2>1. /\ s \in Request /\ s.pc = "compensate" /\ s.inbox = req[r].inbox
        /\ s.expires = req[r].expires /\ s.op = req[r].op /\ s.cap = req[r].cap /\ ~s.late
    BY <1>2 DEF Request, Pcs
  <2>2. Become(r, s)
    BY <1>5 DEF Goto
  <2> HIDE DEF s
  <2>3. RequestOK(s, inboxes, caps, now)
    BY <1>1, <1>2, <2>1, Zenon DEF RequestOK
  <2>4. RequestOK(s, inboxes', caps', now')
    BY <1>3, <2>3, Carried DEF AccessInv
  <2> QED
    BY <1>1, <1>3, <2>2, <2>4, Moves, Zenon
<1>6. CASE /\ caps' = Append(caps, NewCap(r))
           /\ Become(r, [req[r] EXCEPT !.pc = "number", !.cap = Len(caps) + 1])
  <2> DEFINE c == Len(caps) + 1
             s == [req[r] EXCEPT !.pc = "number", !.cap = c]
  <2>1. c \in Nat /\ c # 0 /\ c \in DOMAIN caps' /\ caps'[c] = NewCap(r)
    BY <1>1, <1>6, Rows, Issued
  <2>2. Become(r, s)
    BY <1>6
  <2> HIDE DEF c
  <2>3. /\ s \in Request /\ s.pc = "number" /\ s.inbox = req[r].inbox
        /\ s.expires = req[r].expires /\ s.op = req[r].op /\ s.cap = c /\ ~s.late
    BY <1>2, <2>1, Zenon DEF Request, Pcs
  <2> HIDE DEF s
  <2>4. req[r].expires \in Nat
    BY <1>2 DEF Request
  <2>5. Within(s, s.cap, caps')
    <3>1. caps'[c].inbox = req[r].inbox /\ caps'[c].expires = req[r].expires
      BY <2>1 DEF NewCap
    <3>2. req[r].expires <= req[r].expires
      BY <2>4
    <3> QED
      BY <2>1, <2>3, <3>1, <3>2, Zenon DEF Within
  <2>6. s.inbox \in DOMAIN inboxes' /\ s.expires = inboxes'[s.inbox].expires
    BY <1>1, <1>2, <2>3, Zenon DEF RequestOK
  <2>7. RequestOK(s, inboxes', caps', now')
    BY <2>1, <2>3, <2>5, <2>6, Zenon DEF RequestOK
  <2> QED
    BY <1>1, <1>3, <2>2, <2>7, Moves, Zenon
<1> QED
  BY <1>4, <1>5, <1>6 DEF Issue, IssueFails, IssueFailed

LEMMA LateSteps ==
  ASSUME AccessInv, NEW r \in Requests,
         Number(r) \/ NumberFails(r) \/ Compensate(r) \/ CompensateFails(r)
  PROVE  AccessInv'
<1>1. /\ caps' = caps /\ now' = now /\ cookies' = cookies /\ req[r].pc \in {"number", "compensate"}
  BY DEF Number, NumberFails, Compensate, CompensateFails, tables
<1>2. RequestOK(req[r], inboxes, caps, now) /\ req[r] \in Request /\ ~req[r].late
  BY <1>1, Zenon DEF AccessInv, RequestOK
<1>7. \A c \in told' : c \in told \/ c \in DOMAIN caps'
  BY <1>1, <1>2 DEF Number, NumberFails, Compensate, CompensateFails, RequestOK, Within
<1>3. Tables(inboxes', caps') /\ Later(inboxes, caps, now, inboxes', caps', now')
  <2>1. CASE inboxes' = inboxes
    BY <1>1, <2>1, LaterRefl DEF AccessInv
  <2>2. CASE inboxes' = [inboxes EXCEPT ![req[r].inbox].removed = TRUE]
    BY <1>1, <2>2, RemovedOK, Zenon DEF AccessInv
  <2> QED
    BY <2>1, <2>2 DEF Number, NumberFails, Compensate, CompensateFails, tables
<1>4. CASE Reply(r, "ok") \/ Reply(r, "error")
  <2>1. Become(r, NoRequest)
    BY <1>2, <1>4, Answer
  <2> QED
    BY <1>1, <1>3, <1>7, <2>1, Idle, Moves, Zenon
<1>5. CASE Goto(r, "compensate")
  <2> DEFINE s == [req[r] EXCEPT !.pc = "compensate"]
  <2>1. /\ s \in Request /\ s.pc = "compensate" /\ s.inbox = req[r].inbox
        /\ s.expires = req[r].expires /\ s.op = req[r].op /\ s.cap = req[r].cap /\ ~s.late
    BY <1>2 DEF Request, Pcs
  <2>2. Become(r, s)
    BY <1>5 DEF Goto
  <2> HIDE DEF s
  <2>3. RequestOK(s, inboxes, caps, now)
    BY <1>1, <1>2, <2>1, Zenon DEF RequestOK
  <2>4. RequestOK(s, inboxes', caps', now')
    BY <1>3, <2>3, Carried DEF AccessInv
  <2> QED
    BY <1>1, <1>3, <1>7, <2>2, <2>4, Moves, Zenon
<1> QED
  BY <1>4, <1>5 DEF Number, NumberFails, Compensate, CompensateFails

-----------------------------------------------------------------------------
\* Steps of no request: time passes, an Inbox is swept, the process dies.
LEMMA OtherSteps ==
  ASSUME AccessInv, Tick \/ Sweep \/ Crash \/ UNCHANGED vars
  PROVE  AccessInv'
<1>1. /\ caps' = caps /\ cookies' = cookies /\ told' = told
      /\ now \in Nat /\ Tables(inboxes, caps)
  BY DEF Tick, Sweep, SweepInbox, Crash, vars, credVars, tables, AccessInv
<1>2. Tables(inboxes', caps') /\ Later(inboxes, caps, now, inboxes', caps', now')
  <2>1. CASE inboxes' = inboxes /\ now' = now
    BY <1>1, <2>1, LaterRefl
  <2>2. ASSUME NEW i, inboxes' = [inboxes EXCEPT ![i].removed = TRUE], now' = now
        PROVE  Tables(inboxes', caps') /\ Later(inboxes, caps, now, inboxes', caps', now')
    BY <1>1, <2>2, RemovedOK, Zenon
  <2>3. CASE inboxes' = inboxes /\ now' = now + 1
    BY <1>1, <2>3 DEF Later
  <2> QED
    BY <2>1, <2>2, <2>3 DEF Tick, Sweep, SweepInbox, Crash, vars, credVars, tables
<1>3. req' = [r \in Requests |-> req'[r]] /\ \A r \in Requests : req'[r] = req[r] \/ req'[r] = NoRequest
  BY DEF AccessInv, Tick, Sweep, SweepInbox, Crash, vars, credVars
<1>4. /\ \A k : CookieOK(k, caps) => CookieOK(k, caps')
      /\ \A q : RequestOK(q, inboxes, caps, now) => RequestOK(q, inboxes', caps', now')
  BY <1>1, <1>2, Carried
<1>5. \A r \in Requests : RequestOK(req'[r], inboxes', caps', now')
  BY <1>3, <1>4, Idle DEF AccessInv
<1>6. now' \in Nat
  BY <1>2 DEF Later
<1> QED
  BY <1>1, <1>2, <1>3, <1>4, <1>5, <1>6 DEF AccessInv, Caps

LEMMA AccessInit == Init => AccessInv
<1> SUFFICES ASSUME Init PROVE AccessInv
  OBVIOUS
<1>1. now \in Nat /\ cookies = {} /\ req = [r \in Requests |-> NoRequest] /\ Lifetime \in Nat
  BY CreationAssumption DEF Init
<1>2. Tables(inboxes, caps) /\ told \subseteq Caps
  <2>1. CASE inboxes = <<>> /\ caps = <<>> /\ told = {}
    BY <2>1 DEF Tables
  <2>2. ASSUME NEW a \in Addresses,
               inboxes = <<[address |-> a, expires |-> Lifetime, account |-> FALSE,
                            removed |-> FALSE, day |-> 0]>>,
               caps = <<[inbox |-> 1, expires |-> Lifetime, revoked |-> FALSE, from |-> 0]>>,
               told = {1}
        PROVE  Tables(inboxes, caps) /\ told \subseteq Caps
    <3> DEFINE i == [address |-> a, expires |-> Lifetime, account |-> FALSE,
                     removed |-> FALSE, day |-> 0]
               c == [inbox |-> 1, expires |-> Lifetime, revoked |-> FALSE, from |-> 0]
    <3>1. 0 \in Nat /\ 1 \in Nat
      OBVIOUS
    <3>2. i \in InboxRow /\ i.expires = Lifetime
      BY <1>1, <3>1, Zenon DEF InboxRow
    <3>3. c \in CapRow /\ c.expires = Lifetime /\ c.inbox = 1 /\ c.from = 0
      BY <1>1, <3>1, Zenon DEF CapRow
    <3>4. inboxes = <<i>> /\ caps = <<c>>
      BY <2>2
    <3> HIDE DEF i, c
    <3>5. /\ inboxes \in Seq(InboxRow) /\ DOMAIN inboxes = {1} /\ inboxes[1] = i
          /\ caps \in Seq(CapRow) /\ DOMAIN caps = {1} /\ caps[1] = c
      BY <3>2, <3>3, <3>4
    <3> QED
      BY <2>2, <3>2, <3>3, <3>5 DEF Tables, CapOK, Caps
  <2> QED
    BY <2>1, <2>2 DEF Init
<1> QED
  BY <1>1, <1>2, Idle DEF AccessInv

LEMMA AccessNext == AccessInv /\ [Next]_vars => AccessInv'
<1> SUFFICES ASSUME AccessInv, [Next]_vars PROVE AccessInv'
  OBVIOUS
<1>1. ASSUME NEW r \in Requests, Start(r) \/ Step(r) \/ Failure(r)
      PROVE  AccessInv'
  <2>1. Start(r) => AccessInv'
    BY AskStep, PresentStep DEF Start
  <2>2. Step(r) => AccessInv'
    BY CheckStep, SealStep, GetStep, DeleteStep, ResolveStep, RotateStep, EarlySteps, InsertStep,
       IssueStep, LateSteps DEF Step, CredStep
  <2>3. Failure(r) => AccessInv'
    BY RotateStep, EarlySteps, InsertStep, IssueStep, LateSteps DEF Failure
  <2> QED
    BY <1>1, <2>1, <2>2, <2>3
<1> QED
  BY <1>1, OtherSteps DEF Next

LEMMA AccessAlways == Spec => []AccessInv
BY AccessInit, AccessNext, PTL DEF Spec

\* Two rotations of one capability at once leave one successor, and a capability that
\* has one is revoked (RotateCapability, inbox_capability_repository.go).
THEOREM RotationIsUnique == Spec => []OneSuccessor
<1>1. AccessInv => OneSuccessor
  BY DEF AccessInv, Tables, CapOK, OneSuccessor, Caps
<1> QED
  BY <1>1, AccessAlways, PTL

\* No chain of renewed sessions outlasts the capability it began with, and no
\* capability outlasts its Inbox (BrowserSessionManager.Issue, CreateCapability).
THEOREM GrantsAreNested == Spec => []GrantsNest
<1>1. ASSUME AccessInv PROVE GrantsNest
  <2>1. ASSUME NEW c \in Caps
        PROVE  caps[c].expires <= inboxes[caps[c].inbox].expires
    <3>1. caps[c] \in CapRow
      BY <1>1, Rows
    <3>2. caps[c].expires = inboxes[caps[c].inbox].expires /\ caps[c].expires \in Nat
      BY <1>1, <3>1 DEF AccessInv, Tables, CapOK, Caps, CapRow
    <3> QED
      BY <3>2
  <2> QED
    BY <1>1, <2>1 DEF AccessInv, CookieOK, Within, GrantsNest
<1> QED
  BY <1>1, AccessAlways, PTL

\* A call that begins after the end of its capability or of its Inbox is never served:
\* Authenticate asks for a live capability, and GetInbox, DeleteInbox and ListMessages
\* for an active, unexpired row when a session was enough to get past it.
THEOREM EndedIsRefused == Spec => []EndIsFinal
<1>1. AccessInv => EndIsFinal
  BY DEF AccessInv, RequestOK, EndIsFinal
<1> QED
  BY <1>1, AccessAlways, PTL

-----------------------------------------------------------------------------
(* An active Inbox keeps somebody who can open it.                         *)

\* OwnerKeepsAccess without the clock: by AccessInv a capability of an active Inbox is
\* live unless it is revoked.
Covered(i) ==
  \/ inboxes[i].account
  \/ \E c \in told : caps[c].inbox = i /\ ~caps[c].revoked
  \/ \E r \in Requests : req[r].inbox = i /\ Creating(r)
  \/ i \in lost

\* A call acts with a key its owner has; the key of an unfinished Cloudflare creation is
\* not out yet and hence not rotated.
OwnOK(s, cp, td) ==
  /\ s.pc \in {"auth", "seal", "get", "list", "delete", "resolve", "rotate"} /\ s.cap # 0 =>
       s.cap \in td
  /\ s.pc \in {"consume", "insert", "number", "compensate"} => s.op = "create"
  /\ s.api = "cloudflare" => s.op = "create"
  /\ s.pc = "number" => s.cap \notin td /\ ~cp[s.cap].revoked

OwnerInv ==
  /\ \A i \in Inboxes : Active(i) => Covered(i)
  /\ \A r \in Requests : OwnOK(req[r], caps, told)
  /\ \A q, r \in Requests :
       q # r /\ req[q].pc = "number" /\ req[r].pc = "number" => req[q].cap # req[r].cap

\* A step of request r that takes nothing from an Inbox without giving it something.
LEMMA Kept ==
  ASSUME AccessInv, OwnerInv, NEW r \in Requests, NEW s, Become(r, s),
         told \subseteq told', lost \subseteq lost',
         \A i \in Inboxes : Active(i)' => Active(i),
         \A i \in Inboxes : inboxes'[i].account = inboxes[i].account,
         \A i \in Inboxes' : i \notin Inboxes => Covered(i)',
         \A c \in told : caps'[c].inbox = caps[c].inbox,
         \A i : \A c \in told :
           i = caps[c].inbox /\ caps'[c].revoked => caps[c].revoked \/ Covered(i)',
         \A i : Creating(r) /\ i = req[r].inbox /\ Active(i)' => Covered(i)',
         \A q \in Requests : q # r => OwnOK(req[q], caps', told'),
         OwnOK(s, caps', told'),
         \A q \in Requests : q # r /\ s.pc = "number" /\ req[q].pc = "number" => req[q].cap # s.cap
  PROVE  OwnerInv'
<1>1. /\ req' = [q \in Requests |-> req'[q]] /\ req'[r] = s
      /\ \A q \in Requests : q # r => req'[q] = req[q]
  BY DEF AccessInv, Become
<1>2. ASSUME NEW i \in Inboxes, Active(i)'
      PROVE  Covered(i)'
  <2>1. Covered(i)
    BY <1>2, Zenon DEF OwnerInv
  <2>2. CASE inboxes[i].account \/ i \in lost
    BY <2>2, Zenon DEF Covered
  <2>3. CASE \E c \in told : caps[c].inbox = i /\ ~caps[c].revoked
    BY <2>3, Zenon DEF Covered
  <2>4. ASSUME NEW q \in Requests, req[q].inbox = i, Creating(q)
        PROVE  Covered(i)'
    <3>1. CASE q = r
      BY <1>2, <2>4, <3>1
    <3>2. CASE q # r
      BY <1>1, <2>4, <3>2, Zenon DEF Covered, Creating
    <3> QED
      BY <3>1, <3>2, Zenon
  <2> QED
    BY <2>1, <2>2, <2>3, <2>4, Zenon DEF Covered
<1>3. \A q \in Requests : OwnOK(req'[q], caps', told')
  BY <1>1
<1>4. \A p, q \in Requests :
        p # q /\ req'[p].pc = "number" /\ req'[q].pc = "number" => req'[p].cap # req'[q].cap
  BY <1>1 DEF OwnerInv
<1> QED
  BY <1>2, <1>3, <1>4, Zenon DEF OwnerInv

\* The case of a step that leaves the tables and what is known of them alone.
LEMMA Quiet ==
  ASSUME AccessInv, OwnerInv, NEW r \in Requests, NEW s, Become(r, s),
         UNCHANGED <<now, tables, told, lost>>,
         OwnOK(s, caps, told), s.pc # "number",
         Creating(r) /\ Active(req[r].inbox) =>
           s.inbox = req[r].inbox /\ s.op = "create" /\ s.pc = "compensate"
  PROVE  OwnerInv'
<1>1. now' = now /\ inboxes' = inboxes /\ caps' = caps /\ told' = told /\ lost' = lost
  BY DEF tables
<1>2. \A i : Active(i)' => Active(i)
  BY <1>1, Zenon DEF Active
<1>3. ASSUME NEW i, Creating(r), i = req[r].inbox, Active(i)'
      PROVE  Covered(i)'
  <2>1. req'[r] = s
    BY DEF AccessInv, Become
  <2>2. s.inbox = i /\ s.op = "create" /\ s.pc = "compensate"
    BY <1>2, <1>3, Zenon
  <2> QED
    BY <2>1, <2>2, Zenon DEF Covered, Creating
<1>4. \A q \in Requests : OwnOK(req[q], caps, told)
  BY Zenon DEF OwnerInv
<1> QED
  BY <1>1, <1>2, <1>3, <1>4, Kept, Zenon DEF Inboxes

\* An answer to a request that was not creating an active Inbox.
LEMMA QuietAnswer ==
  ASSUME AccessInv, OwnerInv, NEW r \in Requests, NEW code, Reply(r, code),
         code = "ok" => ~req[r].late,
         UNCHANGED <<now, tables, told, lost>>, ~(Creating(r) /\ Active(req[r].inbox))
  PROVE  OwnerInv'
<1>1. Become(r, NoRequest)
  BY Answer
<1>2. OwnOK(NoRequest, caps, told) /\ NoRequest.pc # "number"
  BY DEF OwnOK, NoRequest
<1> QED
  BY <1>1, <1>2, Quiet, Zenon

\* An Inbox is removed: what is active afterwards was active before.
LEMMA Removes ==
  ASSUME AccessInv, NEW i, inboxes' = [inboxes EXCEPT ![i].removed = TRUE], now' = now
  PROVE  /\ Inboxes' = Inboxes
         /\ \A j \in Inboxes : Active(j)' => Active(j) /\ j # i
         /\ \A j \in Inboxes : inboxes'[j].account = inboxes[j].account
<1>1. \A j \in Inboxes : inboxes[j] \in InboxRow
  BY Rows
<1>2. DOMAIN inboxes' = DOMAIN inboxes
  OBVIOUS
<1>3. \A j \in Inboxes : /\ inboxes'[j].account = inboxes[j].account
                         /\ inboxes'[j].expires = inboxes[j].expires
                         /\ j # i => (inboxes'[j].removed <=> inboxes[j].removed)
  BY <1>1 DEF InboxRow, Inboxes
<1>4. i \in Inboxes => inboxes'[i].removed
  BY <1>1 DEF InboxRow, Inboxes
<1> QED
  BY <1>2, <1>3, <1>4 DEF Active, Inboxes

-----------------------------------------------------------------------------
\* Calls come with a key that its owner has, or with none.
LEMMA StartKeeps ==
  ASSUME AccessInv, OwnerInv, NEW r \in Requests, Start(r)
  PROVE  OwnerInv'
<1>1. UNCHANGED <<now, tables, told, lost>> /\ req[r].pc = "done" /\ ~Creating(r)
  BY DEF Start, Ask, Present, Creating
<1>2. NoRequest \in Request /\ NoRequest.cap = 0 /\ NoRequest.api = "none"
  BY Idle, Zenon DEF RequestOK, NoRequest
<1>3. ASSUME NEW s, Become(r, s), s.pc \in {"auth", "seal", "get", "list", "delete", "consume", "find"},
             s.cap # 0 => s.cap \in told, (s.api = "none" /\ s.pc # "consume") \/ s.op = "create"
      PROVE  OwnerInv'
  <2>1. OwnOK(s, caps, told) /\ s.pc # "number"
    BY <1>2, <1>3 DEF OwnOK
  <2> QED
    BY <1>1, <1>3, <2>1, Quiet, Zenon
<1>4. ASSUME NEW code, code # "ok", Reply(r, code)
      PROVE  OwnerInv'
  BY <1>1, <1>4, QuietAnswer, Zenon
<1>5. CASE PresentCap(r)
  <2>1. PICK c \in told, op \in Ops : Become(r, WithCap(c, op))
    BY <1>5, CapArrives
  <2>2. /\ WithCap(c, op).pc = "auth" /\ WithCap(c, op).cap = c
        /\ WithCap(c, op).api = "none"
    BY <1>2 DEF WithCap, Request
  <2> QED
    BY <1>3, <2>1, <2>2
<1>6. CASE PresentCookie(r)
  <2>1. PICK k \in cookies, op \in SessionOps :
          \/ Become(r, WithCookie(k, op))
          \/ \E code : code # "ok" /\ Reply(r, code)
    BY <1>6, CookieArrives
  <2>2. CASE Become(r, WithCookie(k, op))
    <3>1. /\ WithCookie(k, op).pc = FirstStep(op) /\ WithCookie(k, op).cap = 0
          /\ WithCookie(k, op).api = "none"
      BY <1>2 DEF WithCookie, Request
    <3> QED
      BY <1>3, <2>2, <3>1, FirstSteps
  <2> QED
    BY <1>4, <2>1, <2>2
<1>7. CASE Ask(r)
  <2>1. \A api, a : /\ Create(api, a).pc = "consume" /\ Create(api, a).op = "create"
                    /\ Create(api, a).cap = 0
    BY <1>2 DEF Create, Request
  <2>2. ASSUME NEW a, Become(r, [NoRequest EXCEPT !.pc = "find", !.op = "login", !.address = a])
        PROVE  OwnerInv'
    <3> DEFINE s == [NoRequest EXCEPT !.pc = "find", !.op = "login", !.address = a]
    <3>1. Become(r, s) /\ s.pc = "find" /\ s.cap = 0 /\ s.api = "none"
      BY <1>2, <2>2 DEF Request
    <3> HIDE DEF s
    <3> QED
      BY <1>3, <3>1
  <2>3. ASSUME NEW api, NEW a, Become(r, Create(api, a))
        PROVE  OwnerInv'
    BY <1>3, <2>1, <2>3
  <2>4. CASE Reply(r, "bad_request") \/ Reply(r, "rate_limited")
    BY <1>4, <2>4
  <2> QED
    BY <1>7, <2>2, <2>3, <2>4, Zenon
    DEF Ask, Admitted, CanonicalCreate, YydsCreate, CloudflareCreate, DuckMailCreate, DuckMailToken
<1> QED
  BY <1>5, <1>6, <1>7 DEF Start, Present

\* Sessions, reads and the first half of a rotation change no row.
LEMMA CallKeeps ==
  ASSUME AccessInv, OwnerInv, NEW r \in Requests,
         Authenticate(r) \/ Seal(r) \/ Get(r) \/ List(r) \/ Mismatch(r) \/ Resolve(r)
  PROVE  OwnerInv'
<1>1. /\ UNCHANGED <<now, tables, told, lost>>
      /\ req[r].pc \in {"auth", "seal", "get", "list", "resolve"}
      /\ ~Creating(r)
  BY Zenon DEF Authenticate, Seal, Get, List, Mismatch, Resolve, Creating
<1>2. req[r] \in Request /\ RequestOK(req[r], inboxes, caps, now) /\ OwnOK(req[r], caps, told)
  BY Zenon DEF AccessInv, RequestOK, OwnerInv
<1>3. ASSUME NEW s, Become(r, s), s.pc \in {"get", "list", "delete", "seal", "resolve", "rotate"},
             s.cap = req[r].cap, s.api = req[r].api, s.op = req[r].op
      PROVE  OwnerInv'
  <2>1. OwnOK(s, caps, told) /\ s.pc # "number"
    BY <1>1, <1>2, <1>3, Zenon DEF OwnOK
  <2> QED
    BY <1>1, <1>3, <2>1, Quiet, Zenon
<1>4. ASSUME NEW pc \in {"get", "list", "delete", "seal", "resolve", "rotate"}, Goto(r, pc)
      PROVE  OwnerInv'
  <2> DEFINE s == [req[r] EXCEPT !.pc = pc]
  <2>1. /\ Become(r, s) /\ s.pc = pc /\ s.cap = req[r].cap
        /\ s.api = req[r].api /\ s.op = req[r].op
    BY <1>2, <1>4 DEF Request, Goto
  <2> HIDE DEF s
  <2> QED
    BY <1>3, <2>1, Zenon
<1>5. ASSUME NEW k, Become(r, [req[r] EXCEPT !.pc = "get", !.cookie = k])
      PROVE  OwnerInv'
  <2> DEFINE s == [req[r] EXCEPT !.pc = "get", !.cookie = k]
  <2>1. /\ Become(r, s) /\ s.pc = "get" /\ s.cap = req[r].cap
        /\ s.api = req[r].api /\ s.op = req[r].op
    BY <1>2, <1>5 DEF Request
  <2> HIDE DEF s
  <2> QED
    BY <1>3, <2>1
<1>6. ASSUME NEW code, Reply(r, code), code = "ok" => ~req[r].late
      PROVE  OwnerInv'
  BY <1>1, <1>6, QuietAnswer, Zenon
<1>7. CASE Seal(r)
  <2>1. ~req[r].late
    BY <1>2, <1>7 DEF Seal, RequestOK
  <2> QED
    BY <1>5, <1>6, <1>7, <2>1, Zenon DEF Seal
<1>8. CASE Get(r) /\ Active(req[r].inbox)
  <2>1. ~req[r].late
    BY <1>8, ActiveNotLate, Zenon DEF Get
  <2> QED
    BY <1>4, <1>6, <1>8, <2>1 DEF Get, AfterGet
<1>9. CASE Get(r) /\ ~Active(req[r].inbox)
  BY <1>6, <1>9, Zenon DEF Get
<1>10. CASE Mismatch(r)
  BY <1>6, <1>10, Zenon DEF Mismatch
<1>11. CASE Resolve(r)
  BY <1>4, <1>6, <1>11 DEF Resolve
<1>12. CASE Authenticate(r)
  <2>1. FirstStep(req[r].op) \in {"seal", "get", "list", "delete"}
    BY FirstSteps
  <2> QED
    BY <1>4, <1>6, <1>12, <2>1 DEF Authenticate
<1>13. CASE List(r)
  <2>1. Active(req[r].inbox) => ~req[r].late
    BY <1>13, ActiveNotLate DEF List
  <2> QED
    BY <1>6, <1>13, <2>1 DEF List
<1> QED
  BY <1>7, <1>8, <1>9, <1>10, <1>11, <1>12, <1>13

\* A removal takes the Inbox itself away, and no key from another.
LEMMA RemovalKeeps ==
  ASSUME AccessInv, OwnerInv, NEW r \in Requests, Become(r, NoRequest),
         inboxes' = [inboxes EXCEPT ![req[r].inbox].removed = TRUE],
         UNCHANGED <<now, caps, told, lost>>, req[r].inbox \in Inboxes
  PROVE  OwnerInv'
<1>1. now' = now /\ caps' = caps /\ told' = told /\ lost' = lost
  OBVIOUS
<1>2. PICK i : i = req[r].inbox
  OBVIOUS
<1>3. inboxes' = [inboxes EXCEPT ![i].removed = TRUE]
  BY <1>2
<1>4. /\ Inboxes' = Inboxes
      /\ \A j \in Inboxes : Active(j)' => Active(j) /\ j # i
      /\ \A j \in Inboxes : inboxes'[j].account = inboxes[j].account
  BY <1>1, <1>3, Removes, Zenon
<1>5. ~Active(i)'
  BY <1>2, <1>4
<1>6. OwnOK(NoRequest, caps, told) /\ NoRequest.pc # "number"
  BY DEF OwnOK, NoRequest
<1>7. \A q \in Requests : OwnOK(req[q], caps, told)
  BY DEF OwnerInv
<1> QED
  BY <1>1, <1>2, <1>4, <1>5, <1>6, <1>7, Kept

LEMMA DeleteKeeps ==
  ASSUME AccessInv, OwnerInv, NEW r \in Requests, DeleteInbox(r)
  PROVE  OwnerInv'
<1>1. req[r].pc = "delete" /\ UNCHANGED <<now, caps, told, lost>> /\ ~Creating(r)
  BY DEF DeleteInbox, Creating
<1>2. RequestOK(req[r], inboxes, caps, now) /\ req[r].inbox \in Inboxes
  <2>1. RequestOK(req[r], inboxes, caps, now)
    BY DEF AccessInv
  <2>2. Within(req[r], Root(req[r]), caps)
    BY <1>1, <2>1, Zenon DEF RequestOK
  <2> QED
    BY <2>1, <2>2, Rows DEF Within, Caps
<1>3. CASE Active(req[r].inbox)
  <2>1. ~req[r].late
    BY <1>1, <1>3, ActiveNotLate
  <2>2. inboxes' = [inboxes EXCEPT ![req[r].inbox].removed = TRUE] /\ Reply(r, "ok")
    BY <1>3 DEF DeleteInbox
  <2>3. Become(r, NoRequest)
    BY <2>1, <2>2, Answer
  <2> QED
    BY <1>1, <1>2, <2>2, <2>3, RemovalKeeps, Zenon
<1>4. CASE ~Active(req[r].inbox)
  <2>1. Reply(r, "not_found") /\ UNCHANGED <<now, tables, told, lost>> /\ "not_found" # "ok"
    BY <1>1, <1>4 DEF DeleteInbox, tables
  <2> QED
    BY <1>1, <2>1, QuietAnswer
<1> QED
  BY <1>3, <1>4

\* The table after a rotation: one row revoked, one appended.
LEMMA CapsAfter ==
  ASSUME AccessInv, NEW c \in Caps, Replace(c)
  PROVE  /\ Len(caps) + 1 \notin Caps
         /\ Len(caps) + 1 \in DOMAIN caps' /\ caps'[Len(caps) + 1] = Successor(c)
         /\ Successor(c) \in CapRow /\ Successor(c).inbox = caps[c].inbox
         /\ ~Successor(c).revoked
         /\ \A d \in Caps : /\ caps'[d].inbox = caps[d].inbox
                            /\ d # c => (caps'[d].revoked <=> caps[d].revoked)
<1> DEFINE cp1 == [caps EXCEPT ![c].revoked = TRUE]
           row == Successor(c)
<1>0. row \in CapRow /\ row.inbox = caps[c].inbox /\ ~row.revoked
  <2>1. caps[c] \in CapRow /\ c \in Nat
    BY Rows
  <2>2. caps[c].inbox \in Nat /\ caps[c].expires \in Nat
    BY <2>1 DEF CapRow
  <2> QED
    BY <2>1, <2>2, Zenon DEF Successor, CapRow
<1>1. caps \in Seq(CapRow) /\ Len(caps) \in Nat /\ DOMAIN caps = 1 .. Len(caps)
  BY LenProperties DEF AccessInv, Tables
<1>2. \A d \in DOMAIN caps : caps[d] \in CapRow
  BY <1>1
<1>3. cp1 \in [1 .. Len(caps) -> CapRow]
  BY <1>1, <1>2, Zenon DEF CapRow
<1>4. \A d \in DOMAIN caps : /\ cp1[d].inbox = caps[d].inbox
                             /\ d # c => (cp1[d].revoked <=> caps[d].revoked)
  BY <1>2 DEF CapRow
<1>5. caps' = Append(cp1, row)
  BY DEF Replace
<1> HIDE DEF cp1, row
<1>6. cp1 \in Seq(CapRow) /\ DOMAIN cp1 = 1 .. Len(caps)
  BY <1>1, <1>3, SeqDef
<1>7. Len(cp1) = Len(caps)
  BY <1>1, <1>6, LenProperties
<1>8. /\ DOMAIN caps' = 1 .. Len(caps) + 1 /\ caps'[Len(caps) + 1] = row
      /\ \A d \in DOMAIN caps : caps'[d] = cp1[d]
  <2>1. /\ DOMAIN Append(cp1, row) = 1 .. Len(cp1) + 1 /\ Append(cp1, row)[Len(cp1) + 1] = row
        /\ \A d \in DOMAIN cp1 : Append(cp1, row)[d] = cp1[d]
    BY <1>0, <1>6, Appended
  <2>2. DOMAIN cp1 = DOMAIN caps
    BY <1>1, <1>6, Zenon
  <2> QED
    BY <1>5, <1>7, <2>1, <2>2, Zenon
<1> QED
  BY <1>1, <1>4, <1>8, <1>0 DEF Caps, row

\* A rotation revokes a key its owner has and hands out the successor, or records the loss.
LEMMA RotateKeeps ==
  ASSUME AccessInv, OwnerInv, NEW r \in Requests, Rotate(r) \/ RotateFails(r)
  PROVE  OwnerInv'
<1>1. req[r].pc = "rotate" /\ UNCHANGED <<now, inboxes>> /\ ~Creating(r)
  BY Zenon DEF Rotate, RotateFails, Creating
<1>2. /\ RequestOK(req[r], inboxes, caps, now) /\ OwnOK(req[r], caps, told) /\ ~req[r].late
      /\ req[r].cap \in told /\ req[r].cap \in Caps /\ req[r].inbox = caps[req[r].cap].inbox
  BY <1>1, Zenon DEF AccessInv, OwnerInv, OwnOK, RequestOK, Within, Root
<1>3. CASE caps' = caps /\ told' = told /\ lost' = lost
  <2>1. UNCHANGED <<now, tables, told, lost>>
    BY <1>1, <1>3, Zenon DEF tables
  <2>2. ASSUME NEW code, Reply(r, code) PROVE OwnerInv'
    BY <1>1, <1>2, <2>1, <2>2, QuietAnswer, Zenon
  <2> QED
    BY <2>2, Zenon DEF Rotate, RotateFails
<1>4. CASE /\ Replace(req[r].cap) /\ \E code : Reply(r, code)
           /\ \/ told' = told /\ lost' = lost \union {req[r].inbox}
              \/ told' = told \union {Len(caps) + 1} /\ lost' = lost
  <2> DEFINE c == req[r].cap
             n == Len(caps) + 1
  <2>1. /\ n \notin Caps /\ n \in DOMAIN caps' /\ caps'[n] = Successor(c)
        /\ Successor(c).inbox = caps[c].inbox /\ ~Successor(c).revoked
    BY <1>2, <1>4, CapsAfter, Zenon
  <2>2. \A d \in Caps : /\ caps'[d].inbox = caps[d].inbox
                        /\ d # c => (caps'[d].revoked <=> caps[d].revoked)
    BY <1>2, <1>4, CapsAfter, Zenon
  <2>3. /\ Become(r, NoRequest) /\ now' = now /\ inboxes' = inboxes
        /\ \/ told' = told /\ lost' = lost \union {req[r].inbox}
           \/ told' = told \union {n} /\ lost' = lost
    <3>1. Become(r, NoRequest)
      BY <1>2, <1>4, Answer, Zenon
    <3> QED
      BY <1>1, <1>4, <3>1, Zenon
  <2>4. /\ told \subseteq told' /\ lost \subseteq lost' /\ told \subseteq Caps
        /\ told' \subseteq told \union {n}
    BY <2>3 DEF AccessInv
  <2> HIDE DEF n
  <2>5. ASSUME NEW i, i = caps[c].inbox
        PROVE  Covered(i)'
    BY <1>2, <2>1, <2>2, <2>3, <2>5, Zenon DEF Covered
  <2>6. \A i \in Inboxes : Active(i)' => Active(i)
    BY <2>3 DEF Active
  <2>7. ASSUME NEW q \in Requests PROVE OwnOK(req[q], caps', told')
    <3>1. OwnOK(req[q], caps, told) /\ (req[q].pc = "number" => req[q].cap \in Caps)
      BY Zenon DEF OwnerInv, AccessInv, RequestOK, Within, Caps
    <3> QED
      BY <1>2, <2>1, <2>2, <2>4, <3>1, Zenon DEF OwnOK
  <2>8. OwnOK(NoRequest, caps', told') /\ NoRequest.pc # "number"
    BY DEF OwnOK, NoRequest
  <2>9. \A i \in Inboxes' : i \in Inboxes
    BY <2>3 DEF Inboxes
  <2>10. \A i : \A d \in told :
           i = caps[d].inbox /\ caps'[d].revoked => caps[d].revoked \/ Covered(i)'
    BY <2>2, <2>4, <2>5
  <2> QED
    BY <1>1, <2>2, <2>3, <2>4, <2>6, <2>7, <2>8, <2>9, <2>10, Kept, Zenon
<1> QED
  BY <1>3, <1>4, Zenon DEF Rotate, RotateFails

LEMMA EarlyKeeps ==
  ASSUME AccessInv, OwnerInv, NEW r \in Requests,
         Consume(r) \/ ConsumeFails(r) \/ FindAccount(r) \/ Hash(r) \/ HashCancelled(r) \/ Hashed(r)
  PROVE  OwnerInv'
<1>1. /\ UNCHANGED <<now, tables, told, lost>> /\ ~Creating(r)
      /\ req[r].pc \in {"consume", "find", "hash", "hashing"}
  BY Zenon DEF Consume, ConsumeFails, FindAccount, Hash, HashCancelled, Hashed, Creating
<1>2. req[r] \in Request /\ OwnOK(req[r], caps, told) /\ ~req[r].late
  BY <1>1, Zenon DEF AccessInv, RequestOK, OwnerInv
<1>3. ASSUME NEW s, Become(r, s), s.pc \in {"hash", "hashing", "insert", "issue"},
             s.api = req[r].api, s.op = req[r].op, s.pc = "insert" => req[r].op = "create"
      PROVE  OwnerInv'
  <2>1. OwnOK(s, caps, told) /\ s.pc # "number"
    BY <1>2, <1>3, Zenon DEF OwnOK
  <2> QED
    BY <1>1, <1>3, <2>1, Quiet, Zenon
<1>4. ASSUME NEW code, Reply(r, code)
      PROVE  OwnerInv'
  BY <1>1, <1>2, <1>4, QuietAnswer, Zenon
<1>5. ASSUME NEW pc \in {"hash", "hashing", "issue"}, Goto(r, pc)
      PROVE  OwnerInv'
  <2> DEFINE s == [req[r] EXCEPT !.pc = pc]
  <2>1. Become(r, s) /\ s.pc = pc /\ s.op = req[r].op /\ s.api = req[r].api
    BY <1>2, <1>5 DEF Request, Goto
  <2> HIDE DEF s
  <2> QED
    BY <1>3, <2>1, Zenon
<1>6. ASSUME NEW d, NEW e, NEW pc \in {"hash", "insert"}, req[r].op = "create",
             Become(r, [req[r] EXCEPT !.day = d, !.expires = e, !.pc = pc])
      PROVE  OwnerInv'
  <2> DEFINE s == [req[r] EXCEPT !.day = d, !.expires = e, !.pc = pc]
  <2>1. Become(r, s) /\ s.pc = pc /\ s.op = req[r].op /\ s.api = req[r].api
    BY <1>2, <1>6 DEF Request
  <2> HIDE DEF s
  <2> QED
    BY <1>3, <1>6, <2>1
<1>7. ASSUME NEW i, NEW e, Become(r, [req[r] EXCEPT !.pc = "hash", !.inbox = i, !.expires = e])
      PROVE  OwnerInv'
  <2> DEFINE s == [req[r] EXCEPT !.pc = "hash", !.inbox = i, !.expires = e]
  <2>1. Become(r, s) /\ s.pc = "hash" /\ s.op = req[r].op /\ s.api = req[r].api
    BY <1>2, <1>7 DEF Request
  <2> HIDE DEF s
  <2> QED
    BY <1>3, <2>1, Zenon
<1>8. ASSUME NEW e, req[r].op = "create", Become(r, [req[r] EXCEPT !.pc = "insert", !.expires = e])
      PROVE  OwnerInv'
  <2> DEFINE s == [req[r] EXCEPT !.pc = "insert", !.expires = e]
  <2>1. Become(r, s) /\ s.pc = "insert" /\ s.op = req[r].op /\ s.api = req[r].api
    BY <1>2, <1>8 DEF Request
  <2> HIDE DEF s
  <2> QED
    BY <1>3, <1>8, <2>1
<1>9. CASE Consume(r)
  <2>1. req[r].op = "create"
    BY <1>2, <1>9 DEF Consume, OwnOK
  <2>2. (IF req[r].api = "duckmail" THEN "hash" ELSE "insert") \in {"hash", "insert"}
    OBVIOUS
  <2> QED
    BY <1>4, <1>6, <1>9, <2>1, <2>2, Zenon DEF Consume
<1>10. CASE FindAccount(r)
  BY <1>5, <1>7, <1>10, Zenon DEF FindAccount
<1>11. CASE Hash(r) \/ HashCancelled(r) \/ ConsumeFails(r)
  BY <1>4, <1>5, <1>11, Zenon DEF Hash, HashCancelled, ConsumeFails
<1>12. CASE Hashed(r)
  BY <1>4, <1>5, <1>8, <1>12, Zenon DEF Hashed, AfterHash
<1> QED
  BY <1>9, <1>10, <1>11, <1>12

\* The new Inbox of a creation is the business of that creation, has a password, or its
\* answer is lost.
LEMMA InsertKeeps ==
  ASSUME AccessInv, OwnerInv, NEW r \in Requests, Insert(r) \/ InsertFails(r)
  PROVE  OwnerInv'
<1>1. /\ req[r].pc = "insert" /\ UNCHANGED <<now, caps, told>> /\ ~Creating(r)
      /\ caps' = caps /\ now' = now /\ told' = told
  BY DEF Insert, InsertFails, Creating
<1>2. req[r] \in Request /\ OwnOK(req[r], caps, told) /\ ~req[r].late /\ req[r].op = "create"
  BY <1>1, Zenon DEF AccessInv, RequestOK, OwnerInv, OwnOK
<1>3. ASSUME NEW code, Reply(r, code), inboxes' = inboxes, lost' = lost
      PROVE  OwnerInv'
  BY <1>1, <1>2, <1>3, QuietAnswer, Zenon DEF tables
<1>4. ASSUME NEW n, Become(r, [req[r] EXCEPT !.attempts = n]), inboxes' = inboxes, lost' = lost
      PROVE  OwnerInv'
  <2> DEFINE s == [req[r] EXCEPT !.attempts = n]
  <2>1. Become(r, s) /\ s.pc = "insert" /\ s.op = "create"
    BY <1>1, <1>2, <1>4 DEF Request
  <2> HIDE DEF s
  <2>2. OwnOK(s, caps, told) /\ s.pc # "number"
    BY <2>1 DEF OwnOK
  <2> QED
    BY <1>1, <1>4, <2>1, <2>2, Quiet DEF tables
<1>5. ASSUME NEW a \in Candidates(r), NEW s, inboxes' = Append(inboxes, NewInbox(r, a)),
             Become(r, s), lost \subseteq lost',
             \/ s = NoRequest /\ (req[r].api = "duckmail" \/ Len(inboxes) + 1 \in lost')
             \/ s.pc = "issue" /\ s.op = "create" /\ s.inbox = Len(inboxes) + 1
      PROVE  OwnerInv'
  <2>0. PICK n : n = Len(inboxes) + 1
    OBVIOUS
  <2>1. /\ inboxes'[n].account <=> req[r].api = "duckmail"
        /\ \A i \in Inboxes : inboxes'[i] = inboxes[i]
        /\ \A i \in Inboxes' : i \in Inboxes \/ i = n
    BY <1>1, <1>5, <2>0, Inserted, Zenon
  <2>2. req'[r] = s
    BY <1>5 DEF AccessInv, Become
  <2>3. Covered(n)'
    BY <1>5, <2>0, <2>1, <2>2, Zenon DEF Covered, Creating
  <2>4. \A i \in Inboxes : Active(i)' => Active(i)
    BY <1>1, <2>1, Zenon DEF Active
  <2>5. OwnOK(s, caps, told) /\ s.pc # "number"
    <3>1. s = NoRequest \/ (s.pc = "issue" /\ s.op = "create")
      BY <1>5, Zenon
    <3>2. OwnOK(NoRequest, caps, told) /\ NoRequest.pc # "number"
      BY DEF OwnOK, NoRequest
    <3>3. CASE s.pc = "issue" /\ s.op = "create"
      BY <3>3 DEF OwnOK
    <3> QED
      BY <3>1, <3>2, <3>3, Zenon
  <2>6. \A q \in Requests : OwnOK(req[q], caps, told)
    BY Zenon DEF OwnerInv
  <2>7. \A i \in Inboxes' : i \notin Inboxes => Covered(i)'
    BY <2>1, <2>3, Zenon
  <2> QED
    BY <1>1, <1>5, <2>1, <2>4, <2>5, <2>6, <2>7, Kept, Zenon
<1>6. ASSUME NEW a \in Candidates(r), inboxes' = Append(inboxes, NewInbox(r, a)),
             Become(r, [req[r] EXCEPT !.pc = "issue", !.inbox = Len(inboxes) + 1]), lost' = lost
      PROVE  OwnerInv'
  <2> DEFINE s == [req[r] EXCEPT !.pc = "issue", !.inbox = Len(inboxes) + 1]
  <2>1. Become(r, s) /\ s.pc = "issue" /\ s.op = "create" /\ s.inbox = Len(inboxes) + 1
    BY <1>2, <1>6 DEF Request
  <2> HIDE DEF s
  <2> QED
    BY <1>5, <1>6, <2>1
<1>7. ASSUME NEW a \in Candidates(r), inboxes' = Append(inboxes, NewInbox(r, a)),
             NEW code, Reply(r, code), lost \subseteq lost',
             req[r].api = "duckmail" \/ Len(inboxes) + 1 \in lost'
      PROVE  OwnerInv'
  <2>1. Become(r, NoRequest)
    BY <1>2, <1>7, Answer, Zenon
  <2> QED
    BY <1>5, <1>7, <2>1, Zenon
<1>8. CASE Insert(r)
  <2>1. lost' = lost
    BY <1>8 DEF Insert
  <2>2. PICK a \in Candidates(r) :
          \/ /\ inboxes' = inboxes
             /\ Become(r, [req[r] EXCEPT !.attempts = @ + 1]) \/ Reply(r, "conflict")
          \/ /\ inboxes' = Append(inboxes, NewInbox(r, a))
             /\ IF req[r].api = "duckmail" THEN Reply(r, "ok")
                ELSE Become(r, [req[r] EXCEPT !.pc = "issue", !.inbox = Len(inboxes) + 1])
    BY <1>8 DEF Insert
  <2> QED
    BY <1>3, <1>4, <1>6, <1>7, <2>1, <2>2, Zenon
<1>9. CASE InsertFails(r)
  BY <1>3, <1>7, <1>9 DEF InsertFails
<1> QED
  BY <1>8, <1>9

\* A capability is issued: its owner has it, or the creation goes on, or there is a
\* password.
LEMMA IssueKeeps ==
  ASSUME AccessInv, OwnerInv, NEW r \in Requests, Issue(r) \/ IssueFails(r)
  PROVE  OwnerInv'
<1>1. /\ req[r].pc = "issue" /\ inboxes' = inboxes /\ now' = now /\ lost' = lost
      /\ caps' = caps \/ caps' = Append(caps, NewCap(r))
      /\ told' = told \/ (told' = told \union {Len(caps) + 1} /\ caps' = Append(caps, NewCap(r)))
  BY DEF Issue, IssueFails
<1>2. req[r] \in Request /\ ~req[r].late
  BY <1>1, Zenon DEF AccessInv, RequestOK
<1> DEFINE n == Len(caps) + 1
<1>3. /\ n \notin Caps /\ \A c \in Caps : caps'[c] = caps[c]
      /\ caps' = Append(caps, NewCap(r)) => caps'[n] = NewCap(r)
  <2>1. Len(caps) \in Nat /\ DOMAIN caps = 1 .. Len(caps)
    BY LenProperties DEF AccessInv, Tables
  <2>2. n \notin Caps
    BY <2>1 DEF Caps
  <2>3. ASSUME caps' = Append(caps, NewCap(r))
        PROVE  caps'[n] = NewCap(r) /\ \A c \in Caps : caps'[c] = caps[c]
    BY <1>1, <2>3, Issued, Zenon
  <2> QED
    BY <1>1, <2>2, <2>3, Zenon
<1> HIDE DEF n
<1>4. told \subseteq Caps /\ told \subseteq told' /\ told' \subseteq told \union {n}
  BY <1>1 DEF AccessInv, n
<1>5. \A q \in Requests : OwnOK(req[q], caps', told') /\ (req[q].pc = "number" => req[q].cap # n)
  <2>1. \A q \in Requests : req[q].pc = "number" => req[q].cap \in Caps
    BY Zenon DEF AccessInv, RequestOK, Within, Caps
  <2> QED
    BY <1>3, <1>4, <2>1, Zenon DEF OwnerInv, OwnOK
<1>6. ASSUME NEW s, Become(r, s), OwnOK(s, caps', told'), s.pc = "number" => s.cap = n,
             \A i : Creating(r) /\ i = req[r].inbox => Covered(i)'
      PROVE  OwnerInv'
  <2>1. \A i : Active(i)' => Active(i)
    BY <1>1 DEF Active
  <2>2. Inboxes' = Inboxes
    BY <1>1 DEF Inboxes
  <2>3. \A i \in Inboxes : inboxes'[i].account = inboxes[i].account
    BY <1>1
  <2>4. \A i \in Inboxes' : i \notin Inboxes => Covered(i)'
    BY <2>2
  <2>5. \A c \in told : caps'[c].inbox = caps[c].inbox /\ caps'[c].revoked = caps[c].revoked
    BY <1>3, <1>4, Zenon
  <2>6. \A i : \A c \in told :
          i = caps[c].inbox /\ caps'[c].revoked => caps[c].revoked \/ Covered(i)'
    BY <2>5
  <2>7. \A i : Creating(r) /\ i = req[r].inbox /\ Active(i)' => Covered(i)'
    BY <1>6
  <2>8. \A q \in Requests : q # r /\ s.pc = "number" /\ req[q].pc = "number" => req[q].cap # s.cap
    BY <1>5, <1>6
  <2>9. told \subseteq told' /\ lost \subseteq lost'
    BY <1>1, <1>4
  <2>10. \A i \in Inboxes : Active(i)' => Active(i)
    BY <2>1, Zenon
  <2>11. \A c \in told : caps'[c].inbox = caps[c].inbox
    BY <2>5, Zenon
  <2>12. \A q \in Requests : q # r => OwnOK(req[q], caps', told')
    BY <1>5, Zenon
  <2> QED
    BY <1>6, <2>3, <2>4, <2>6, <2>7, <2>8, <2>9, <2>10, <2>11, <2>12, Kept, Zenon
<1>7. CASE Reply(r, "ok") /\ told' = told \union {n} /\ caps' = Append(caps, NewCap(r))
  <2>1. Become(r, NoRequest)
    BY <1>2, <1>7, Answer
  <2>2. OwnOK(NoRequest, caps', told') /\ NoRequest.pc # "number"
    BY DEF OwnOK, NoRequest
  <2>3. NewCap(r).inbox = req[r].inbox /\ ~NewCap(r).revoked
    BY Zenon DEF NewCap
  <2>4. \A i : i = req[r].inbox => Covered(i)'
    BY <1>3, <1>7, <2>3, Zenon DEF Covered
  <2> QED
    BY <1>6, <2>1, <2>2, <2>4
<1>8. CASE Reply(r, "error") /\ req[r].op # "create"
  <2>1. Become(r, NoRequest)
    BY <1>2, <1>8, Answer
  <2>2. OwnOK(NoRequest, caps', told') /\ NoRequest.pc # "number"
    BY DEF OwnOK, NoRequest
  <2> QED
    BY <1>6, <1>8, <2>1, <2>2 DEF Creating
<1>9. ASSUME NEW s, Become(r, s), s.pc \in {"number", "compensate"}, s.inbox = req[r].inbox,
             s.op = "create", OwnOK(s, caps', told'), s.pc = "number" => s.cap = n
      PROVE  OwnerInv'
  <2>1. req'[r] = s
    BY <1>9 DEF AccessInv, Become
  <2>2. \A i : i = req[r].inbox => Covered(i)'
    BY <1>9, <2>1 DEF Covered, Creating
  <2> QED
    BY <1>6, <1>9, <2>2, Zenon
<1>10. CASE Goto(r, "compensate") /\ req[r].op = "create"
  <2> DEFINE s == [req[r] EXCEPT !.pc = "compensate"]
  <2>1. Become(r, s) /\ s.pc = "compensate" /\ s.op = "create" /\ s.inbox = req[r].inbox
    BY <1>2, <1>10 DEF Request, Goto
  <2> HIDE DEF s
  <2>2. OwnOK(s, caps', told')
    BY <2>1 DEF OwnOK
  <2> QED
    BY <1>9, <2>1, <2>2
<1>11. CASE /\ Become(r, [req[r] EXCEPT !.pc = "number", !.cap = Len(caps) + 1])
            /\ req[r].api = "cloudflare" /\ told' = told /\ caps' = Append(caps, NewCap(r))
  <2> DEFINE s == [req[r] EXCEPT !.pc = "number", !.cap = Len(caps) + 1]
  <2>1. /\ Become(r, s) /\ s.pc = "number" /\ s.op = req[r].op /\ s.inbox = req[r].inbox
        /\ s.cap = n
    BY <1>2, <1>11 DEF Request, n
  <2> HIDE DEF s
  <2>2. req[r].op = "create"
    BY <1>11 DEF OwnerInv, OwnOK
  <2>3. ~NewCap(r).revoked
    BY Zenon DEF NewCap
  <2>4. OwnOK(s, caps', told')
    BY <1>3, <1>4, <1>11, <2>1, <2>2, <2>3, Zenon DEF OwnOK
  <2> QED
    BY <1>9, <2>1, <2>2, <2>4, Zenon
<1> QED
  BY <1>7, <1>8, <1>10, <1>11 DEF Issue, IssueFails, IssueFailed, n

\* The end of a creation: it succeeds and its key is out, the Inbox is taken back, or
\* the compensation fails.
LEMMA LateKeeps ==
  ASSUME AccessInv, OwnerInv, NEW r \in Requests,
         Number(r) \/ NumberFails(r) \/ Compensate(r) \/ CompensateFails(r)
  PROVE  OwnerInv'
<1>1. /\ UNCHANGED <<now, caps>> /\ req[r].pc \in {"number", "compensate"}
      /\ caps' = caps /\ now' = now
  BY DEF Number, NumberFails, Compensate, CompensateFails, tables
<1>2. /\ req[r] \in Request /\ OwnOK(req[r], caps, told) /\ ~req[r].late /\ req[r].op = "create"
      /\ req[r].inbox \in Inboxes
      /\ req[r].pc = "number" => req[r].cap \in Caps /\ caps[req[r].cap].inbox = req[r].inbox
  BY <1>1, Zenon DEF AccessInv, RequestOK, Within, OwnerInv, OwnOK, Inboxes, Caps
<1>3. \A q \in Requests : OwnOK(req[q], caps, told)
  BY Zenon DEF OwnerInv
<1>4. OwnOK(NoRequest, caps', told') /\ NoRequest.pc # "number"
  BY Zenon DEF OwnOK, NoRequest
<1>5. CASE Goto(r, "compensate") /\ UNCHANGED <<tables, told, lost>>
  <2> DEFINE s == [req[r] EXCEPT !.pc = "compensate"]
  <2>1. Become(r, s) /\ s.pc = "compensate" /\ s.op = "create" /\ s.inbox = req[r].inbox
    BY <1>2, <1>5 DEF Request, Goto
  <2> HIDE DEF s
  <2>2. OwnOK(s, caps, told)
    BY <2>1 DEF OwnOK
  <2> QED
    BY <1>1, <1>5, <2>1, <2>2, Quiet, Zenon
<1>6. ASSUME NEW code, Reply(r, code), inboxes' = inboxes, told \subseteq told', lost \subseteq lost',
             \A q \in Requests : q # r => OwnOK(req[q], caps', told'),
             \A i : i = req[r].inbox => Covered(i)'
      PROVE  OwnerInv'
  <2>1. Become(r, NoRequest)
    BY <1>2, <1>6, Answer, Zenon
  <2>2. \A i : Active(i)' => Active(i)
    BY <1>1, <1>6, Zenon DEF Active
  <2>3. Inboxes' = Inboxes
    BY <1>6 DEF Inboxes
  <2> QED
    BY <1>1, <1>4, <1>6, <2>1, <2>2, <2>3, Kept, Zenon
<1>7. CASE Number(r) /\ ~inboxes[req[r].inbox].removed
  <2>1. /\ req[r].pc = "number" /\ told' = told \union {req[r].cap} /\ lost' = lost
        /\ inboxes' = inboxes /\ Reply(r, "ok")
    BY <1>7, Zenon DEF Number, tables
  <2>2. ~caps[req[r].cap].revoked
    BY <1>2, <2>1, Zenon DEF OwnOK
  <2>3. \A i : i = req[r].inbox => Covered(i)'
    BY <1>1, <1>2, <2>1, <2>2, Zenon DEF Covered
  <2>4. \A q \in Requests : q # r => OwnOK(req[q], caps', told')
    BY <1>1, <1>3, <2>1, Zenon DEF OwnOK, OwnerInv
  <2> QED
    BY <1>6, <2>1, <2>3, <2>4, Zenon
<1>8. CASE CompensateFails(r)
  <2>1. /\ lost' = lost \union {req[r].inbox} /\ told' = told /\ inboxes' = inboxes
        /\ Reply(r, "error")
    BY <1>8, Zenon DEF CompensateFails, tables
  <2>2. \A i : i = req[r].inbox => Covered(i)'
    BY <2>1 DEF Covered
  <2> QED
    BY <1>1, <1>3, <1>6, <2>1, <2>2, Zenon
<1>9. CASE Compensate(r) /\ Active(req[r].inbox)
  <2>1. /\ inboxes' = [inboxes EXCEPT ![req[r].inbox].removed = TRUE]
        /\ UNCHANGED <<now, caps, told, lost>> /\ Reply(r, "error")
    BY <1>9 DEF Compensate
  <2>2. Become(r, NoRequest)
    BY <1>2, <2>1, Answer
  <2> QED
    BY <1>2, <2>1, <2>2, RemovalKeeps, Zenon
<1>10. CASE Compensate(r) /\ ~Active(req[r].inbox)
  <2>1. UNCHANGED <<now, tables, told, lost>> /\ Reply(r, "error") /\ "error" # "ok"
    BY <1>10 DEF Compensate, tables
  <2> QED
    BY <1>10, <2>1, QuietAnswer
<1>11. CASE Number(r) /\ inboxes[req[r].inbox].removed
  BY <1>5, <1>11, Zenon DEF Number
<1>12. CASE NumberFails(r)
  BY <1>5, <1>12, Zenon DEF NumberFails
<1> QED
  BY <1>7, <1>8, <1>9, <1>10, <1>11, <1>12, Zenon

\* Time and the sweeper end Inboxes; a crash loses the creations that were at work.
LEMMA OtherKeeps ==
  ASSUME AccessInv, OwnerInv, Tick \/ Sweep \/ Crash \/ UNCHANGED vars
  PROVE  OwnerInv'
<1>1. caps' = caps /\ told' = told /\ lost \subseteq lost'
  BY DEF Tick, Sweep, SweepInbox, Crash, vars, credVars, tables
<1>2. /\ Inboxes' = Inboxes
      /\ \A i \in Inboxes : Active(i)' => Active(i)
      /\ \A i \in Inboxes : inboxes'[i].account = inboxes[i].account
  <2>1. ASSUME NEW i, inboxes' = [inboxes EXCEPT ![i].removed = TRUE], now' = now
        PROVE  <1>2!1 /\ <1>2!2 /\ <1>2!3
    BY <2>1, Removes, Zenon
  <2>2. CASE inboxes' = inboxes /\ (now' = now \/ now' = now + 1)
    <3>1. now \in Nat /\ \A i \in Inboxes : inboxes[i].expires \in Nat
      BY Rows DEF AccessInv, InboxRow
    <3> QED
      BY <2>2, <3>1 DEF Active, Inboxes
  <2> QED
    BY <2>1, <2>2 DEF Tick, Sweep, SweepInbox, Crash, vars, credVars, tables
<1>3. \A r \in Requests :
        \/ req'[r] = req[r]
        \/ req'[r] = NoRequest /\ (Creating(r) => req[r].inbox \in lost')
  BY DEF AccessInv, Tick, Sweep, SweepInbox, Crash, vars, credVars
<1>4. ASSUME NEW i \in Inboxes, Active(i)'
      PROVE  Covered(i)'
  <2>1. Covered(i)
    BY <1>2, <1>4 DEF OwnerInv
  <2>2. ASSUME NEW r \in Requests, req[r].inbox = i, Creating(r)
        PROVE  Covered(i)'
    BY <1>3, <2>2 DEF Covered, Creating
  <2> QED
    BY <1>1, <1>2, <2>1, <2>2, Zenon DEF Covered
<1>5. OwnOK(NoRequest, caps, told) /\ NoRequest.pc # "number"
  BY Zenon DEF OwnOK, NoRequest
<1>6. \A r \in Requests : OwnOK(req'[r], caps', told')
  BY <1>1, <1>3, <1>5, Zenon DEF OwnerInv
<1>7. \A q, r \in Requests :
        q # r /\ req'[q].pc = "number" /\ req'[r].pc = "number" => req'[q].cap # req'[r].cap
  BY <1>3, <1>5, Zenon DEF OwnerInv
<1> QED
  BY <1>2, <1>4, <1>6, <1>7, Zenon DEF OwnerInv

-----------------------------------------------------------------------------
LEMMA OwnerInit == Init => OwnerInv
<1> SUFFICES ASSUME Init PROVE OwnerInv
  OBVIOUS
<1>1. req = [r \in Requests |-> NoRequest]
  BY DEF Init
<1>2. OwnOK(NoRequest, caps, told) /\ NoRequest.pc # "number"
  BY DEF OwnOK, NoRequest
<1>3. ASSUME NEW i \in Inboxes PROVE Covered(i)
  <2>1. CASE inboxes = <<>>
    BY <2>1 DEF Inboxes
  <2>2. CASE \E row : inboxes = <<row>>
             /\ caps = <<[inbox |-> 1, expires |-> Lifetime, revoked |-> FALSE, from |-> 0]>>
             /\ told = {1}
    <3> DEFINE c == [inbox |-> 1, expires |-> Lifetime, revoked |-> FALSE, from |-> 0]
    <3>1. c.inbox = 1 /\ ~c.revoked
      BY Zenon
    <3>2. caps = <<c>>
      BY <2>2
    <3> HIDE DEF c
    <3>3. i = 1 /\ caps[1] = c /\ 1 \in told
      BY <2>2, <3>2 DEF Inboxes
    <3> QED
      BY <3>1, <3>3 DEF Covered
  <2> QED
    BY <2>1, <2>2 DEF Init
<1> QED
  BY <1>1, <1>2, <1>3 DEF OwnerInv

LEMMA OwnerNext == AccessInv /\ OwnerInv /\ [Next]_vars => OwnerInv'
<1> SUFFICES ASSUME AccessInv, OwnerInv, [Next]_vars PROVE OwnerInv'
  OBVIOUS
<1>1. ASSUME NEW r \in Requests, Start(r) \/ Step(r) \/ Failure(r)
      PROVE  OwnerInv'
  <2>1. Step(r) => OwnerInv'
    BY CallKeeps, DeleteKeeps, RotateKeeps, EarlyKeeps, InsertKeeps, IssueKeeps, LateKeeps
    DEF Step, CredStep
  <2>2. Failure(r) => OwnerInv'
    BY RotateKeeps, EarlyKeeps, InsertKeeps, IssueKeeps, LateKeeps DEF Failure
  <2> QED
    BY <1>1, <2>1, <2>2, StartKeeps
<1> QED
  BY <1>1, OtherKeeps DEF Next

\* An active Inbox has somebody who can open it, whatever requests are under way and
\* whichever of them fail: the compensation of mailbox.Create, the atomic rotation and
\* the DuckMail password leave none without, but for a failed call or a lost answer.
THEOREM AccessIsKept == Spec => []OwnerKeepsAccess
<1>1. AccessInv /\ OwnerInv => OwnerKeepsAccess
  <2> SUFFICES ASSUME AccessInv, OwnerInv, NEW i \in Inboxes, Active(i),
                      ~inboxes[i].account, i \notin lost,
                      ~\E r \in Requests : req[r].inbox = i /\ Creating(r)
               PROVE  \E c \in told : caps[c].inbox = i /\ Live(c)
    BY DEF OwnerKeepsAccess
  <2>1. PICK c \in told : caps[c].inbox = i /\ ~caps[c].revoked
    BY DEF OwnerInv, Covered
  <2>2. caps[c].expires = inboxes[i].expires
    BY <2>1 DEF AccessInv, Tables, CapOK, Caps
  <2> QED
    BY <2>1, <2>2, Zenon DEF Live, Active
<1>2. Spec => []OwnerInv
  BY OwnerInit, OwnerNext, AccessAlways, PTL DEF Spec
<1> QED
  BY <1>1, <1>2, AccessAlways, PTL

-----------------------------------------------------------------------------
(* The daily quota.                                                        *)

\* A request that was admitted and has not created its Inbox yet.
Paying(s) == s.pc = "insert" \/ (s.pc \in {"hash", "hashing"} /\ s.op = "create")

Made(d) == {i \in Inboxes : inboxes[i].day = d}
Paid(d) == {r \in Requests : Paying(req[r]) /\ req[r].day = d}

\* Inboxes made with a day's quota and requests that may still make one are within the
\* limit, and within the day's counter as long as the day is not over.
DayOK(d) ==
  /\ IsFiniteSet(Made(d)) /\ IsFiniteSet(Paid(d))
  /\ Cardinality(Made(d)) + Cardinality(Paid(d)) <= DailyLimit
  /\ d >= now => Cardinality(Made(d)) + Cardinality(Paid(d)) <= used[d]

\* The inductive invariant of the quota.  A login takes no part in it.
QuotaInv ==
  /\ now \in Days
  /\ used \in [Days -> 0 .. DailyLimit]
  /\ \A r \in Requests : req[r].pc = "find" => req[r].op # "create"
  /\ \A d \in Days : DayOK(d)

\* A request ends or goes on with what it has paid.
GoesUnpaid(r, s) ==
  /\ Become(r, s)
  /\ Paying(s) => Paying(req[r]) /\ s.day = req[r].day
  /\ s.pc = "find" => s.op # "create"

LEMMA UnpaidKeeps ==
  ASSUME AccessInv, QuotaInv, NEW r \in Requests, NEW s, GoesUnpaid(r, s)
  PROVE  /\ \A d : Paid(d)' \subseteq Paid(d)
         /\ \A q \in Requests : req'[q].pc = "find" => req'[q].op # "create"
<1>1. req'[r] = s /\ \A q \in Requests : q # r => req'[q] = req[q]
  BY DEF AccessInv, Become, GoesUnpaid
<1>2. \A q \in Requests : Paying(req'[q]) => Paying(req[q]) /\ req'[q].day = req[q].day
  BY <1>1, Zenon DEF GoesUnpaid
<1>3. \A q \in Requests : req'[q].pc = "find" => req'[q].op # "create"
  BY <1>1, Zenon DEF GoesUnpaid, QuotaInv
<1> QED
  BY <1>2, <1>3, Zenon DEF Paid

\* Removing an Inbox leaves it counted.
LEMMA RemovalCounts ==
  ASSUME AccessInv,
         inboxes' = inboxes \/ \E i : inboxes' = [inboxes EXCEPT ![i].removed = TRUE]
  PROVE  \A d : Made(d)' = Made(d)
<1>1. \A j \in Inboxes : inboxes[j] \in InboxRow
  BY Rows
<1>2. Inboxes' = Inboxes /\ \A j \in Inboxes : inboxes'[j].day = inboxes[j].day
  <2>1. CASE inboxes' = inboxes
    BY <2>1 DEF Inboxes
  <2>2. ASSUME NEW i, inboxes' = [inboxes EXCEPT ![i].removed = TRUE]
        PROVE  <1>2!1 /\ <1>2!2
    BY <1>1, <2>2 DEF InboxRow, Inboxes
  <2> QED
    BY <2>1, <2>2
<1> QED
  BY <1>2, Zenon DEF Made

LEMMA OneMore ==
  ASSUME NEW S, NEW x, IsFiniteSet(S)
  PROVE  /\ IsFiniteSet(S \union {x}) /\ Cardinality(S \union {x}) \in Nat
         /\ Cardinality(S \union {x}) <= Cardinality(S) + 1
<1>1. /\ IsFiniteSet(S \union {x})
      /\ Cardinality(S \union {x}) = IF x \in S THEN Cardinality(S) ELSE Cardinality(S) + 1
  BY FS_AddElement, Zenon
<1>2. Cardinality(S) \in Nat
  BY FS_CardinalityType
<1> QED
  BY <1>1, <1>2

LEMMA Fewer ==
  ASSUME NEW T, NEW T2, IsFiniteSet(T), T2 \subseteq T
  PROVE  /\ IsFiniteSet(T2) /\ Cardinality(T2) \in Nat /\ Cardinality(T) \in Nat
         /\ Cardinality(T2) <= Cardinality(T)
<1>1. T2 \in SUBSET T
  OBVIOUS
<1>2. IsFiniteSet(T2) /\ Cardinality(T2) <= Cardinality(T)
  BY <1>1, FS_Subset, Zenon
<1> QED
  BY <1>2, FS_CardinalityType, Zenon

LEMMA OneLess ==
  ASSUME NEW T, NEW T2, NEW y \in T, IsFiniteSet(T), T2 \subseteq T \ {y}
  PROVE  /\ IsFiniteSet(T2) /\ Cardinality(T2) \in Nat /\ Cardinality(T) \in Nat
         /\ Cardinality(T2) + 1 <= Cardinality(T)
<1>1. IsFiniteSet(T \ {y}) /\ Cardinality(T \ {y}) = Cardinality(T) - 1
  BY FS_RemoveElement
<1>2. /\ IsFiniteSet(T2) /\ Cardinality(T2) \in Nat /\ Cardinality(T \ {y}) \in Nat
      /\ Cardinality(T2) <= Cardinality(T \ {y})
  BY <1>1, Fewer, Zenon
<1>3. Cardinality(T) \in Nat
  BY FS_CardinalityType
<1> QED
  BY <1>1, <1>2, <1>3

\* No counter that counts falls, and the clock does not go back.
Onward ==
  /\ now' \in Days /\ now <= now'
  /\ used' \in [Days -> 0 .. DailyLimit]
  /\ \A d \in Days : d >= now' => used'[d] >= used[d]
  /\ \A q \in Requests : req'[q].pc = "find" => req'[q].op # "create"

\* A day without a new admission.
LEMMA DayKept ==
  ASSUME QuotaInv, Onward, NEW d \in Days, NEW r, NEW i,
         \/ Made(d)' = Made(d) /\ Paid(d)' \subseteq Paid(d)
         \/ /\ Made(d)' = Made(d) \union {i} /\ i \notin Made(d)
            /\ Paid(d)' \subseteq Paid(d) \ {r} /\ r \in Paid(d)
  PROVE  DayOK(d)'
<1> DEFINE S == Made(d)
           T == Paid(d)
           S2 == Made(d)'
           T2 == Paid(d)'
<1>1. IsFiniteSet(S) /\ IsFiniteSet(T)
  BY DEF QuotaInv, DayOK
<1>2. /\ IsFiniteSet(S2) /\ IsFiniteSet(T2)
      /\ Cardinality(S2) \in Nat /\ Cardinality(T2) \in Nat
      /\ Cardinality(S) \in Nat /\ Cardinality(T) \in Nat
      /\ Cardinality(S2) + Cardinality(T2) <= Cardinality(S) + Cardinality(T)
  <2>1. CASE S2 = S /\ T2 \subseteq T
    <3> HIDE DEF S, T, S2, T2
    <3>1. IsFiniteSet(T2) /\ Cardinality(T2) \in Nat /\ Cardinality(T2) <= Cardinality(T)
      BY <1>1, <2>1, Fewer, Zenon
    <3>2. Cardinality(S) \in Nat /\ Cardinality(T) \in Nat
      BY <1>1, FS_CardinalityType, Zenon
    <3> QED
      BY <1>1, <2>1, <3>1, <3>2
  <2>2. CASE S2 = S \union {i} /\ T2 \subseteq T \ {r} /\ r \in T
    <3> HIDE DEF S, T, S2, T2
    <3>1. /\ IsFiniteSet(T2) /\ Cardinality(T2) \in Nat /\ Cardinality(T) \in Nat
          /\ Cardinality(T2) + 1 <= Cardinality(T)
      BY <1>1, <2>2, OneLess, Zenon
    <3>2. /\ IsFiniteSet(S2) /\ Cardinality(S2) \in Nat /\ Cardinality(S2) <= Cardinality(S) + 1
      BY <1>1, <2>2, OneMore, Zenon
    <3>3. Cardinality(S) \in Nat
      BY <1>1, FS_CardinalityType, Zenon
    <3> QED
      BY <3>1, <3>2, <3>3
  <2> QED
    BY <2>1, <2>2, Zenon
<1>3. /\ Cardinality(S) + Cardinality(T) <= DailyLimit
      /\ d >= now => Cardinality(S) + Cardinality(T) <= used[d]
      /\ now \in Nat /\ now' \in Nat /\ d \in Nat /\ DailyLimit \in Nat
      /\ used[d] \in Nat /\ used'[d] \in Nat
  <2>1. DailyLimit \in Nat /\ Days \subseteq Nat
    BY CreationAssumption, CredentialsAssumption DEF Days
  <2>2. DayOK(d) /\ now \in Days /\ now' \in Days /\ used[d] \in 0 .. DailyLimit /\ used'[d] \in 0 .. DailyLimit
    BY Zenon DEF QuotaInv, Onward
  <2>3. /\ Cardinality(S) + Cardinality(T) <= DailyLimit
        /\ d >= now => Cardinality(S) + Cardinality(T) <= used[d]
    BY <2>2, Zenon DEF DayOK
  <2>4. used[d] \in Nat /\ used'[d] \in Nat
    BY <2>1, <2>2
  <2> QED
    BY <2>1, <2>2, <2>3, <2>4, Zenon
<1>4. now <= now' /\ (d >= now' => used'[d] >= used[d])
  BY DEF Onward
<1> HIDE DEF S, T, S2, T2
<1>5. /\ Cardinality(S2) + Cardinality(T2) <= DailyLimit
      /\ d >= now' => Cardinality(S2) + Cardinality(T2) <= used'[d]
  BY <1>2, <1>3, <1>4
<1> QED
  BY <1>2, <1>5, Zenon DEF DayOK, S, T, S2, T2

\* A step of request r that admits nobody and creates nothing.
LEMMA QuotaCalm ==
  ASSUME AccessInv, QuotaInv, NEW r \in Requests, NEW s, GoesUnpaid(r, s),
         UNCHANGED <<now, used>>,
         inboxes' = inboxes \/ \E i : inboxes' = [inboxes EXCEPT ![i].removed = TRUE]
  PROVE  QuotaInv'
<1>1. Onward
  <2>1. now \in Days /\ used \in [Days -> 0 .. DailyLimit]
    BY DEF QuotaInv
  <2>2. now \in Int /\ \A d \in Days : used[d] \in Int
    BY <2>1, CreationAssumption DEF Days
  <2> QED
    BY <2>1, <2>2, UnpaidKeeps DEF Onward
<1>2. \A d \in Days : Made(d)' = Made(d) /\ Paid(d)' \subseteq Paid(d)
  BY UnpaidKeeps, RemovalCounts, Zenon
<1>3. \A d \in Days : DayOK(d)'
  BY <1>1, <1>2, DayKept, Zenon
<1> QED
  BY <1>1, <1>3, Zenon DEF QuotaInv, Onward, Days

\* An answer pays for nothing.
LEMMA AnswerUnpaid ==
  ASSUME NEW r, NEW code, Reply(r, code)
  PROVE  \E s : GoesUnpaid(r, s)
<1> DEFINE s == [NoRequest EXCEPT !.late = req[r].late /\ code = "ok"]
<1>1. NoRequest \in Request /\ NoRequest.pc = "done"
  BY Idle, Zenon DEF RequestOK, NoRequest
<1>2. s.pc = "done" /\ Become(r, s)
  BY <1>1 DEF Request, Reply
<1> HIDE DEF s
<1> QED
  BY <1>2 DEF GoesUnpaid, Paying

\* Nor does a step to a point of the handler before the admission or after the insert.
LEMMA GotoUnpaid ==
  ASSUME NEW r, req[r] \in Request, NEW pc, Goto(r, pc),
         pc \in {"seal", "get", "list", "delete", "resolve", "rotate", "issue", "compensate"}
  PROVE  \E s : GoesUnpaid(r, s)
<1> DEFINE s == [req[r] EXCEPT !.pc = pc]
<1>1. s.pc = pc /\ Become(r, s)
  BY DEF Request, Goto
<1> HIDE DEF s
<1> QED
  BY <1>1 DEF GoesUnpaid, Paying

\* A request that starts has not been admitted.
LEMMA StartUnpaid ==
  ASSUME NEW r \in Requests, Start(r)
  PROVE  \E s : GoesUnpaid(r, s)
<1>1. NoRequest \in Request
  BY Idle, Zenon DEF RequestOK
<1>2. ASSUME NEW s, Become(r, s), s.pc \in {"auth", "seal", "get", "list", "delete", "consume"}
      PROVE  GoesUnpaid(r, s)
  BY <1>2 DEF GoesUnpaid, Paying
<1>3. CASE PresentCap(r)
  <2>1. PICK c \in told, op \in Ops : Become(r, WithCap(c, op))
    BY <1>3, CapArrives
  <2>2. WithCap(c, op).pc = "auth"
    BY <1>1 DEF WithCap, Request
  <2> QED
    BY <1>2, <2>1, <2>2
<1>4. CASE PresentCookie(r)
  <2>1. PICK k \in cookies, op \in SessionOps :
          \/ Become(r, WithCookie(k, op))
          \/ \E code : code # "ok" /\ Reply(r, code)
    BY <1>4, CookieArrives
  <2>2. WithCookie(k, op).pc = FirstStep(op)
    BY <1>1 DEF WithCookie, Request
  <2> QED
    BY <1>2, <2>1, <2>2, FirstSteps, AnswerUnpaid
<1>5. CASE Ask(r)
  <2>1. \A api, a : Create(api, a).pc = "consume"
    BY <1>1 DEF Create, Request
  <2>2. ASSUME NEW a, Become(r, [NoRequest EXCEPT !.pc = "find", !.op = "login", !.address = a])
        PROVE  \E s : GoesUnpaid(r, s)
    <3> DEFINE s == [NoRequest EXCEPT !.pc = "find", !.op = "login", !.address = a]
    <3>1. Become(r, s) /\ s.pc = "find" /\ s.op = "login"
      BY <1>1, <2>2 DEF Request
    <3> HIDE DEF s
    <3> QED
      BY <3>1 DEF GoesUnpaid, Paying
  <2>3. ASSUME NEW api, NEW a, Become(r, Create(api, a))
        PROVE  \E s : GoesUnpaid(r, s)
    BY <1>2, <2>1, <2>3
  <2>4. CASE Reply(r, "bad_request") \/ Reply(r, "rate_limited")
    BY <2>4, AnswerUnpaid
  <2> QED
    BY <1>5, <2>2, <2>3, <2>4, Zenon
    DEF Ask, Admitted, CanonicalCreate, YydsCreate, CloudflareCreate, DuckMailCreate, DuckMailToken
<1> QED
  BY <1>3, <1>4, <1>5, Zenon DEF Start, Present

\* Calls with a credential and the steps around the hash and after the insert.
LEMMA StepUnpaid ==
  ASSUME AccessInv, QuotaInv, NEW r \in Requests,
         \/ CredStep(r) \/ RotateFails(r) \/ FindAccount(r) \/ Hash(r) \/ HashCancelled(r)
         \/ Hashed(r) \/ Issue(r) \/ IssueFails(r) \/ Number(r) \/ NumberFails(r)
         \/ Compensate(r) \/ CompensateFails(r)
  PROVE  \E s : GoesUnpaid(r, s)
<1>1. req[r] \in Request
  BY Zenon DEF AccessInv, RequestOK
<1>2. CASE CredStep(r) \/ RotateFails(r)
  <2>1. ASSUME NEW k, Become(r, [req[r] EXCEPT !.pc = "get", !.cookie = k])
        PROVE  \E s : GoesUnpaid(r, s)
    <3> DEFINE s == [req[r] EXCEPT !.pc = "get", !.cookie = k]
    <3>1. Become(r, s) /\ s.pc = "get"
      BY <1>1, <2>1 DEF Request
    <3> HIDE DEF s
    <3> QED
      BY <3>1, Zenon DEF GoesUnpaid, Paying
  <2>2. CASE Seal(r)
    BY <2>1, <2>2, AnswerUnpaid, Zenon DEF Seal
  <2>3. CASE Get(r) \/ Mismatch(r) \/ Resolve(r)
    BY <1>1, <2>3, AnswerUnpaid, GotoUnpaid DEF Get, AfterGet, Mismatch, Resolve
  <2>5. CASE Authenticate(r) \/ List(r)
    <3>1. FirstStep(req[r].op) \in {"seal", "get", "list", "delete"}
      BY FirstSteps, Zenon
    <3> QED
      BY <1>1, <2>5, <3>1, AnswerUnpaid, GotoUnpaid, Zenon DEF Authenticate, List
  <2>4. CASE DeleteInbox(r) \/ Rotate(r) \/ RotateFails(r)
    BY <2>4, AnswerUnpaid, Zenon DEF DeleteInbox, Rotate, RotateFails
  <2> QED
    BY <1>2, <2>2, <2>3, <2>4, <2>5 DEF CredStep
<1>3. CASE FindAccount(r)
  <2>1. req[r].op # "create"
    BY <1>3, Zenon DEF QuotaInv, FindAccount
  <2>2. ASSUME NEW i, Become(r, [req[r] EXCEPT !.pc = "hash", !.inbox = i, !.expires = inboxes[i].expires])
        PROVE  \E s : GoesUnpaid(r, s)
    <3> DEFINE s == [req[r] EXCEPT !.pc = "hash", !.inbox = i, !.expires = inboxes[i].expires]
    <3>1. Become(r, s) /\ s.pc = "hash" /\ s.op = req[r].op
      BY <1>1, <2>2 DEF Request
    <3> HIDE DEF s
    <3> QED
      BY <2>1, <3>1, Zenon DEF GoesUnpaid, Paying
  <2>3. ASSUME Goto(r, "hash")
        PROVE  \E s : GoesUnpaid(r, s)
    <3> DEFINE s == [req[r] EXCEPT !.pc = "hash"]
    <3>1. Become(r, s) /\ s.pc = "hash" /\ s.op = req[r].op
      BY <1>1, <2>3 DEF Request, Goto
    <3> HIDE DEF s
    <3> QED
      BY <2>1, <3>1, Zenon DEF GoesUnpaid, Paying
  <2> QED
    BY <1>3, <2>2, <2>3, Zenon DEF FindAccount
<1>4. CASE Hash(r)
  <2> DEFINE s == [req[r] EXCEPT !.pc = "hashing"]
  <2>1. Become(r, s) /\ s.pc = "hashing" /\ s.op = req[r].op /\ s.day = req[r].day
    BY <1>1, <1>4 DEF Request, Goto, Hash
  <2> HIDE DEF s
  <2> QED
    BY <1>4, <2>1, Zenon DEF GoesUnpaid, Paying, Hash
<1>5. CASE Hashed(r) /\ req[r].op = "create"
  <2> DEFINE s == [req[r] EXCEPT !.pc = "insert", !.expires = now + Lifetime]
  <2>1. Become(r, s) /\ s.pc = "insert" /\ s.day = req[r].day
    BY <1>1, <1>5 DEF Request, Hashed, AfterHash
  <2> HIDE DEF s
  <2> QED
    BY <1>5, <2>1, Zenon DEF GoesUnpaid, Paying, Hashed
<1>6. CASE Hashed(r) /\ req[r].op # "create"
  BY <1>1, <1>6, AnswerUnpaid, GotoUnpaid DEF Hashed, AfterHash
<1>7. CASE HashCancelled(r) \/ Compensate(r) \/ CompensateFails(r)
  BY <1>7, AnswerUnpaid, Zenon DEF HashCancelled, Compensate, CompensateFails
<1>8. CASE Number(r) \/ NumberFails(r) \/ IssueFails(r)
  BY <1>1, <1>8, AnswerUnpaid, GotoUnpaid, Zenon DEF Number, NumberFails, IssueFails, IssueFailed
<1>9. CASE Issue(r)
  <2>1. ASSUME NEW c, Become(r, [req[r] EXCEPT !.pc = "number", !.cap = c])
        PROVE  \E s : GoesUnpaid(r, s)
    <3> DEFINE s == [req[r] EXCEPT !.pc = "number", !.cap = c]
    <3>1. Become(r, s) /\ s.pc = "number"
      BY <1>1, <2>1 DEF Request
    <3> HIDE DEF s
    <3> QED
      BY <3>1, Zenon DEF GoesUnpaid, Paying
  <2>2. CASE Goto(r, "compensate") \/ Reply(r, "error") \/ Reply(r, "ok")
    BY <1>1, <2>2, AnswerUnpaid, GotoUnpaid
  <2> QED
    BY <1>9, <2>1, <2>2, Zenon DEF Issue, IssueFailed
<1> QED
  BY <1>2, <1>3, <1>4, <1>5, <1>6, <1>7, <1>8, <1>9, Zenon

\* ConsumeInboxCreate admits one more request to today's quota while the counter is
\* below the limit, and only drops counters of days that are over.
LEMMA ConsumeCounts ==
  ASSUME AccessInv, QuotaInv, NEW r \in Requests, Consume(r) \/ ConsumeFails(r)
  PROVE  QuotaInv'
<1>1. req[r] \in Request /\ now' = now /\ inboxes' = inboxes
  BY DEF AccessInv, RequestOK, Consume, ConsumeFails, tables
<1>2. /\ now \in Days /\ now \in Nat /\ used \in [Days -> 0 .. DailyLimit] /\ DailyLimit \in Nat
      /\ KeptDays \in Nat /\ \A d \in Days : d \in Nat /\ used[d] \in 0 .. DailyLimit
  BY CreationAssumption DEF QuotaInv, Days
<1>3. CASE used' = used /\ \E code : Reply(r, code)
  BY <1>1, <1>3, AnswerUnpaid, QuotaCalm
<1>4. CASE Fresh[now] < DailyLimit /\ used' = [Fresh EXCEPT ![now] = @ + 1]
  <2>1. /\ \A d \in Days : Fresh[d] \in 0 .. DailyLimit
        /\ \A d \in Days : d >= now => Fresh[d] = used[d]
        /\ Fresh = [d \in Days |-> Fresh[d]]
    BY <1>2 DEF Fresh
  <2>2. used' = [Fresh EXCEPT ![now] = @ + 1]
    BY <1>4
  <2>3. /\ used' \in [Days -> 0 .. DailyLimit]
        /\ \A d \in Days : d >= now => used'[d] >= used[d]
        /\ used'[now] = used[now] + 1
    BY <1>2, <1>4, <2>1, <2>2
  <2>4. \A d : Made(d)' = Made(d)
    BY <1>1, RemovalCounts
  <2>5. CASE \E s : GoesUnpaid(r, s)
    <3>1. Onward
      BY <1>1, <1>2, <2>3, <2>5, UnpaidKeeps DEF Onward
    <3>2. \A d \in Days : DayOK(d)'
      BY <2>4, <2>5, <3>1, UnpaidKeeps, DayKept, Zenon
    <3> QED
      BY <3>1, <3>2, Zenon DEF QuotaInv, Onward, Days
  <2>6. ASSUME NEW pc \in {"hash", "insert"}, NEW e,
               Become(r, [req[r] EXCEPT !.day = now, !.expires = e, !.pc = pc])
        PROVE  QuotaInv'
    <3> DEFINE s == [req[r] EXCEPT !.day = now, !.expires = e, !.pc = pc]
    <3>1. s.day = now /\ s.pc = pc
      BY <1>1 DEF Request
    <3>2. req'[r] = s /\ \A q \in Requests : q # r => req'[q] = req[q]
      BY <2>6 DEF AccessInv, Become
    <3> HIDE DEF s
    <3>3. /\ \A q \in Requests : req'[q].pc = "find" => req'[q].op # "create"
      BY <2>6, <3>1, <3>2 DEF QuotaInv
    <3>4. Onward
      BY <1>1, <1>2, <2>3, <3>3 DEF Onward
    <3>5. \A d : d # now => Paid(d)' \subseteq Paid(d)
      BY <3>1, <3>2, Zenon DEF Paid
    <3>6. Paid(now)' \subseteq Paid(now) \union {r}
      BY <1>1, <3>2, Zenon DEF Paid
    <3>7. ASSUME NEW d \in Days, d # now PROVE DayOK(d)'
      BY <2>4, <3>4, <3>5, <3>7, DayKept, Zenon
    <3>8. DayOK(now)'
      <4> DEFINE S == Made(now)
                 T == Paid(now)
                 T2 == Paid(now)'
      <4>1. Made(now)' = S
        BY <1>1, <2>4, Zenon
      <4>2. DayOK(now)
        BY <1>2 DEF QuotaInv
      <4>3. IsFiniteSet(S) /\ IsFiniteSet(T) /\ Cardinality(S) + Cardinality(T) <= used[now]
        BY <1>2, <4>2 DEF DayOK
      <4>4. /\ IsFiniteSet(T2) /\ Cardinality(T2) \in Nat /\ Cardinality(S) \in Nat
            /\ Cardinality(T) \in Nat
            /\ Cardinality(T2) <= Cardinality(T) + 1
        <5>1. T2 \subseteq T \union {r}
          BY <3>6
        <5> HIDE DEF S, T, T2
        <5>2. IsFiniteSet(T \union {r}) /\ Cardinality(T \union {r}) <= Cardinality(T) + 1
          BY <4>3, OneMore, Zenon
        <5>3. /\ IsFiniteSet(T2) /\ Cardinality(T2) \in Nat /\ Cardinality(T \union {r}) \in Nat
              /\ Cardinality(T2) <= Cardinality(T \union {r})
          BY <5>1, <5>2, Fewer, Zenon
        <5>4. Cardinality(S) \in Nat /\ Cardinality(T) \in Nat
          BY <4>3, FS_CardinalityType, Zenon
        <5> QED
          BY <5>2, <5>3, <5>4
      <4>5. used'[now] <= DailyLimit
        BY <1>2, <2>3
      <4> HIDE DEF S, T, T2
      <4>6. /\ Cardinality(S) + Cardinality(T2) <= used'[now]
            /\ Cardinality(S) + Cardinality(T2) <= DailyLimit
        BY <1>2, <2>3, <4>3, <4>4, <4>5
      <4> QED
        BY <1>1, <4>1, <4>3, <4>4, <4>6, Zenon DEF DayOK, S, T2
    <3>9. \A d \in Days : DayOK(d)'
      BY <1>1, <3>7, <3>8, Zenon
    <3> QED
      BY <3>4, <3>9, Zenon DEF QuotaInv, Onward, Days
  <2> QED
    BY <1>4, <2>5, <2>6, AnswerUnpaid, Zenon DEF Consume, ConsumeFails
<1> QED
  BY <1>3, <1>4, Zenon DEF Consume, ConsumeFails

\* The insert turns an admission into an Inbox, tries again with it, or gives it up.
LEMMA InsertCounts ==
  ASSUME AccessInv, QuotaInv, NEW r \in Requests, Insert(r) \/ InsertFails(r)
  PROVE  QuotaInv'
<1>1. /\ req[r] \in Request /\ now' = now /\ used' = used /\ req[r].pc = "insert"
  BY DEF AccessInv, RequestOK, Insert, InsertFails, admission
<1>2. CASE inboxes' = inboxes /\ \E s : GoesUnpaid(r, s)
  BY <1>1, <1>2, QuotaCalm
<1>3. ASSUME NEW n, Become(r, [req[r] EXCEPT !.attempts = n]), inboxes' = inboxes
      PROVE  QuotaInv'
  <2> DEFINE s == [req[r] EXCEPT !.attempts = n]
  <2>1. Become(r, s) /\ s.pc = "insert" /\ s.day = req[r].day
    BY <1>1, <1>3 DEF Request
  <2> HIDE DEF s
  <2>2. GoesUnpaid(r, s)
    BY <1>1, <2>1 DEF GoesUnpaid, Paying
  <2> QED
    BY <1>2, <1>3, <2>2
<1>4. ASSUME NEW a, inboxes' = Append(inboxes, NewInbox(r, a)), NEW s, Become(r, s),
             ~Paying(s), s.pc # "find"
      PROVE  QuotaInv'
  <2>1. GoesUnpaid(r, s)
    BY <1>4 DEF GoesUnpaid
  <2>2. Onward
    <3>1. now \in Days /\ used \in [Days -> 0 .. DailyLimit] /\ now \in Int
          /\ \A d \in Days : used[d] \in Int
      BY CreationAssumption DEF QuotaInv, Days
    <3> QED
      BY <1>1, <2>1, <3>1, UnpaidKeeps DEF Onward
  <2>3. inboxes \in Seq(InboxRow) /\ NewInbox(r, a).day = req[r].day
    BY DEF AccessInv, Tables, NewInbox
  <2>4. /\ Len(inboxes) \in Nat /\ Inboxes = 1 .. Len(inboxes)
        /\ Inboxes' = Inboxes \union {Len(inboxes) + 1}
        /\ \A i \in Inboxes : inboxes'[i] = inboxes[i]
        /\ inboxes'[Len(inboxes) + 1] = NewInbox(r, a)
    BY <1>4, <2>3, LenProperties, AppendProperties DEF Inboxes
  <2>5. Len(inboxes) + 1 \notin Inboxes
    BY <2>4
  <2>6. \A d : /\ d # req[r].day => Made(d)' = Made(d)
               /\ d = req[r].day => Made(d)' = Made(d) \union {Len(inboxes) + 1}
               /\ Len(inboxes) + 1 \notin Made(d)
    BY <2>3, <2>4, <2>5, Zenon DEF Made
  <2>7. \A d : Paid(d)' \subseteq Paid(d) \ {r}
    <3>1. \A d : Paid(d)' \subseteq Paid(d)
      BY <2>1, UnpaidKeeps
    <3>2. req'[r] = s
      BY <1>4 DEF AccessInv, Become
    <3> QED
      BY <1>4, <3>1, <3>2, Zenon DEF Paid
  <2>8. r \in Paid(req[r].day)
    BY <1>1 DEF Paid, Paying
  <2>9. ASSUME NEW d \in Days PROVE DayOK(d)'
    <3>1. CASE d # req[r].day
      <4>1. Made(d)' = Made(d) /\ Paid(d)' \subseteq Paid(d)
        BY <2>6, <2>7, <3>1, Zenon
      <4> QED
        BY <2>2, <4>1, DayKept, Zenon
    <3>2. CASE d = req[r].day
      <4>1. /\ Made(d)' = Made(d) \union {Len(inboxes) + 1} /\ Len(inboxes) + 1 \notin Made(d)
            /\ Paid(d)' \subseteq Paid(d) \ {r} /\ r \in Paid(d)
        BY <2>6, <2>7, <2>8, <3>2, Zenon
      <4> QED
        BY <2>2, <4>1, DayKept, Zenon
    <3> QED
      BY <3>1, <3>2
  <2> QED
    BY <2>2, <2>9, Zenon DEF QuotaInv, Onward, Days
<1>5. ASSUME NEW code, Reply(r, code)
      PROVE  \E s : Become(r, s) /\ ~Paying(s) /\ s.pc # "find"
  <2> DEFINE s == [NoRequest EXCEPT !.late = req[r].late /\ code = "ok"]
  <2>1. NoRequest \in Request /\ NoRequest.pc = "done"
    BY Idle, Zenon DEF RequestOK, NoRequest
  <2>2. s.pc = "done" /\ Become(r, s)
    BY <1>5, <2>1 DEF Request, Reply
  <2> HIDE DEF s
  <2> QED
    BY <2>2 DEF Paying
<1>6. ASSUME NEW i, Become(r, [req[r] EXCEPT !.pc = "issue", !.inbox = i])
      PROVE  \E s : Become(r, s) /\ ~Paying(s) /\ s.pc # "find"
  <2> DEFINE s == [req[r] EXCEPT !.pc = "issue", !.inbox = i]
  <2>1. Become(r, s) /\ s.pc = "issue"
    BY <1>1, <1>6 DEF Request
  <2> HIDE DEF s
  <2> QED
    BY <2>1 DEF Paying
<1>7. CASE Insert(r)
  <2>1. PICK a \in Candidates(r) :
          \/ /\ inboxes' = inboxes
             /\ (\E n : Become(r, [req[r] EXCEPT !.attempts = n])) \/ Reply(r, "conflict")
          \/ /\ inboxes' = Append(inboxes, NewInbox(r, a))
             /\ \/ Reply(r, "ok")
                \/ \E i : Become(r, [req[r] EXCEPT !.pc = "issue", !.inbox = i])
    BY <1>7, Zenon DEF Insert
  <2> QED
    BY <1>2, <1>3, <1>4, <1>5, <1>6, <2>1, AnswerUnpaid, Zenon
<1>8. CASE InsertFails(r)
  <2>1. /\ Reply(r, "error")
        /\ inboxes' = inboxes \/ \E a : inboxes' = Append(inboxes, NewInbox(r, a))
    BY <1>8, Zenon DEF InsertFails
  <2> QED
    BY <1>2, <1>4, <1>5, <2>1, AnswerUnpaid, Zenon
<1> QED
  BY <1>7, <1>8

\* Steps of no request: time passes, an Inbox is swept, the process dies.
LEMMA OtherCounts ==
  ASSUME AccessInv, QuotaInv, Tick \/ Sweep \/ Crash \/ UNCHANGED vars
  PROVE  QuotaInv'
<1>1. /\ used' = used
      /\ now' = now \/ (now < MaxTime /\ now' = now + 1)
      /\ inboxes' = inboxes \/ \E i : inboxes' = [inboxes EXCEPT ![i].removed = TRUE]
  BY DEF Tick, Sweep, SweepInbox, Crash, vars, credVars, tables, admission
<1>2. \A r \in Requests : req'[r] = req[r] \/ req'[r] = NoRequest
  BY DEF AccessInv, Tick, Sweep, SweepInbox, Crash, vars, credVars
<1>3. NoRequest.pc = "done"
  BY Zenon DEF NoRequest
<1>4. ~Paying(NoRequest)
  BY <1>3 DEF Paying
<1>5. \A d \in Days : Made(d)' = Made(d) /\ Paid(d)' \subseteq Paid(d)
  <2>1. \A d \in Days : Made(d)' = Made(d)
    BY <1>1, RemovalCounts
  <2> QED
    BY <1>2, <1>4, <2>1, Zenon DEF Paid
<1>6. Onward
  <2>1. now \in Days /\ used \in [Days -> 0 .. DailyLimit] /\ MaxTime \in Nat
    BY CredentialsAssumption DEF QuotaInv
  <2>2. now' \in Days /\ now <= now' /\ \A d \in Days : used[d] \in Int
    BY <1>1, <2>1, CreationAssumption DEF Days
  <2>3. \A r \in Requests : req'[r].pc = "find" => req'[r].op # "create"
    BY <1>2, <1>3 DEF QuotaInv
  <2> QED
    BY <1>1, <2>1, <2>2, <2>3 DEF Onward
<1>7. \A d \in Days : DayOK(d)'
  BY <1>5, <1>6, DayKept, Zenon
<1> QED
  BY <1>6, <1>7, Zenon DEF QuotaInv, Onward, Days

\* At first there is no Inbox, or one that the counter of the first day knows.
LEMMA QuotaInit == Init => QuotaInv
<1> SUFFICES ASSUME Init PROVE QuotaInv
  OBVIOUS
<1>1. /\ now = 0 /\ now \in Days /\ req = [r \in Requests |-> NoRequest]
      /\ DailyLimit \in Nat /\ DailyLimit >= 1
  <2>1. now = 0 /\ req = [r \in Requests |-> NoRequest]
    BY Zenon DEF Init
  <2>2. 0 \in Days
    BY CredentialsAssumption DEF Days
  <2>3. DailyLimit \in Nat /\ DailyLimit >= 1
    BY CreationAssumption
  <2> QED
    BY <2>1, <2>2, <2>3, Zenon
<1>2. NoRequest.pc = "done"
  BY Zenon DEF NoRequest
<1>3. \A r \in Requests : ~Paying(req[r]) /\ req[r].pc # "find"
  BY <1>1, <1>2 DEF Paying
<1>4. \A d : Paid(d) = {}
  BY <1>3, Zenon DEF Paid
<1>5. IsFiniteSet({}) /\ Cardinality({}) = 0 /\ IsFiniteSet({1}) /\ Cardinality({1}) = 1
  BY FS_EmptySet, FS_Singleton, Zenon
<1>6. CASE inboxes = <<>> /\ used = [d \in Days |-> 0]
  <2>1. \A d : Made(d) = {}
    BY <1>6 DEF Made, Inboxes
  <2>2. used \in [Days -> 0 .. DailyLimit] /\ \A d \in Days : used[d] = 0
    BY <1>1, <1>6
  <2>3. \A d \in Days : DayOK(d)
    BY <1>1, <1>4, <1>5, <2>1, <2>2 DEF DayOK
  <2> QED
    BY <1>1, <1>3, <2>2, <2>3 DEF QuotaInv
<1>7. ASSUME NEW a, used = [d \in Days |-> IF d = 0 THEN 1 ELSE 0],
             inboxes = <<[address |-> a, expires |-> Lifetime, account |-> FALSE,
                          removed |-> FALSE, day |-> 0]>>
      PROVE  QuotaInv
  <2> DEFINE row == [address |-> a, expires |-> Lifetime, account |-> FALSE,
                     removed |-> FALSE, day |-> 0]
  <2>1. row.day = 0 /\ inboxes = <<row>>
    BY <1>7, Zenon
  <2> HIDE DEF row
  <2>2. Inboxes = {1} /\ inboxes[1].day = 0
    BY <2>1 DEF Inboxes
  <2>3. Made(0) = {1} /\ \A d : d # 0 => Made(d) = {}
    BY <2>2, Zenon DEF Made
  <2>4. /\ used \in [Days -> 0 .. DailyLimit]
        /\ \A d \in Days : used[d] = IF d = 0 THEN 1 ELSE 0
    <3>1. used = [d \in Days |-> IF d = 0 THEN 1 ELSE 0]
      BY <1>7
    <3> QED
      BY <1>1, <3>1
  <2>5. ASSUME NEW d \in Days PROVE DayOK(d)
    <3>1. CASE d = 0
      <4>1. Made(d) = {1} /\ Paid(d) = {} /\ used[d] = 1
        BY <1>4, <2>3, <2>4, <3>1
      <4> QED
        BY <1>1, <1>5, <4>1 DEF DayOK
    <3>2. CASE d # 0
      <4>1. Made(d) = {} /\ Paid(d) = {} /\ used[d] = 0
        BY <1>4, <2>3, <2>4, <3>2
      <4> QED
        BY <1>1, <1>5, <4>1 DEF DayOK
    <3> QED
      BY <3>1, <3>2
  <2> QED
    BY <1>1, <1>3, <2>4, <2>5 DEF QuotaInv
<1> QED
  BY <1>6, <1>7, Zenon DEF Init

LEMMA QuotaNext == AccessInv /\ QuotaInv /\ [Next]_vars => QuotaInv'
<1> SUFFICES ASSUME AccessInv, QuotaInv, [Next]_vars PROVE QuotaInv'
  OBVIOUS
<1>1. ASSUME NEW r \in Requests,
             \/ (CredStep(r) \/ RotateFails(r)) /\ UNCHANGED admission
             \/ FindAccount(r) \/ Hash(r) \/ HashCancelled(r)
             \/ Hashed(r) \/ Issue(r) \/ IssueFails(r) \/ Number(r) \/ NumberFails(r)
             \/ Compensate(r) \/ CompensateFails(r)
      PROVE  QuotaInv'
  <2>1. PICK s : GoesUnpaid(r, s)
    BY <1>1, StepUnpaid, Zenon
  <2>2. UNCHANGED <<now, used>>
    BY <1>1, Zenon
    DEF CredStep, Authenticate, Seal, Get, List, Mismatch, DeleteInbox, Resolve, Rotate,
        RotateFails, FindAccount,
        Hash, HashCancelled, Hashed, Issue, IssueFails, Number, NumberFails, Compensate,
        CompensateFails, admission
  <2>3. inboxes' = inboxes \/ \E i : inboxes' = [inboxes EXCEPT ![i].removed = TRUE]
    BY <1>1, Zenon
    DEF CredStep, Authenticate, Seal, Get, List, Mismatch, DeleteInbox, Resolve, Rotate,
        RotateFails, FindAccount,
        Hash, HashCancelled, Hashed, Issue, IssueFails, Number, NumberFails, Compensate,
        CompensateFails, tables
  <2> QED
    BY <2>1, <2>2, <2>3, QuotaCalm
<1>2. ASSUME NEW r \in Requests, Start(r)
      PROVE  QuotaInv'
  <2>1. PICK s : GoesUnpaid(r, s)
    BY <1>2, StartUnpaid
  <2>2. now' = now /\ used' = used /\ inboxes' = inboxes
    BY <1>2, Zenon DEF Start, Ask, Present, tables, admission
  <2> QED
    BY <2>1, <2>2, QuotaCalm
<1>3. ASSUME NEW r \in Requests, Step(r) \/ Failure(r)
      PROVE  QuotaInv'
  BY <1>1, <1>3, ConsumeCounts, InsertCounts, Zenon DEF Step, Failure
<1> QED
  BY <1>2, <1>3, OtherCounts, Zenon DEF Next

\* One identity makes at most DailyLimit Inboxes with the quota of a day, although
\* ConsumeInboxCreate and the insert are different transactions, requests wait for
\* days in between, counters are purged and processes die.
THEOREM QuotaIsKept == Spec => []CreationsBounded
<1>1. QuotaInv => CreationsBounded
  <2> SUFFICES ASSUME QuotaInv, NEW d \in Days
               PROVE  Cardinality({i \in Inboxes : inboxes[i].day = d}) <= DailyLimit
    BY DEF CreationsBounded
  <2>1. /\ IsFiniteSet(Made(d)) /\ IsFiniteSet(Paid(d))
        /\ Cardinality(Made(d)) + Cardinality(Paid(d)) <= DailyLimit
    BY DEF QuotaInv, DayOK
  <2>2. Cardinality(Made(d)) \in Nat /\ Cardinality(Paid(d)) \in Nat
    BY <2>1, FS_CardinalityType
  <2>3. Cardinality(Made(d)) <= DailyLimit
    BY <2>1, <2>2, CreationAssumption
  <2> QED
    BY <2>3 DEF Made
<1>2. Spec => []QuotaInv
  BY QuotaInit, QuotaNext, AccessAlways, PTL DEF Spec
<1> QED
  BY <1>1, <1>2, PTL
=============================================================================
