------------------------------ MODULE Mailbox ------------------------------
(***************************************************************************)
(* What the mail service promises.  The outcome of a delivery is decided   *)
(* once: its message is stored for every recipient in one step, or for     *)
(* none.  Accepted is said only of a stored message; a delivery that is    *)
(* answered with an error, or not at all, may have been stored, when only  *)
(* its confirmation was lost or the answer did not wait for the outcome.   *)
(* A stored message goes only because somebody asked for it, or for its    *)
(* Inbox, to be deleted, or because the time of its Inbox is over.         *)
(* MailLifecycle is checked, and proved, to implement this specification.  *)
(***************************************************************************)
CONSTANTS Inboxes, Deliveries, Requests

VARIABLES
  inbox,      \* active, expired or deleted
  to,         \* recipients of a delivery, {} before it starts
  undecided,  \* deliveries whose message is not stored and may yet be
  stored,     \* the messages that are kept
  reply,      \* what the sending MTA was told
  asked       \* what a request is about to delete

vars == <<inbox, to, undecided, stored, reply, asked>>

Nothing == [msgs |-> {}, inboxes |-> {}]
Copies(d) == {[by |-> d, inbox |-> i] : i \in to[d]}

Init ==
  /\ inbox = [i \in Inboxes |-> "active"]
  /\ to = [d \in Deliveries |-> {}]
  /\ undecided = Deliveries
  /\ stored = {}
  /\ reply = [d \in Deliveries |-> "none"]
  /\ asked = [x \in Requests |-> Nothing]

Start(d) ==
  /\ to[d] = {}
  /\ \E R \in SUBSET {i \in Inboxes : inbox[i] = "active"} :
       R # {} /\ to' = [to EXCEPT ![d] = R]
  /\ UNCHANGED <<inbox, undecided, stored, reply, asked>>

\* The outcome; the answer may come with it, before it or after it.
Decide(d) ==
  /\ d \in undecided /\ to[d] # {}
  /\ undecided' = undecided \ {d}
  /\ UNCHANGED <<inbox, to, asked>>

\* Stored without a word, or with an error although it is stored.
Store(d) ==
  /\ Decide(d)
  /\ \A i \in to[d] : inbox[i] # "deleted"
  /\ stored' = stored \union Copies(d)
  /\ \/ reply[d] \in {"none", "451"} /\ UNCHANGED reply
     \/ reply[d] = "none" /\ reply' = [reply EXCEPT ![d] = "451"]

Refuse(d) ==
  /\ Decide(d)
  /\ \/ reply[d] = "none" /\ \E r \in {"550", "552", "451"} : reply' = [reply EXCEPT ![d] = r]
     \/ reply[d] = "451" /\ UNCHANGED reply
  /\ UNCHANGED stored

\* An answer that does not wait for the outcome.
GiveUp(d) ==
  /\ d \in undecided /\ to[d] # {} /\ reply[d] = "none"
  /\ reply' = [reply EXCEPT ![d] = "451"]
  /\ UNCHANGED <<inbox, to, undecided, stored, asked>>

\* The answer to a stored message, which may be lost on its way.
Accept(d) ==
  /\ d \notin undecided /\ reply[d] = "none"
  /\ \E r \in {"250", "lost"} : reply' = [reply EXCEPT ![d] = r]
  /\ UNCHANGED <<inbox, to, undecided, stored, asked>>

-----------------------------------------------------------------------------
\* A request for a message, or for an Inbox with all that is in it.
Ask(x) ==
  /\ asked[x] = Nothing
  /\ \/ \E m \in stored :
          inbox[m.inbox] = "active" /\ asked' = [asked EXCEPT ![x] = [Nothing EXCEPT !.msgs = {m}]]
     \/ \E i \in Inboxes :
          inbox[i] = "active" /\ asked' = [asked EXCEPT ![x] = [Nothing EXCEPT !.inboxes = {i}]]
  /\ UNCHANGED <<inbox, to, undecided, stored, reply>>

Remove(M, I) ==
  /\ UNCHANGED <<to, undecided, reply>>
  /\ inbox' = [i \in Inboxes |-> IF i \in I THEN "deleted" ELSE inbox[i]]
  /\ stored' = {m \in stored : m \notin M /\ m.inbox \notin I}

\* What was asked for is done, all of it, or nothing is.
Grant(x) ==
  /\ asked[x] # Nothing
  /\ Remove(asked[x].msgs, asked[x].inboxes)
  /\ asked' = [asked EXCEPT ![x] = Nothing]

Withdraw(x) ==
  /\ asked[x] # Nothing
  /\ asked' = [asked EXCEPT ![x] = Nothing]
  /\ UNCHANGED <<inbox, to, undecided, stored, reply>>

\* Inboxes go by themselves only when their time is over.
RemoveEnded ==
  /\ UNCHANGED asked
  /\ \E I \in SUBSET {i \in Inboxes : inbox[i] # "active"} : Remove({}, I)

Expire(i) ==
  /\ inbox[i] = "active"
  /\ inbox' = [inbox EXCEPT ![i] = "expired"]
  /\ UNCHANGED <<to, undecided, stored, reply, asked>>

\* Every connection is lost.  What is stored stays, what is not will not be.
Crash ==
  LET talking == {d \in Deliveries : to[d] # {} /\ reply[d] = "none"}
  IN /\ reply' = [d \in Deliveries |-> IF d \in talking THEN "lost" ELSE reply[d]]
     /\ undecided' = undecided \ talking
     /\ asked' = [x \in Requests |-> Nothing]
     /\ UNCHANGED <<inbox, to, stored>>

Next ==
  \/ RemoveEnded
  \/ \E d \in Deliveries : Start(d) \/ Store(d) \/ Refuse(d) \/ GiveUp(d) \/ Accept(d)
  \/ \E x \in Requests : Ask(x) \/ Grant(x) \/ Withdraw(x)
  \/ \E i \in Inboxes : Expire(i)
  \/ Crash

Spec == Init /\ [][Next]_vars
=============================================================================
