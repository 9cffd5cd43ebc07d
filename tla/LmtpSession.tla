----------------------------- MODULE LmtpSession -----------------------------
(***************************************************************************)
(* The LMTP server and its sessions, driven by the Postfix queue.          *)
(*                                                                         *)
(* A connection carries lines to the session and reply codes back.  A line *)
(* is a sequence: a command is its verb and argument, a line of a message  *)
(* is its characters.  The session cannot tell them apart, it reads what   *)
(* comes next in the mode it is in, so a session that stops reading a body *)
(* too early takes the rest of it for commands.  Postfix (external) sends  *)
(* an envelope in one burst, a body after 354, and counts the replies; it  *)
(* tries a recipient again until it gets a 2xx or a 5xx for it.            *)
(***************************************************************************)
EXTENDS Integers, Sequences, FiniteSets, Functions, SequencesExt

CONSTANTS
  Conns,          \* connections that may be open at one time
  Msgs,           \* messages in the Postfix queue
  Inboxes,
  To,             \* recipients of a message, in order
  Bodies,         \* assignments of lines to messages, one is chosen
  Closing,        \* inboxes that may be deleted or fill up meanwhile
  MaxSessions,    \* Options.MaxSessions
  MaxRecipients,  \* Options.MaxRecipients
  MaxBytes,       \* Options.MaxMessageBytes
  MaxLineBytes,   \* Options.MaxDataLineBytes
  MaxFaults       \* bound on lost connections, failing calls and lost races

ASSUME LmtpAssumption ==
  /\ To \in [Msgs -> Seq(Inboxes)]
  /\ MaxSessions \in Nat \ {0} /\ MaxRecipients \in Nat \ {0}
  /\ MaxBytes \in Nat /\ MaxLineBytes \in Nat /\ MaxFaults \in Nat

VARIABLES
  body,     \* the lines of every message, fixed from the start
  box,      \* inboxes: "open", "full" or "gone"
  wire,     \* lines sent to the session and not read yet
  back,     \* replies sent to Postfix and not read yet
  eof,      \* Postfix closed the connection while the session was reading
  session,  \* one record per connection
  client,   \* what Postfix does on a connection
  delivered, bounced,  \* message and recipient pairs Postfix is done with
  stored,   \* committed deliveries
  raced,    \* history: deliveries refused because the row of their bytes vanished
  faults

link == <<wire, back, eof>>
queue == <<delivered, bounced>>
outcome == <<stored, raced>>
vars == <<body, box, link, session, client, queue, outcome, faults>>

Dot == <<".">>
NoMail == [mailSet |-> FALSE, rcpts |-> <<>>]
NoSession == [at |-> "none", greeted |-> FALSE, mail |-> NoMail,
              lines |-> <<>>, ended |-> FALSE, result |-> 0]
NoClient == [at |-> "idle", msg |-> "none", expect |-> <<>>, accepted |-> <<>>]

Active == {c \in Conns : session[c].at \notin {"none", "queued"}}
Outstanding(m) == SelectSeq(To[m], LAMBDA r : <<m, r>> \notin delivered \union bounced)

\* Sessions stay within MaxSessions and transactions within MaxRecipients, and a
\* recipient is answered for good only once.
TypeOK ==
  /\ Cardinality(Active) <= MaxSessions
  /\ \A c \in Conns :
       /\ session[c].at \in {"none", "queued", "command", "data", "commit", "drain", "reply"}
       /\ Len(session[c].mail.rcpts) <= MaxRecipients
       /\ IsInjective(session[c].mail.rcpts)
       /\ session[c].at \in {"data", "commit", "drain", "reply"} => session[c].mail.rcpts # <<>>
  /\ delivered \intersect bounced = {}
  /\ faults \in 0..MaxFaults

Init ==
  /\ body \in Bodies
  /\ box = [i \in Inboxes |-> "open"]
  /\ wire = [c \in Conns |-> <<>>] /\ back = [c \in Conns |-> <<>>]
  /\ eof = [c \in Conns |-> FALSE]
  /\ session = [c \in Conns |-> NoSession]
  /\ client = [c \in Conns |-> NoClient]
  /\ delivered = {} /\ bounced = {} /\ stored = {} /\ raced = {}
  /\ faults = 0

Fault == faults < MaxFaults /\ faults' = faults + 1

\* An inbox is deleted, expires or reaches its quota while mail is under way.
InboxCloses(i) ==
  /\ i \in Closing
  /\ box[i] = "open"
  /\ \E state \in {"full", "gone"} : box' = [box EXCEPT ![i] = state]
  /\ UNCHANGED <<body, link, session, client, queue, outcome, faults>>

-----------------------------------------------------------------------------
(* The server side: reading a line and writing replies.                    *)

Become(c, s) == session' = [session EXCEPT ![c] = s]
Pending(c) == wire[c] # <<>>
Line(c) == Head(wire[c])
Verb(l) == IF l = <<>> THEN "" ELSE Head(l)
Take(c) == wire' = [wire EXCEPT ![c] = Tail(@)]

\* Replies written to a connection the client has closed go nowhere.
Say(c, codes) == back' = IF eof[c] THEN back ELSE [back EXCEPT ![c] = @ \o codes]

ServerOnly == UNCHANGED <<body, box, eof, client, queue>>
SessionOnly == ServerOnly /\ UNCHANGED outcome

\* Accept takes a free slot of the semaphore, or answers 421 and closes.
Accept(c) ==
  /\ session[c].at = "queued"
  /\ IF Cardinality(Active) < MaxSessions
       THEN Become(c, [NoSession EXCEPT !.at = "command"]) /\ Say(c, <<220>>)
       ELSE Become(c, NoSession) /\ Say(c, <<421>>)
  /\ SessionOnly /\ UNCHANGED <<wire, faults>>

\* A command with this verb is read and answered with code; s is the session after it.
Answer(c, verb, code, s) ==
  /\ session[c].at = "command" /\ Pending(c) /\ Verb(Line(c)) = verb
  /\ Take(c) /\ Say(c, <<code>>) /\ Become(c, s) /\ SessionOnly

HandleLhlo(c) ==
  /\ Answer(c, "LHLO", 250, [session[c] EXCEPT !.greeted = TRUE, !.mail = NoMail])
  /\ UNCHANGED faults

HandleMail(c) ==
  LET s == session[c]
      code == IF ~s.greeted \/ s.mail.mailSet THEN 503
              ELSE IF Line(c)[2] > MaxBytes THEN 552 ELSE 250
  IN /\ Answer(c, "MAIL", code,
               IF code = 250 THEN [s EXCEPT !.mail = [NoMail EXCEPT !.mailSet = TRUE]] ELSE s)
     /\ UNCHANGED faults

\* ResolveInboxForDelivery, the duplicate check and MaxRecipients, in that order.
RcptCode(s, r) ==
  IF ~s.greeted \/ ~s.mail.mailSet THEN 503
  ELSE IF box[r] = "gone" THEN 550
  ELSE IF box[r] = "full" THEN 552
  ELSE IF ~Contains(s.mail.rcpts, r) /\ Len(s.mail.rcpts) >= MaxRecipients THEN 452
  ELSE 250

HandleRcpt(c) ==
  LET s == session[c]
      r == Line(c)[2]
      code == RcptCode(s, r)
  IN \/ /\ Answer(c, "RCPT", code,
                  IF code = 250 /\ ~Contains(s.mail.rcpts, r)
                    THEN [s EXCEPT !.mail.rcpts = Append(@, r)] ELSE s)
        /\ UNCHANGED faults
     \/ /\ Pending(c) /\ s.mail.mailSet
        /\ Answer(c, "RCPT", 451, s) /\ Fault

HandleData(c) ==
  LET s == session[c]
      begin == [s EXCEPT !.at = "data", !.lines = <<>>, !.ended = FALSE]
  IN \/ /\ s.mail.mailSet /\ s.mail.rcpts # <<>>
        /\ \/ Answer(c, "DATA", 354, begin) /\ UNCHANGED faults
           \/ (\E code \in {451, 452} : Answer(c, "DATA", code, s)) /\ Fault
     \/ /\ ~s.mail.mailSet \/ s.mail.rcpts = <<>>
        /\ Answer(c, "DATA", 503, s) /\ UNCHANGED faults

HandleRset(c) ==
  Answer(c, "RSET", 250, [session[c] EXCEPT !.mail = NoMail]) /\ UNCHANGED faults

HandleQuit(c) == Answer(c, "QUIT", 221, NoSession) /\ UNCHANGED faults

\* NOOP succeeds; HELO, EHLO and everything unknown is an error that ends nothing.
HandleOther(c) ==
  /\ Pending(c) /\ Verb(Line(c)) \notin {"LHLO", "MAIL", "RCPT", "DATA", "RSET", "QUIT"}
  /\ Answer(c, Verb(Line(c)), IF Verb(Line(c)) = "NOOP" THEN 250 ELSE 500, session[c])
  /\ UNCHANGED faults

\* The command loop ends at the end of the stream.
CommandsEnd(c) ==
  /\ session[c].at = "command" /\ ~Pending(c) /\ eof[c]
  /\ Become(c, NoSession)
  /\ SessionOnly /\ UNCHANGED <<wire, back, faults>>

-----------------------------------------------------------------------------
(* The server side: DATA.                                                  *)

Bytes(lines) == FoldSeq(LAMBDA l, n : n + Len(l) + 2, 0, lines)
Unstuff(l) == IF Len(l) >= 2 /\ l[1] = "." /\ l[2] = "." THEN Tail(l) ELSE l

\* Mutant: Receive is answered without draining what it left unread.
RejectUndrained(s, code) == [s EXCEPT !.at = "reply", !.result = code]

\* Receive fails with code before the terminating dot; the rest must be drained.
Reject(s, code) == [s EXCEPT !.at = "drain", !.result = code]

\* Mutant: the reader hands out lines as they came, stuffed.
KeepStuffing(s, l) ==
  IF Len(l) > MaxLineBytes THEN Reject(s, 554)
  ELSE IF l = Dot THEN [s EXCEPT !.at = "commit", !.ended = TRUE]
  ELSE IF Bytes(s.lines) + Len(l) + 2 > MaxBytes THEN Reject(s, 552)
  ELSE [s EXCEPT !.lines = Append(@, l)]

\* dataReader.Read: the session after one line of the body.
AfterLine(s, l) ==
  IF Len(l) > MaxLineBytes THEN Reject(s, 554)
  ELSE IF l = Dot THEN [s EXCEPT !.at = "commit", !.ended = TRUE]
  ELSE IF Bytes(s.lines) + Len(Unstuff(l)) + 2 > MaxBytes THEN Reject(s, 552)
  ELSE [s EXCEPT !.lines = Append(@, Unstuff(l))]

ReadLine(c) ==
  /\ session[c].at = "data" /\ Pending(c)
  /\ Take(c) /\ Become(c, AfterLine(session[c], Line(c)))
  /\ SessionOnly /\ UNCHANGED <<back, faults>>

\* The stream ends inside the body.  The reader returns io.EOF, which the copy in
\* Put takes for the end of the message: Receive goes on with what it has.
DataEnds(c) ==
  /\ session[c].at = "data" /\ ~Pending(c) /\ eof[c]
  /\ Become(c, [session[c] EXCEPT !.at = "commit"])
  /\ SessionOnly /\ UNCHANGED <<wire, back, faults>>

\* Put fails before it has read everything: no space, or a failing write.
PutFails(c) ==
  /\ session[c].at = "data"
  /\ \E code \in {451, 452} : Become(c, Reject(session[c], code))
  /\ Fault /\ SessionOnly /\ UNCHANGED <<wire, back>>

\* Receive has returned.  Without the dot, drain fails at the end of the stream
\* and the session ends without a reply.
Received(s, code) ==
  IF s.ended THEN [s EXCEPT !.at = "reply", !.result = code] ELSE NoSession

Deliveries(s) == {[inbox |-> r, lines |-> s.lines] : r \in Range(s.mail.rcpts)}

\* Mutant: recipients that are still there get the message, the others are skipped,
\* and the transaction succeeds.
CommitPresent(c) ==
  LET s == session[c]
  IN /\ s.at = "commit"
     /\ stored' = stored \union {d \in Deliveries(s) : box[d.inbox] = "open"}
     /\ Become(c, Received(s, 250))
     /\ ServerOnly /\ UNCHANGED <<wire, back, raced, faults>>

\* Another message has the same bytes and is deleted just then: their row was there when
\* this delivery looked and is gone when its messages refer to it.  mapDeliveryError
\* takes every foreign key error for a missing Inbox: 550.
RowVanished(c) ==
  /\ raced' = raced \union Deliveries(session[c])
  /\ Become(c, Received(session[c], 550)) /\ Fault /\ UNCHANGED stored

\* CommitDelivery stores the message for all recipients or for none.
Commit(c) ==
  LET s == session[c]
      states == {box[r] : r \in Range(s.mail.rcpts)}
  IN /\ s.at = "commit"
     /\ \/ /\ states = {"open"}
           /\ stored' = stored \union Deliveries(s)
           /\ Become(c, Received(s, 250)) /\ UNCHANGED <<raced, faults>>
        \/ /\ states # {"open"}
           /\ Become(c, Received(s, IF "gone" \in states THEN 550 ELSE 552))
           /\ UNCHANGED <<outcome, faults>>
        \/ states = {"open"} /\ RowVanished(c)
        \/ /\ stored' \in {stored, stored \union IF states = {"open"} THEN Deliveries(s) ELSE {}}
           /\ Become(c, Received(s, 451)) /\ Fault /\ UNCHANGED raced
     /\ ServerOnly /\ UNCHANGED <<wire, back>>

\* Mutant: a drain that meets the end of the stream keeps waiting for the dot.
DrainForever(c) ==
  /\ session[c].at = "drain"
  /\ Pending(c) /\ Take(c)
  /\ Become(c, IF Line(c) = Dot THEN [session[c] EXCEPT !.at = "reply"] ELSE session[c])
  /\ SessionOnly /\ UNCHANGED <<back, faults>>

\* What Receive left unread is read up to the dot; over-long lines are skipped too.
Drain(c) ==
  /\ session[c].at = "drain"
  /\ \/ /\ Pending(c) /\ Take(c)
        /\ Become(c, IF Line(c) = Dot THEN [session[c] EXCEPT !.at = "reply"] ELSE session[c])
     \/ /\ ~Pending(c) /\ eof[c] /\ UNCHANGED wire
        /\ Become(c, NoSession)
  /\ SessionOnly /\ UNCHANGED <<back, faults>>

\* One reply per recipient, all with the outcome of Receive; then resetTransaction.
Reply(c) ==
  LET s == session[c]
  IN /\ s.at = "reply"
     /\ Say(c, [i \in DOMAIN s.mail.rcpts |-> s.result])
     /\ Become(c, [NoSession EXCEPT !.at = "command", !.greeted = s.greeted])
     /\ SessionOnly /\ UNCHANGED <<wire, faults>>

\* The session times out, the service stops or its process dies: the connection is
\* closed, and only some of the last replies reach the client.
SessionDies(c) ==
  /\ c \in Active
  /\ Become(c, NoSession)
  /\ \E n \in 0..Len(back[c]) : back' = [back EXCEPT ![c] = SubSeq(@, 1, n)]
  /\ Fault /\ SessionOnly /\ UNCHANGED wire

SessionStep(c) ==
  \/ Accept(c) \/ HandleLhlo(c) \/ HandleMail(c) \/ HandleRcpt(c) \/ HandleData(c)
  \/ HandleRset(c) \/ HandleQuit(c) \/ HandleOther(c) \/ CommandsEnd(c)
  \/ ReadLine(c) \/ DataEnds(c) \/ Commit(c) \/ Drain(c) \/ Reply(c)

-----------------------------------------------------------------------------
(* Postfix: the queue manager and its LMTP client.                         *)

Go(c, k) == client' = [client EXCEPT ![c] = k]
Send(c, ls) == wire' = [wire EXCEPT ![c] = @ \o ls]
Class(code) == code \div 100
ClientOnly == UNCHANGED <<body, box, session, outcome, faults>>

Free(m) == \A c \in Conns : client[c].at = "idle" \/ client[c].msg # m

\* A connection is opened for a message that still has recipients to try.
Connect(c, m) ==
  /\ client[c].at = "idle" /\ session[c].at = "none"
  /\ Outstanding(m) # <<>> /\ Free(m)
  /\ Go(c, [NoClient EXCEPT !.at = "busy", !.msg = m, !.expect = << <<"220">> >>])
  /\ session' = [session EXCEPT ![c].at = "queued"]
  /\ wire' = [wire EXCEPT ![c] = <<>>] /\ back' = [back EXCEPT ![c] = <<>>]
  /\ eof' = [eof EXCEPT ![c] = FALSE]
  /\ UNCHANGED <<body, box, queue, outcome, faults>>

\* MAIL, the recipients still to be tried and DATA in one burst, with or without SIZE.
SendEnvelope(c, m) ==
  LET rcpts == [i \in DOMAIN Outstanding(m) |-> <<"RCPT", Outstanding(m)[i]>>]
  IN \E size \in {0, Bytes(body[m])} :
       /\ Send(c, << <<"MAIL", size>> >> \o rcpts \o << <<"DATA">> >>)
       /\ Go(c, [at |-> "busy", msg |-> m, accepted |-> <<>>,
                 expect |-> << <<"MAIL">> >> \o rcpts \o << <<"DATA">> >>])

Expecting(c, what) ==
  /\ client[c].at = "busy" /\ client[c].expect # <<>> /\ Head(client[c].expect)[1] \in what
  /\ back[c] # <<>>
  /\ back' = [back EXCEPT ![c] = Tail(@)]

Next1(c) == [client[c] EXCEPT !.expect = Tail(@)]
Hear(c) == Head(back[c])

\* 2xx delivers, 5xx bounces, 4xx leaves the recipients in the queue.
Settle(m, rcpts, code) ==
  LET pairs == ({m} \X rcpts) \ (delivered \union bounced)
  IN /\ delivered' = IF Class(code) = 2 THEN delivered \union pairs ELSE delivered
     /\ bounced' = IF Class(code) = 5 THEN bounced \union pairs ELSE bounced

\* A client that tries SMTP's greeting first is told to use LHLO.
ReadGreeting(c) ==
  /\ Expecting(c, {"220"})
  /\ \/ /\ Hear(c) = 220
        /\ \E pre \in {<<>>, << <<"HELO">> >>} :
             /\ Send(c, pre \o << <<"LHLO">> >>)
             /\ Go(c, [client[c] EXCEPT !.expect = pre \o << <<"LHLO">> >>])
     \/ /\ Hear(c) = 421
        /\ Go(c, NoClient) /\ UNCHANGED wire
  /\ ClientOnly /\ UNCHANGED <<eof, queue>>

ReadLhlo(c) ==
  /\ Expecting(c, {"LHLO"})
  /\ SendEnvelope(c, client[c].msg)
  /\ ClientOnly /\ UNCHANGED <<eof, queue>>

ReadMail(c) ==
  /\ Expecting(c, {"MAIL"})
  /\ IF Class(Hear(c)) = 2 THEN UNCHANGED queue
     ELSE Settle(client[c].msg, Range(Outstanding(client[c].msg)), Hear(c))
  /\ Go(c, Next1(c))
  /\ ClientOnly /\ UNCHANGED <<wire, eof>>

ReadRcpt(c) ==
  LET r == Head(client[c].expect)[2]
  IN /\ Expecting(c, {"RCPT"})
     /\ IF Class(Hear(c)) = 2
          THEN Go(c, [Next1(c) EXCEPT !.accepted = Append(@, r)]) /\ UNCHANGED queue
          ELSE Go(c, Next1(c)) /\ Settle(client[c].msg, {r}, Hear(c))
     /\ ClientOnly /\ UNCHANGED <<wire, eof>>

\* The client doubles the dot of every line that starts with one.
Stuff(l) == IF l # <<>> /\ l[1] = "." THEN Dot \o l ELSE l
Transmission(m) == [i \in DOMAIN body[m] |-> Stuff(body[m][i])] \o <<Dot>>

\* 354 is followed by the message; after anything else the transaction is reset.
ReadDataReply(c) ==
  LET k == client[c]
      finals == [i \in DOMAIN k.accepted |-> <<"FINAL", k.accepted[i]>>]
  IN /\ Expecting(c, {"DATA"})
     /\ \/ /\ Hear(c) = 354
           /\ Send(c, Transmission(k.msg))
           /\ Go(c, [k EXCEPT !.expect = finals])
           /\ UNCHANGED queue
        \/ /\ Hear(c) # 354
           /\ Settle(k.msg, Range(k.accepted), Hear(c))
           /\ Send(c, << <<"RSET">> >>)
           /\ Go(c, [k EXCEPT !.expect = << <<"RSET">> >>])
     /\ ClientOnly /\ UNCHANGED eof

ReadFinal(c) ==
  /\ Expecting(c, {"FINAL"})
  /\ Settle(client[c].msg, {Head(client[c].expect)[2]}, Hear(c))
  /\ Go(c, Next1(c))
  /\ ClientOnly /\ UNCHANGED <<wire, eof>>

ReadOther(c) ==
  /\ Expecting(c, {"HELO", "RSET"})
  /\ Go(c, Next1(c))
  /\ ClientOnly /\ UNCHANGED <<wire, eof, queue>>

\* Everything is answered: another message on this connection, or QUIT.
NextMessage(c, m) ==
  /\ client[c].at = "busy" /\ client[c].expect = <<>>
  /\ Outstanding(m) # <<>> /\ (Free(m) \/ client[c].msg = m)
  /\ SendEnvelope(c, m)
  /\ ClientOnly /\ UNCHANGED <<back, eof, queue>>

Quit(c) ==
  /\ client[c].at = "busy" /\ client[c].expect = <<>>
  /\ Send(c, << <<"QUIT">> >>)
  /\ Go(c, [client[c] EXCEPT !.expect = << <<"QUIT">> >>])
  /\ ClientOnly /\ UNCHANGED <<back, eof, queue>>

ReadBye(c) ==
  /\ Expecting(c, {"QUIT"})
  /\ Go(c, NoClient)
  /\ ClientOnly /\ UNCHANGED <<wire, eof, queue>>

\* The server closed the connection: what is not settled stays in the queue.
SeeClosed(c) ==
  /\ client[c].at = "busy" /\ back[c] = <<>> /\ session[c].at = "none"
  /\ Go(c, NoClient)
  /\ ClientOnly /\ UNCHANGED <<link, queue>>

\* The lines still to be read if the connection breaks: a prefix of those sent,
\* perhaps with a line of text cut short (ReadLine returns it like a whole one).
Cut(ls) ==
  {SubSeq(ls, 1, n) : n \in 0..Len(ls)}
    \union {Append(SubSeq(ls, 1, n), SubSeq(ls[n + 1], 1, 1)) :
              n \in {i \in 0..(Len(ls) - 1) : Len(ls[i + 1]) > 1 /\ ls[i + 1][1] \in {".", "a"}}}

\* Postfix times out or dies, or the network does: the session reads to the cut.
ConnectionDies(c) ==
  /\ client[c].at = "busy" /\ session[c].at # "none"
  /\ \E ls \in Cut(wire[c]) : wire' = [wire EXCEPT ![c] = ls]
  /\ back' = [back EXCEPT ![c] = <<>>]
  /\ Go(c, NoClient) /\ eof' = [eof EXCEPT ![c] = TRUE]
  /\ Fault /\ UNCHANGED <<body, box, session, outcome, queue>>

ClientStep(c) ==
  \/ ReadGreeting(c) \/ ReadLhlo(c) \/ ReadMail(c) \/ ReadRcpt(c) \/ ReadDataReply(c)
  \/ ReadFinal(c) \/ ReadOther(c) \/ ReadBye(c) \/ SeeClosed(c) \/ Quit(c)
  \/ \E m \in Msgs : Connect(c, m) \/ NextMessage(c, m)

Next ==
  \/ \E c \in Conns : SessionStep(c) \/ PutFails(c) \/ SessionDies(c)
  \/ \E c \in Conns : ClientStep(c) \/ ConnectionDies(c)
  \/ \E i \in Inboxes : InboxCloses(i)

Fairness == \A c \in Conns : WF_vars(SessionStep(c)) /\ WF_vars(ClientStep(c))
Spec == Init /\ [][Next]_vars /\ Fairness

-----------------------------------------------------------------------------
(* Properties.                                                             *)

\* A recipient Postfix was told 250 for has the whole message, every dot in place:
\* no reply of one transaction is taken for that of another.
AckedIsStored ==
  \A m \in Msgs, i \in Inboxes :
    <<m, i>> \in delivered => [inbox |-> i, lines |-> body[m]] \in stored

Unacceptable(m) ==
  \/ Bytes(body[m]) > MaxBytes
  \/ \E i \in DOMAIN body[m] : Len(Stuff(body[m][i])) > MaxLineBytes

\* Postfix gives up on a recipient only for a message no session may accept, because
\* an inbox of that message was closed, or because the bytes of this very message,
\* for this recipient, lost their row to a deletion: a session that falls out of
\* step with its client bounces mail for no reason.
BouncedForCause ==
  \A <<m, i>> \in bounced :
    \/ Unacceptable(m)
    \/ \E r \in Range(To[m]) : box[r] # "open"
    \/ [inbox |-> i, lines |-> body[m]] \in raced

\* What an inbox receives is a message addressed to it, or the part of one that
\* arrived before the connection broke: never lines of the dialogue or an
\* envelope of an earlier transaction.
StoredIsMeant ==
  \A d \in stored :
    \E m \in Msgs :
      /\ Contains(To[m], d.inbox)
      /\ \/ IsPrefix(d.lines, body[m])
         \/ /\ d.lines # <<>>
            /\ Len(d.lines) <= Len(body[m])
            /\ IsPrefix(Front(d.lines), body[m])
            /\ IsPrefix(Last(d.lines), Stuff(body[m][Len(d.lines)]))

\* Once connections stop breaking, every recipient is delivered to or bounced:
\* no session slot, lock-step wait or retry loop keeps mail in the queue forever.
EverySettled == <>[](\A m \in Msgs : Outstanding(m) = <<>>)

\* Every stored message is a whole one, so that a redelivery repeats it and shares
\* its content object, as the decision record on delivery describes a retry.
StoredIsWhole ==
  \A d \in stored : \E m \in Msgs : d.lines = body[m]
=============================================================================
