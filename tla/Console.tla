------------------------------- MODULE Console -------------------------------
(***************************************************************************)
(* The web console's mailbox (useMailbox.ts): one view that overlapping    *)
(* requests, the poll timer and the user change.                           *)
(*                                                                         *)
(* JavaScript runs one callback at a time, so a callback up to its next    *)
(* await is one step.  A request is sent, its headers arrive ("body"), its *)
(* body is applied.  Starting an operation aborts the one that is active;  *)
(* deletions are not tied to the active request.  An abort that hits a     *)
(* body is reported by the client as an unexpected answer, because reading *)
(* the body swallows the AbortError; the aborted operation's catch and     *)
(* finally run before any other callback, so they belong to the step.      *)
(*                                                                         *)
(* Inbox "a" exists and the user has its token; "b" is what Create makes.  *)
(* Mail arrives for "a" only and is numbered in its order.  Downloads and  *)
(* inline images change nothing but the error; a hidden tab polls later.   *)
(***************************************************************************)
EXTENDS Integers, Sequences, SequencesExt, FiniteSets

CONSTANTS
  Limit,       \* page size
  MaxMail,     \* bound on the messages that arrive
  MaxClicks,   \* bound on the user's actions
  MaxFaults    \* bound on failing requests

ASSUME ConsoleAssumption ==
  Limit \in Nat \ {0} /\ MaxMail \in Nat /\ MaxClicks \in Nat /\ MaxFaults \in Nat

VARIABLES
  sessions,  \* the server is configured for browser sessions
  mail,      \* messages of "a" that arrived, numbered 1 .. mail
  removed,   \* those that were deleted
  ended,     \* Inboxes that were deleted
  cookie,    \* the Inbox of the browser's session cookie
  view,      \* the refs of useMailbox
  active,    \* the operation of activeRequest
  deleting,  \* a message deletion under way
  ending,    \* an Inbox deletion under way
  clicks, faults,
  deleted,   \* history: messages whose deletion was confirmed to the view
  left,      \* history: the user left a session and the view says so
  fresh      \* history: messages that had arrived when the first page was last read,
             \* and whether ever more than a page came in between

server == <<sessions, mail, removed, ended>>
loose == <<deleting, ending>>
history == <<deleted, left, fresh>>
vars == <<server, cookie, view, active, loose, clicks, faults, history>>

None == "none"
NoOp ==
  [kind |-> None, stage |-> None, by |-> None, session |-> FALSE, arg |-> 0, items |-> <<>>,
   next |-> 0, at |-> 0]

\* A request that is sent in the name of Inbox by, with its token.
Op(kind, by, arg) == [NoOp EXCEPT !.kind = kind, !.stage = "sent", !.by = by, !.arg = arg]
NoView ==
  [phase |-> "welcome", token |-> None, session |-> FALSE, inbox |-> None, list |-> <<>>,
   cursor |-> 0, selected |-> 0, refreshing |-> FALSE, loadingMore |-> FALSE,
   leaving |-> FALSE, timer |-> FALSE, expanded |-> FALSE]

\* restoreSession begins when the page is loaded.
Init ==
  /\ sessions \in BOOLEAN /\ mail \in 0 .. 2 /\ removed = {} /\ ended = {}
  /\ cookie \in IF sessions THEN {None, "a"} ELSE {None}
  /\ view = NoView /\ active = Op("restore", cookie, 0)
  /\ deleting = NoOp /\ ending = NoOp /\ clicks = 0 /\ faults = 0
  /\ deleted = {} /\ left = FALSE /\ fresh = [seen |-> 0, overrun |-> FALSE]

-----------------------------------------------------------------------------
\* Mutant: an aborted refresh or page leaves its flag to its owner.
AbortedKeepsFlags(v) == v

\* The finally blocks of the aborted operation.
Aborted(v) ==
  CASE active.kind = "refresh" -> [v EXCEPT !.refreshing = FALSE]
    [] active.kind = "more" -> [v EXCEPT !.loadingMore = FALSE]
    [] active.kind = "leave" -> [v EXCEPT !.leaving = FALSE]
    [] OTHER -> v

HandleError(v) == [v EXCEPT !.phase = "error", !.timer = FALSE]

\* cancelActiveRequest, then v, then what the aborted operation still does.
Cancel(v) ==
  view' = IF active.stage = "body" /\ active.kind \in {"refresh", "get", "open", "open_list", "create"}
            THEN HandleError(Aborted(v)) ELSE Aborted(v)

\* The token if the view has one, else the cookie the browser adds.
Credential == IF view.token # None THEN view.token ELSE cookie

\* A list is asked for with the token or with the session.
ListOp(kind, by, arg, session) == [Op(kind, by, arg) EXCEPT !.session = session]

SchedulePoll(v) == [v EXCEPT !.timer = (v.phase = "inbox")]

Click == clicks < MaxClicks /\ clicks' = clicks + 1
Workspace == view.phase \in {"inbox", "detail"} /\ view.inbox # None

CreateInbox ==
  /\ view.phase = "welcome" /\ Click
  /\ Cancel([view EXCEPT !.phase = "creating"])
  /\ active' = Op("create", None, 0) /\ left' = FALSE
  /\ UNCHANGED <<server, cookie, loose, faults, deleted, fresh>>

\* openInbox, with a token that was typed in or has just been issued.
OpenInbox ==
  /\ Click
  /\ \/ view.phase = "welcome" /\ active' = Op("open", "a", 0)
     \/ view.phase = "issued" /\ active' = Op("open", view.token, 0)
  /\ Cancel([view EXCEPT !.phase = "opening"])
  /\ left' = FALSE
  /\ UNCHANGED <<server, cookie, loose, faults, deleted, fresh>>

Refreshable ==
  view.phase = "inbox" /\ (view.token # None \/ view.session) /\ ~view.refreshing
BeginRefresh(v) ==
  /\ Cancel([v EXCEPT !.refreshing = TRUE])
  /\ active' = ListOp("refresh", Credential, 0, view.token = None)

RefreshMessages ==
  /\ Workspace /\ Refreshable /\ ~view.loadingMore /\ Click
  /\ BeginRefresh(view)
  /\ UNCHANGED <<server, cookie, loose, faults, history>>

\* The timer fires; with a refresh under way nothing happens.
Poll ==
  /\ view.timer
  /\ IF Refreshable THEN BeginRefresh([view EXCEPT !.timer = FALSE])
     ELSE view' = [view EXCEPT !.timer = FALSE] /\ UNCHANGED active
  /\ UNCHANGED <<server, cookie, loose, clicks, faults, history>>

LoadMoreMessages ==
  /\ Workspace /\ view.phase = "inbox" /\ view.cursor # 0
  /\ ~view.loadingMore /\ ~view.refreshing /\ Click
  /\ Cancel([view EXCEPT !.timer = FALSE, !.loadingMore = TRUE])
  /\ active' = ListOp("more", Credential, view.cursor, view.token = None)
  /\ UNCHANGED <<server, cookie, loose, faults, history>>

OpenMessage ==
  /\ Workspace /\ Click
  /\ \E m \in ToSet(view.list) : active' = Op("get", Credential, m)
  /\ Cancel([view EXCEPT !.timer = FALSE])
  /\ UNCHANGED <<server, cookie, loose, faults, history>>

Closed(v) == SchedulePoll([v EXCEPT !.selected = 0, !.phase = "inbox"])

\* Mutant: closing leaves the active request alone.
CloseOnly(v) == view' = Closed(v) /\ UNCHANGED active

\* closeMessage.
Close(v) == Cancel(Closed(v)) /\ active' = NoOp

CloseMessage ==
  /\ Workspace /\ view.phase = "detail" /\ Click
  /\ Close(view)
  /\ UNCHANGED <<server, cookie, loose, faults, history>>

DeleteMessage ==
  /\ Workspace /\ view.phase = "detail" /\ deleting = NoOp /\ Click
  /\ deleting' = Op("delete", Credential, view.selected)
  /\ UNCHANGED <<server, cookie, view, active, ending, faults, history>>

DeleteInbox ==
  /\ Workspace /\ ending = NoOp /\ Click
  /\ ending' = Op("end", Credential, 0)
  /\ UNCHANGED <<server, cookie, view, active, deleting, faults, history>>

\* resetLocal.
Reset == Cancel([NoView EXCEPT !.leaving = view.leaving]) /\ active' = NoOp

\* leaveInbox: a session has to be ended at the server first.
LeaveInbox ==
  /\ view.inbox # None \/ view.phase = "error"
  /\ ~view.leaving /\ Click
  /\ IF view.session
       THEN Cancel([view EXCEPT !.timer = FALSE, !.leaving = TRUE]) /\ active' = Op("leave", cookie, 0)
       ELSE Reset
  /\ UNCHANGED <<server, cookie, loose, faults, history>>

-----------------------------------------------------------------------------
\* The server's side.
Arrive ==
  /\ mail < MaxMail /\ "a" \notin ended /\ mail' = mail + 1
  /\ UNCHANGED <<sessions, removed, ended, cookie, view, active, loose, clicks, faults, history>>

Present == IF "a" \in ended THEN {} ELSE (1 .. mail) \ removed
PageOf(inbox, before) ==
  LET all == IF inbox = "a" THEN Present ELSE {}
      found == SetToSortSeq({m \in all : before # 0 => m < before}, >)
      items == SubSeq(found, 1, IF Len(found) < Limit THEN Len(found) ELSE Limit)
  IN [items |-> items, next |-> IF Len(found) > Limit THEN items[Limit] ELSE 0]

\* Whether the server grants a request: the Inbox lives, a message asked for exists, and
\* session calls need sessions.  A session outlives its Inbox: it may be ended, and the
\* list it gets is empty.  Creation is open to all.
Granted(op) ==
  \/ op.kind = "create"
  \/ /\ op.by # None
     /\ op.by \notin ended \/ op.session \/ op.kind = "leave"
     /\ op.kind \in {"get", "mark", "delete"} => op.by = "a" /\ op.arg \in Present

\* A request is answered and its headers arrive, with the cookie of a session.
Serve ==
  /\ active.stage = "sent" /\ Granted(active)
  /\ LET page == PageOf(active.by, IF active.kind = "more" THEN active.arg ELSE 0)
     IN active' = IF active.kind \in {"refresh", "more", "open_list", "restore_list"}
                    THEN [active EXCEPT !.stage = "body", !.items = page.items,
                                        !.next = page.next, !.at = mail]
                    ELSE [active EXCEPT !.stage = "body"]
  /\ cookie' = IF active.kind = "open" /\ sessions THEN active.by
               ELSE IF active.kind = "leave" THEN None ELSE cookie
  /\ UNCHANGED <<server, view, loose, clicks, faults, history>>

-----------------------------------------------------------------------------
\* A body arrives in full and its continuation runs.
Got(kind) == active.stage = "body" /\ active.kind = kind

GotInbox ==
  /\ Got("create")
  /\ view' = [view EXCEPT !.token = "b", !.inbox = "b", !.phase = "issued"]
  /\ active' = NoOp
  /\ UNCHANGED <<server, cookie, loose, clicks, faults, history>>

\* The exchanged session, or without sessions the Inbox; the list comes next.
GotSession ==
  /\ Got("open") \/ Got("restore")
  /\ IF active.kind = "open"
       THEN /\ view' = [view EXCEPT !.session = sessions]
            /\ active' = ListOp("open_list", active.by, 0, sessions)
       ELSE UNCHANGED view /\ active' = ListOp("restore_list", active.by, 0, TRUE)
  /\ UNCHANGED <<server, cookie, loose, clicks, faults, history>>

FirstPage(v) == [v EXCEPT !.list = active.items, !.cursor = active.next, !.expanded = FALSE]
ReadUpTo == fresh' = [seen |-> active.at, overrun |-> FALSE]

GotFirstPage ==
  /\ Got("open_list") \/ Got("restore_list")
  /\ view' = SchedulePoll([FirstPage(view) EXCEPT
       !.token = IF active.kind = "open_list" /\ ~sessions THEN active.by
                 ELSE IF active.kind = "open_list" THEN None ELSE @,
       !.session = sessions, !.inbox = active.by, !.phase = "inbox"])
  /\ active' = NoOp /\ ReadUpTo
  /\ UNCHANGED <<server, cookie, loose, clicks, faults, deleted, left>>

\* Mutant: the latest page replaces the list, and the cursor stays behind it.
MergedLatestOnly == active.items

\* New messages in front, known ones updated in place of their old row.
Merged ==
  active.items \o SelectSeq(view.list, LAMBDA m : m \notin ToSet(active.items))

GotRefresh ==
  /\ Got("refresh")
  /\ LET v == [view EXCEPT !.refreshing = FALSE]
     IN view' = SchedulePoll(IF view.expanded THEN [v EXCEPT !.list = Merged]
                             ELSE [v EXCEPT !.list = active.items, !.cursor = active.next])
  /\ active' = NoOp
  /\ fresh' = [seen |-> active.at,
               overrun |-> view.expanded /\ (fresh.overrun \/ active.at > fresh.seen + Limit)]
  /\ UNCHANGED <<server, cookie, loose, clicks, faults, deleted, left>>

\* Mutant: the poll is not scheduled again after older messages were loaded.
WithMoreUnpolled(v) == [v EXCEPT !.loadingMore = FALSE]

\* The finally block of loadMoreMessages.
WithMore(v) == SchedulePoll([v EXCEPT !.loadingMore = FALSE])

GotMore ==
  /\ Got("more")
  /\ LET known == ToSet(view.list)
     IN view' = WithMore([view EXCEPT
          !.list = @ \o SelectSeq(active.items, LAMBDA m : m \notin known),
          !.cursor = active.next, !.expanded = TRUE])
  /\ active' = NoOp
  /\ UNCHANGED <<server, cookie, loose, clicks, faults, history>>

\* The detail is shown; if it was unread it is marked.
GotMessage ==
  /\ Got("get")
  /\ view' = [view EXCEPT !.selected = active.arg, !.phase = "detail"]
  /\ active' = NoOp \/ active' = Op("mark", active.by, active.arg)
  /\ UNCHANGED <<server, cookie, loose, clicks, faults, history>>

GotMark ==
  /\ Got("mark") /\ active' = NoOp
  /\ UNCHANGED <<server, cookie, view, loose, clicks, faults, history>>

\* The session was ended at the server, or had ended already.
Leave ==
  /\ view' = NoView /\ active' = NoOp /\ left' = TRUE

GotLeft ==
  /\ Got("leave") /\ Leave
  /\ UNCHANGED <<server, cookie, loose, clicks, faults, deleted, fresh>>

\* Mutant: whatever the answer, the view forgets the session.
LeaveFailedForgets == Leave

\* A failed end of the session leaves it for another try.
LeaveFailed ==
  /\ view' = HandleError([view EXCEPT !.leaving = FALSE])
  /\ active' = NoOp /\ UNCHANGED left

\* An error answer: each operation's catch and finally.
Failed ==
  IF active.kind = "leave" THEN LeaveFailed
  ELSE /\ view' = CASE active.kind \in {"restore", "restore_list", "mark"} -> view
                    [] active.kind = "more" -> WithMore(view)
                    [] active.kind = "refresh" -> HandleError([view EXCEPT !.refreshing = FALSE])
                    [] OTHER -> HandleError(view)
       /\ active' = NoOp /\ UNCHANGED left

\* The server refuses: the Inbox, the message or the session is not there any more.
Refuse ==
  /\ active.stage = "sent" /\ ~Granted(active)
  /\ IF active.kind = "leave" THEN Leave ELSE Failed
  /\ UNCHANGED <<server, cookie, loose, clicks, faults, deleted, fresh>>

\* The network or the server fails.  restoreSession passes over the network only.
Fault ==
  /\ active.stage = "sent" /\ faults < MaxFaults /\ faults' = faults + 1
  /\ \/ Failed
     \/ /\ active.kind \in {"restore", "restore_list"}
        /\ view' = HandleError(view) /\ active' = NoOp /\ UNCHANGED left
  /\ UNCHANGED <<server, cookie, loose, clicks, deleted, fresh>>

-----------------------------------------------------------------------------
\* Deletions, which nothing aborts.
ServeDelete ==
  /\ deleting.stage = "sent" /\ Granted(deleting)
  /\ removed' = removed \union {deleting.arg}
  /\ deleting' = [deleting EXCEPT !.stage = "body"]
  /\ UNCHANGED <<sessions, mail, ended, cookie, view, active, ending, clicks, faults, history>>

\* Whatever is on screen by now gives way to the list.
GotDeleted ==
  /\ deleting.stage = "body"
  /\ Close([view EXCEPT !.list = SelectSeq(@, LAMBDA m : m # deleting.arg)])
  /\ deleted' = deleted \union {deleting.arg} /\ deleting' = NoOp
  /\ UNCHANGED <<server, cookie, ending, clicks, faults, left, fresh>>

ServeEnd ==
  /\ ending.stage = "sent" /\ Granted(ending)
  /\ ended' = ended \union {ending.by}
  /\ cookie' = None
  /\ ending' = [ending EXCEPT !.stage = "body"]
  /\ UNCHANGED <<sessions, mail, removed, view, active, deleting, clicks, faults, history>>

GotEnded ==
  /\ ending.stage = "body" /\ Reset /\ ending' = NoOp
  /\ UNCHANGED <<server, cookie, deleting, clicks, faults, history>>

DeletionFails ==
  /\ \/ deleting.stage = "sent" /\ ~Granted(deleting) /\ deleting' = NoOp /\ UNCHANGED ending
     \/ ending.stage = "sent" /\ ~Granted(ending) /\ ending' = NoOp /\ UNCHANGED deleting
  /\ view' = HandleError(view)
  /\ UNCHANGED <<server, cookie, active, clicks, faults, history>>

\* The network fails before the server or after it; then what is deleted is deleted, but
\* the answer, with the cookie's removal, is lost.
DeletionFault ==
  /\ faults < MaxFaults /\ faults' = faults + 1
  /\ \/ /\ deleting.stage = "sent" /\ deleting' = NoOp
        /\ removed' = removed \/ (Granted(deleting) /\ removed' = removed \union {deleting.arg})
        /\ UNCHANGED <<ended, ending>>
     \/ /\ ending.stage = "sent" /\ ending' = NoOp
        /\ ended' = ended \/ (Granted(ending) /\ ended' = ended \union {ending.by})
        /\ UNCHANGED <<removed, deleting>>
  /\ view' = HandleError(view)
  /\ UNCHANGED <<sessions, mail, cookie, active, clicks, history>>

User ==
  \/ CreateInbox \/ OpenInbox \/ RefreshMessages \/ LoadMoreMessages \/ OpenMessage
  \/ CloseMessage \/ DeleteMessage \/ DeleteInbox \/ LeaveInbox
Answers ==
  \/ GotInbox \/ GotSession \/ GotFirstPage \/ GotRefresh \/ GotMore \/ GotMessage
  \/ GotMark \/ GotLeft \/ Refuse
Deletions == ServeDelete \/ GotDeleted \/ ServeEnd \/ GotEnded \/ DeletionFails \/ DeletionFault

Next == User \/ Poll \/ Arrive \/ Serve \/ Answers \/ Fault \/ Deletions

Spec == Init /\ [][Next]_vars
FairSpec == Spec /\ WF_vars(Poll) /\ WF_vars(Serve) /\ WF_vars(Answers)

-----------------------------------------------------------------------------
\* Types, and a detail is shown only with a message.
TypeOK ==
  /\ view.inbox \in {None, "a", "b"} /\ cookie \in {None, "a", "b"}
  /\ ToSet(view.list) \subseteq 1 .. mail /\ view.cursor \in 0 .. mail
  /\ view.phase = "detail" => view.selected # 0

\* A busy flag stands for the operation that is active, so no button stays locked.
FlagsMeanWork ==
  /\ view.refreshing => active.kind = "refresh"
  /\ view.loadingMore => active.kind = "more"
  /\ view.leaving => active.kind = "leave"

\* No late answer brings back what is gone: the list never shows messages of another
\* Inbox than the one on screen, nor a message whose deletion was confirmed.  (A late
\* deletion may leave no Inbox on screen at all, see GotDeleted.)
NothingComesBack ==
  /\ view.list # <<>> => view.inbox # "b"
  /\ ToSet(view.list) \intersect deleted = {}

\* Between the newest and the oldest message on screen none is missing that had arrived
\* when the first page was last read.
Whole ==
  view.inbox = "a" /\ view.list # <<>> =>
    \A m \in Present : m <= fresh.seen /\ m > Last(view.list) => m \in ToSet(view.list)

\* That holds as long as no more than a page arrived between two refreshes.
WholeUnlessOverrun == ~fresh.overrun => Whole

\* The view says that the user has left a session only when the cookie is gone.
LeftIsCleared == left => cookie = None

\* While the list of Inbox "a" is on screen, new mail is read by a poll in the end.
MailAppears ==
  \A n \in 1 .. MaxMail :
    (view.phase = "inbox" /\ view.inbox = "a" /\ mail >= n)
      ~> (fresh.seen >= n \/ view.phase # "inbox" \/ view.inbox # "a")
=============================================================================
