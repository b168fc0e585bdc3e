-------------------------------- MODULE Inbox --------------------------------
(***************************************************************************)
(* A user's notifications and the pages on which they are read, archived   *)
(* and deleted.  A page's list is fetched when the page or the badge of    *)
(* the navigation mounts and when its window gets the focus; archiving and *)
(* deleting do not fetch it again, so what a page shows, and the buttons   *)
(* it offers, may be old.                                                  *)
(***************************************************************************)
EXTENDS Naturals

CONSTANTS Messages, Pages,
          MaxRequests,  \* archive and delete requests
          MaxTurns      \* changes of the memos a message is about, lost requests

VARIABLES inboxRow,    \* the status in the table, unsent before and none after
          readable,    \* the messages whose memos the receiver may read
          shown,       \* what a page shows of a message
          fetching,    \* the list request of a page
          inboxCalls,  \* the archive and delete requests under way
          requests, turns,
          unreadGone   \* history: messages deleted unread that no page showed as broken

inboxVars == <<inboxRow, readable, shown, fetching, inboxCalls, requests, turns, unreadGone>>

Absent == [status |-> "none", payload |-> FALSE]
NoInboxFetch == <<>>

(* The notification of a row: it has a payload if the memos can be read.   *)
convertInboxToUserNotification(m) ==
  IF inboxRow[m] \in {"unsent", "none"} THEN Absent ELSE [status |-> inboxRow[m], payload |-> m \in readable]

----------------------------------------------------------------------------
(* The server.                                                             *)

(* A comment on a memo of the receiver, or a mention of the receiver.      *)
CreateInbox(m) ==
  /\ inboxRow[m] = "unsent"
  /\ inboxRow' = [inboxRow EXCEPT ![m] = "UNREAD"]
  /\ UNCHANGED <<readable, shown, fetching, inboxCalls, requests, turns, unreadGone>>

(* A memo of the message is deleted or made private, or shared again.      *)
AccessChanges(m) ==
  /\ turns < MaxTurns
  /\ turns' = turns + 1
  /\ readable' = IF m \in readable THEN readable \ {m} ELSE readable \cup {m}
  /\ UNCHANGED <<inboxRow, shown, fetching, inboxCalls, requests, unreadGone>>

UpdateUserNotification(m) ==
  inboxRow' = IF inboxRow[m] = "none" THEN inboxRow ELSE [inboxRow EXCEPT ![m] = "ARCHIVED"]

DeleteUserNotification(m) == inboxRow' = [inboxRow EXCEPT ![m] = "none"]

(* A request is served, or is lost before it is; its answer only decides   *)
(* on a toast.                                                             *)
ServeInbox(c) ==
  /\ inboxCalls' = inboxCalls \ {c}
  /\ \/ c.op = "archive" /\ UpdateUserNotification(c.message) /\ UNCHANGED <<turns, unreadGone>>
     \/ /\ c.op = "delete" /\ DeleteUserNotification(c.message)
        /\ unreadGone' = IF inboxRow[c.message] = "UNREAD" /\ ~c.broken
                         THEN unreadGone \cup {c.message} ELSE unreadGone
        /\ UNCHANGED turns
     \/ turns < MaxTurns /\ turns' = turns + 1 /\ UNCHANGED <<inboxRow, unreadGone>>
  /\ UNCHANGED <<readable, shown, fetching, requests>>

----------------------------------------------------------------------------
(* The pages.                                                              *)

FetchInbox(p) ==
  /\ fetching[p] = NoInboxFetch
  /\ fetching' = [fetching EXCEPT ![p] = <<"sent">>]
  /\ UNCHANGED <<inboxRow, readable, shown, inboxCalls, requests, turns, unreadGone>>

ListUserNotifications(p) ==
  /\ fetching[p] = <<"sent">>
  /\ fetching' = [fetching EXCEPT ![p] = <<"served", [m \in Messages |-> convertInboxToUserNotification(m)]>>]
  /\ UNCHANGED <<inboxRow, readable, shown, inboxCalls, requests, turns, unreadGone>>

InboxArrives(p) ==
  /\ fetching[p] # NoInboxFetch /\ fetching[p] # <<"sent">>
  /\ shown' = [shown EXCEPT ![p] = fetching[p][2]]
  /\ fetching' = [fetching EXCEPT ![p] = NoInboxFetch]
  /\ UNCHANGED <<inboxRow, readable, inboxCalls, requests, turns, unreadGone>>

SendInbox(p, m, operation) ==
  /\ requests < MaxRequests
  /\ requests' = requests + 1
  /\ inboxCalls' = inboxCalls \cup {[op |-> operation, message |-> m, broken |-> ~shown[p][m].payload]}
  /\ UNCHANGED <<inboxRow, readable, shown, fetching, turns, unreadGone>>

(* The check mark, or opening the memo of an unread message.               *)
handleArchiveMessage(p, m) ==
  /\ shown[p][m].payload /\ shown[p][m].status = "UNREAD"
  /\ SendInbox(p, m, "archive")

(* Mutant: the delete button does not look at the status.                  *)
OfferedAlways(n) == n.status # "none"

(* The delete button: on a message that is not unread, and on one whose    *)
(* memos cannot be read.                                                   *)
OffersDelete(n) == n.status # "none" /\ (~n.payload \/ n.status # "UNREAD")

handleDeleteMessage(p, m) ==
  /\ OffersDelete(shown[p][m])
  /\ SendInbox(p, m, "delete")

----------------------------------------------------------------------------
InboxInit ==
  /\ inboxRow = [m \in Messages |-> "unsent"]
  /\ readable = Messages
  /\ shown = [p \in Pages |-> [m \in Messages |-> Absent]]
  /\ fetching = [p \in Pages |-> NoInboxFetch]
  /\ inboxCalls = {}
  /\ requests = 0
  /\ turns = 0
  /\ unreadGone = {}

InboxNext ==
  \/ \E m \in Messages : CreateInbox(m) \/ AccessChanges(m)
  \/ \E c \in inboxCalls : ServeInbox(c)
  \/ \E p \in Pages : FetchInbox(p) \/ ListUserNotifications(p) \/ InboxArrives(p)
  \/ \E p \in Pages, m \in Messages : handleArchiveMessage(p, m) \/ handleDeleteMessage(p, m)

InboxSpec == InboxInit /\ [][InboxNext]_inboxVars

----------------------------------------------------------------------------
(* However old the lists of the user's pages are: a page that shows a      *)
(* message as read is right that it is not unread, and no page deletes an  *)
(* unread message, except one whose memo it could not show                 *)
(* (MemoCommentMessage.tsx, MemoMentionMessage.tsx, user_service.go).      *)
NoUnreadLost ==
  /\ unreadGone = {}
  /\ \A p \in Pages, m \in Messages : shown[p][m].status = "ARCHIVED" => inboxRow[m] # "UNREAD"
=============================================================================
