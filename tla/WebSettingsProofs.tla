------------------------- MODULE WebSettingsProofs -------------------------
(***************************************************************************)
(* Proofs about Inbox, ImportDialog, SignInFlow, InstanceSettings,         *)
(* SettingsLists and MemoExport, the parts of the browser in which several *)
(* pages, forms, requests or tabs act on one account, one instance or one  *)
(* set of memos, for any numbers of messages, pages, files, tabs, users,   *)
(* external accounts, dialogs, memos and requests and any number of steps  *)
(* and failures.                                                           *)
(***************************************************************************)
EXTENDS SignInFlow, ImportDialog, Inbox, InstanceSettings, SettingsLists,
        MemoExport, ListLemmas, FiniteSetTheorems, SequenceTheorems, TLAPS

(***************************************************************************)
(* Inbox.  A message that is not unread any more never is again, so what a *)
(* page shows as read, or was sent so, is not unread, however old it is.   *)
(***************************************************************************)
Notification == [status : {"none", "UNREAD", "ARCHIVED"}, payload : BOOLEAN]
InboxCall == [op : {"archive", "delete"}, message : Messages, broken : BOOLEAN]

Handled(m) == inboxRow[m] \in {"ARCHIVED", "none"}
TrueOf(n) == \A m \in Messages : n[m].status = "ARCHIVED" => Handled(m)

InboxTypeOK ==
    /\ inboxRow \in [Messages -> {"unsent", "UNREAD", "ARCHIVED", "none"}]
    /\ shown \in [Pages -> [Messages -> Notification]]
    /\ DOMAIN fetching = Pages
    /\ inboxCalls \subseteq InboxCall

FetchInv(p) ==
    \/ fetching[p] \in {NoInboxFetch, <<"sent">>}
    \/ \E n \in [Messages -> Notification] : fetching[p] = <<"served", n>> /\ TrueOf(n)

InboxInv ==
    /\ InboxTypeOK
    /\ unreadGone = {}
    /\ \A p \in Pages : TrueOf(shown[p]) /\ FetchInv(p)
    /\ \A c \in inboxCalls : c.op = "delete" /\ ~c.broken => Handled(c.message)


LEMMA InboxInitInv == InboxInit => InboxInv
  <1> SUFFICES ASSUME InboxInit PROVE InboxInv
    OBVIOUS
  <1>1. Absent \in Notification /\ Absent.status # "ARCHIVED"
    BY DEF Absent, Notification
  <1>2. shown \in [Pages -> [Messages -> Notification]] /\ \A p \in Pages, m \in Messages : shown[p][m] = Absent
    BY <1>1 DEF InboxInit
  <1>3. InboxTypeOK
    BY <1>2 DEF InboxInit, InboxTypeOK
  <1>4. \A p \in Pages : TrueOf(shown[p]) /\ FetchInv(p)
    BY <1>1, <1>2 DEF InboxInit, TrueOf, FetchInv
  <1> QED
    BY <1>3, <1>4 DEF InboxInit, InboxInv

\* What was handled stays so, and with it everything that was true of it.
LEMMA HandledStays ==
    ASSUME InboxInv, InboxNext
    PROVE  \A m \in Messages : Handled(m) => Handled(m)'
  <1> SUFFICES ASSUME NEW m \in Messages, Handled(m) PROVE inboxRow'[m] \in {"ARCHIVED", "none"}
    BY DEF Handled
  <1>1. ASSUME NEW c \in inboxCalls, ServeInbox(c) PROVE inboxRow'[m] \in {"ARCHIVED", "none"}
    BY <1>1 DEF InboxInv, InboxTypeOK, ServeInbox, UpdateUserNotification, DeleteUserNotification, Handled
  <1>2. ASSUME NEW k \in Messages, CreateInbox(k) PROVE inboxRow'[m] \in {"ARCHIVED", "none"}
    BY <1>2 DEF InboxInv, InboxTypeOK, CreateInbox, Handled
  <1>3. CASE inboxRow' = inboxRow
    BY <1>3 DEF Handled
  <1> QED
    BY <1>1, <1>2, <1>3 DEF InboxNext, AccessChanges, FetchInbox, ListUserNotifications, InboxArrives,
       handleArchiveMessage, handleDeleteMessage, SendInbox

\* A step that leaves the lists of the pages alone.
LEMMA ListsStay ==
    ASSUME InboxInv, InboxNext, UNCHANGED <<shown, fetching>>
    PROVE  \A p \in Pages : TrueOf(shown[p])' /\ FetchInv(p)'
  <1>1. \A n : TrueOf(n) => TrueOf(n)'
    BY HandledStays DEF TrueOf
  <1> SUFFICES ASSUME NEW p \in Pages PROVE TrueOf(shown[p])' /\ FetchInv(p)'
    OBVIOUS
  <1>2. TrueOf(shown[p])'
    BY HandledStays DEF InboxInv, TrueOf
  <1>3. FetchInv(p)'
    BY <1>1 DEF InboxInv, FetchInv
  <1> QED
    BY <1>2, <1>3

LEMMA InboxNextInv ==
    ASSUME InboxInv, [InboxNext]_inboxVars
    PROVE  InboxInv'
  <1>1. CASE UNCHANGED inboxVars
    BY <1>1 DEF inboxVars, InboxInv, InboxTypeOK, TrueOf, Handled, FetchInv
  <1>2. ASSUME NEW m \in Messages, CreateInbox(m) \/ AccessChanges(m), InboxNext
        PROVE  InboxInv'
    <2>1. InboxTypeOK' /\ unreadGone' = {} /\ UNCHANGED <<shown, fetching, inboxCalls>>
      BY <1>2 DEF CreateInbox, AccessChanges, InboxInv, InboxTypeOK
    <2>2. \A p \in Pages : TrueOf(shown[p])' /\ FetchInv(p)'
      BY <1>2, <2>1, ListsStay
    <2>3. \A c \in inboxCalls : c.message \in Messages
      BY DEF InboxInv, InboxTypeOK, InboxCall
    <2>4. \A c \in inboxCalls' : c.op = "delete" /\ ~c.broken => Handled(c.message)'
      BY <1>2, <2>1, <2>3, HandledStays DEF InboxInv, Handled
    <2> QED
      BY <2>1, <2>2, <2>4 DEF InboxInv
  <1>3. ASSUME NEW c \in inboxCalls, ServeInbox(c), InboxNext
        PROVE  InboxInv'
    <2>1. InboxTypeOK' /\ UNCHANGED <<shown, fetching>> /\ inboxCalls' \subseteq inboxCalls
      <3>1. inboxRow' \in [Messages -> {"unsent", "UNREAD", "ARCHIVED", "none"}]
        BY <1>3 DEF ServeInbox, UpdateUserNotification, DeleteUserNotification, InboxInv, InboxTypeOK
      <3> QED
        BY <1>3, <3>1 DEF ServeInbox, InboxInv, InboxTypeOK
    <2>2. \A p \in Pages : TrueOf(shown[p])' /\ FetchInv(p)'
      BY <1>3, <2>1, ListsStay
    <2>3. \A d \in inboxCalls : d.message \in Messages
      BY DEF InboxInv, InboxTypeOK, InboxCall
    <2>4. \A d \in inboxCalls' : d.op = "delete" /\ ~d.broken => Handled(d.message)'
      BY <1>3, <2>1, <2>3, HandledStays DEF InboxInv, Handled
    <2>5. unreadGone' = {}
      BY <1>3 DEF ServeInbox, InboxInv, Handled
    <2> QED
      BY <2>1, <2>2, <2>4, <2>5 DEF InboxInv
  <1>4. ASSUME NEW p \in Pages, FetchInbox(p) \/ ListUserNotifications(p) \/ InboxArrives(p)
        PROVE  InboxInv'
    <2>1. UNCHANGED <<inboxRow, inboxCalls, unreadGone>>
      BY <1>4 DEF FetchInbox, ListUserNotifications, InboxArrives
    <2>2. \A n : TrueOf(n)' <=> TrueOf(n)
      BY <2>1 DEF TrueOf, Handled
    <2>3. \A d \in inboxCalls' : d.op = "delete" /\ ~d.broken => Handled(d.message)'
      BY <2>1 DEF InboxInv, Handled
    <2>4. CASE FetchInbox(p) \/ ListUserNotifications(p)
      <3>1. shown' = shown /\ DOMAIN fetching' = Pages /\ \A q \in Pages \ {p} : fetching'[q] = fetching[q]
        BY <2>4 DEF FetchInbox, ListUserNotifications, InboxInv, InboxTypeOK
      <3>2. FetchInv(p)'
        <4>1. CASE FetchInbox(p)
          BY <4>1 DEF FetchInbox, FetchInv, InboxInv, InboxTypeOK
        <4>2. CASE ListUserNotifications(p)
          <5> DEFINE n == [m \in Messages |-> convertInboxToUserNotification(m)]
          <5>1. \A m \in Messages :
                  /\ convertInboxToUserNotification(m) \in Notification
                  /\ convertInboxToUserNotification(m).status = "ARCHIVED" => Handled(m)
            BY DEF convertInboxToUserNotification, Notification, Absent, InboxInv, InboxTypeOK, Handled
          <5>2. n \in [Messages -> Notification] /\ TrueOf(n)
            BY <5>1 DEF TrueOf
          <5>3. fetching'[p] = <<"served", n>>
            BY <4>2 DEF ListUserNotifications, InboxInv, InboxTypeOK
          <5> HIDE DEF n
          <5> QED
            BY <2>2, <5>2, <5>3 DEF FetchInv
        <4> QED
          BY <2>4, <4>1, <4>2
      <3>3. \A q \in Pages : FetchInv(q)'
        BY <2>2, <3>1, <3>2 DEF InboxInv, FetchInv
      <3>4. InboxTypeOK'
        BY <2>1, <3>1 DEF InboxInv, InboxTypeOK
      <3>5. \A q \in Pages : TrueOf(shown[q])'
        BY <2>1, <3>1 DEF InboxInv, TrueOf, Handled
      <3> QED
        BY <2>1, <2>3, <3>3, <3>4, <3>5 DEF InboxInv
    <2>5. CASE InboxArrives(p)
      <3>1. PICK n \in [Messages -> Notification] : fetching[p] = <<"served", n>> /\ TrueOf(n)
        BY <2>5 DEF InboxArrives, InboxInv, FetchInv
      <3>2. fetching[p][2] = n
        BY <3>1
      <3>3. /\ shown'[p] = n /\ \A q \in Pages \ {p} : shown'[q] = shown[q]
            /\ fetching'[p] = NoInboxFetch /\ \A q \in Pages \ {p} : fetching'[q] = fetching[q]
        BY <2>5, <3>2 DEF InboxArrives, InboxInv, InboxTypeOK
      <3>4. InboxTypeOK'
        <4>1. shown' \in [Pages -> [Messages -> Notification]]
          BY <2>5, <3>2 DEF InboxArrives, InboxInv, InboxTypeOK
        <4> QED
          BY <2>1, <2>5, <4>1 DEF InboxArrives, InboxInv, InboxTypeOK
      <3>5. ASSUME NEW q \in Pages PROVE TrueOf(shown[q])' /\ FetchInv(q)'
        <4>1. CASE q = p
          BY <2>1, <3>1, <3>3, <4>1 DEF TrueOf, Handled, FetchInv
        <4>2. CASE q # p
          BY <2>1, <2>2, <3>3, <4>2 DEF InboxInv, TrueOf, Handled, FetchInv
        <4> QED
          BY <4>1, <4>2
      <3> QED
        BY <2>1, <2>3, <3>4, <3>5 DEF InboxInv
    <2> QED
      BY <1>4, <2>4, <2>5
  <1>5. ASSUME NEW p \in Pages, NEW m \in Messages, handleArchiveMessage(p, m) \/ handleDeleteMessage(p, m), InboxNext
        PROVE  InboxInv'
    <2>1. UNCHANGED <<inboxRow, shown, fetching, unreadGone>>
      BY <1>5 DEF handleArchiveMessage, handleDeleteMessage, SendInbox
    <2>2. shown[p][m] \in Notification
      BY DEF InboxInv, InboxTypeOK
    <2>3. PICK op \in {"archive", "delete"} :
            /\ inboxCalls' = inboxCalls \cup {[op |-> op, message |-> m, broken |-> ~shown[p][m].payload]}
            /\ op = "delete" => OffersDelete(shown[p][m])
      BY <1>5 DEF handleArchiveMessage, handleDeleteMessage, SendInbox
    <2> DEFINE c == [op |-> op, message |-> m, broken |-> ~shown[p][m].payload]
    <2>4. c \in InboxCall
      BY <2>2 DEF InboxCall, Notification
    <2>5. c.op = "delete" /\ ~c.broken => Handled(c.message)
      BY <2>2, <2>3 DEF OffersDelete, InboxInv, TrueOf, Notification
    <2> HIDE DEF c
    <2>6. inboxCalls' = inboxCalls \cup {c}
      BY <2>3 DEF c
    <2>7. InboxTypeOK'
      BY <2>1, <2>4, <2>6 DEF InboxInv, InboxTypeOK
    <2>8. \A d \in inboxCalls' : d.op = "delete" /\ ~d.broken => Handled(d.message)'
      BY <2>1, <2>5, <2>6 DEF InboxInv, Handled
    <2>9. \A q \in Pages : TrueOf(shown[q])' /\ FetchInv(q)'
      BY <1>5, <2>1, ListsStay
    <2> QED
      BY <2>1, <2>7, <2>8, <2>9 DEF InboxInv
  <1> QED
    BY <1>1, <1>2, <1>3, <1>4, <1>5 DEF InboxNext

LEMMA InboxStaysInv == InboxSpec => []InboxInv
  BY InboxInitInv, InboxNextInv, PTL DEF InboxSpec

\* However old the lists of the pages are, and in whatever order requests are
\* served or lost, no page deletes an unread message that it could show, and
\* none shows one as read (MemoCommentMessage.tsx, MemoMentionMessage.tsx,
\* user_service.go).
THEOREM NoUnreadMessageLost == InboxSpec => []NoUnreadLost
  <1>1. InboxInv => NoUnreadLost
    BY DEF InboxInv, NoUnreadLost, TrueOf, Handled
  <1> QED
    BY <1>1, InboxStaysInv, PTL

(***************************************************************************)
(* ImportDialog.  The dialog waits for at most one request, about the file *)
(* it shows; and once the account is filled, no preview promises that a    *)
(* file can be imported, unless the reply of an import was lost.           *)
(***************************************************************************)
AnyOrNone == AnyFile \cup {NoFile}
Dialog == [open : BOOLEAN, phase : {"select", "preview", "confirm", "result"}, busy : BOOLEAN,
           filename : AnyOrNone, data : AnyOrNone, preview : AnyOrNone, canImport : BOOLEAN,
           result : AnyOrNone, failed : BOOLEAN]
Call == [kind : {"none", "preview", "import", "refresh"}, file : AnyOrNone, state : {"none", "sent", "served"}, ok : BOOLEAN]

ImportTypeOK ==
    /\ importDialog \in Dialog
    /\ call \in Call
    /\ lostReply \in BOOLEAN

CallInv ==
    /\ importDialog.busy <=> call.kind # "none"
    /\ call.kind = "preview" => importDialog.phase = "select" /\ call.file = importDialog.filename
    /\ call.kind = "import" => importDialog.phase = "confirm" /\ call.file = importDialog.data /\ ~importDialog.failed
    /\ call.kind = "refresh" => importDialog.phase = "result"

Answered == call.kind = "import" /\ call.state = "served" /\ call.ok

FilledInv ==
    /\ \A f, g \in restored : f = g
    /\ orphans # {} => lostReply
    /\ Answered => restored = {call.file}
    /\ importDialog.phase = "confirm" => importDialog.canImport
    /\ restored # {} /\ ~lostReply =>
         /\ importDialog.phase \in {"preview", "confirm"} /\ importDialog.canImport => Answered
         /\ call.kind = "preview" /\ call.state = "served" => ~call.ok

ShownInv ==
    /\ importDialog.phase \in {"preview", "confirm"} =>
         importDialog.data = importDialog.filename /\ importDialog.preview = importDialog.filename
    /\ importDialog.phase = "result" => restored = {importDialog.filename} /\ importDialog.result = importDialog.filename

ImportInv == ImportTypeOK /\ CallInv /\ FilledInv /\ ShownInv

LEMMA ImportInitInv == ImportInit => ImportInv
  <1> SUFFICES ASSUME ImportInit PROVE ImportInv
    OBVIOUS
  <1>1. ImportTypeOK
    BY DEF ImportInit, ImportTypeOK, Dialog, Call, Select, NoImportCall, AnyOrNone
  <1>2. CallInv /\ FilledInv /\ ShownInv
    BY DEF ImportInit, CallInv, FilledInv, ShownInv, Answered, Select, NoImportCall
  <1> QED
    BY <1>1, <1>2 DEF ImportInv

LEMMA ImportNextInv ==
    ASSUME ImportInv, [ImportNext]_importVars
    PROVE  ImportInv'
  <1> USE DEF ImportInv, ImportTypeOK, CallInv, FilledInv, ShownInv, Answered, Dialog, Call, Select,
              NoImportCall, AskImport, AnyOrNone
  <1>1. CASE UNCHANGED importVars
    BY <1>1 DEF importVars
  <1>2. CASE OpenImport
    BY <1>2, ZenonT(30) DEF OpenImport
  <1>3. CASE CloseImport
    BY <1>3 DEF CloseImport
  <1>4. ASSUME NEW file \in AnyFile, handleFileChange(file) PROVE ImportInv'
    <2>1. CASE file \in OtherFiles
      <3>1. importDialog' = [Select EXCEPT !.open = TRUE, !.filename = file, !.failed = TRUE]
        BY <1>4, <2>1 DEF handleFileChange
      <3>2. /\ importDialog' \in Dialog
            /\ importDialog'.phase = "select" /\ ~importDialog'.busy
        BY <3>1
      <3>3. ~importDialog.busy /\ UNCHANGED <<call, orphans, restored, lostReply>>
        BY <1>4, <2>1 DEF handleFileChange, MayChoose
      <3> QED
        BY ONLY ImportInv, <3>2, <3>3
    <2>2. CASE file \notin OtherFiles
      <3>1. importDialog' = [Select EXCEPT !.open = TRUE, !.filename = file, !.busy = TRUE]
        BY <1>4, <2>2 DEF handleFileChange
      <3>2. /\ importDialog' \in Dialog
            /\ importDialog'.phase = "select" /\ importDialog'.busy /\ importDialog'.filename = file
        BY <3>1
      <3>3. call' = AskImport("preview", file) /\ UNCHANGED <<orphans, restored, lostReply>>
        BY <1>4, <2>2 DEF handleFileChange, MayChoose
      <3>4. call' \in Call /\ call'.kind = "preview" /\ call'.file = file /\ call'.state = "sent"
        BY <3>3
      <3> QED
        BY ONLY ImportInv, <3>2, <3>3, <3>4
    <2> QED
      BY <2>1, <2>2
  <1>5. CASE PreviewMemoImport
    BY <1>5, ZenonT(30) DEF PreviewMemoImport, AccountEmpty
  <1>6. CASE PreviewArrives
    BY <1>6 DEF PreviewArrives
  <1>7. CASE Continue
    BY <1>7 DEF Continue
  <1>8. CASE handleImport
    BY <1>8 DEF handleImport, Choice
  <1>9. CASE ImportMemoExport
    BY <1>9 DEF ImportMemoExport, Imported, AccountEmpty
  <1>10. CASE ImportArrives
    <2>0. call.kind = "import" /\ call.state = "served" /\ UNCHANGED <<orphans, restored, lostReply>>
      BY <1>10 DEF ImportArrives
    <2>1. CASE call.ok
      <3>1. /\ importDialog' = [importDialog EXCEPT !.result = call.file, !.phase = "result"]
            /\ call' = [NoImportCall EXCEPT !.kind = "refresh"]
        BY <1>10, <2>1 DEF ImportArrives
      <3>2. importDialog' \in Dialog /\ call' \in Call
        BY <3>1
      <3>3. /\ importDialog'.phase = "result" /\ importDialog'.result = call.file
            /\ importDialog'.filename = importDialog.filename /\ importDialog'.busy = importDialog.busy
            /\ call'.kind = "refresh"
        BY <3>1
      <3> QED
        BY ONLY ImportInv, <2>0, <2>1, <3>2, <3>3
    <2>2. CASE ~call.ok
      <3>1. /\ importDialog' = [importDialog EXCEPT !.failed = TRUE, !.busy = FALSE]
            /\ call' = NoImportCall
        BY <1>10, <2>2 DEF ImportArrives
      <3>2. importDialog' \in Dialog /\ call' \in Call
        BY <3>1
      <3> QED
        BY ONLY ImportInv, <2>0, <2>2, <3>1, <3>2
    <2> QED
      BY <2>1, <2>2
  <1>11. CASE ListsRefreshed
    BY <1>11 DEF ListsRefreshed
  <1>12. CASE ImportCallFails
    BY <1>12 DEF ImportCallFails, Trouble
  <1>13. CASE PageLeft
    BY <1>13 DEF PageLeft, Trouble
  <1>14. CASE NoteElsewhere
    BY <1>14 DEF NoteElsewhere, Trouble
  <1>15. ASSUME NEW file \in orphans, OrphanServed(file) PROVE ImportInv'
    BY <1>15 DEF OrphanServed, Imported, AccountEmpty
  <1> QED
    BY <1>1, <1>2, <1>3, <1>4, <1>5, <1>6, <1>7, <1>8, <1>9, <1>10, <1>11, <1>12, <1>13, <1>14, <1>15
       DEF ImportNext

LEMMA ImportStaysInv == ImportSpec => []ImportInv
  BY ImportInitInv, ImportNextInv, PTL DEF ImportSpec

\* However requests fail, answers are lost and pages are left: what is
\* confirmed is the file on the screen, a result names the one file the account
\* was filled from, and the account never gets two (MemoImportDialog.tsx,
\* memo_import_service.go).
THEOREM ImportIsAsShown == ImportSpec => []ImportAsShown
  <1>1. ImportInv => ImportAsShown
    <2> SUFFICES ASSUME ImportInv PROVE ImportAsShown
      OBVIOUS
    <2>1. Cardinality(restored) <= 1
      <3>1. CASE restored = {}
        BY <3>1, FS_EmptySet
      <3>2. CASE restored # {}
        <4>1. PICK f \in restored : TRUE
          BY <3>2
        <4>2. restored = {f}
          BY <4>1 DEF ImportInv, FilledInv
        <4> QED
          BY <4>2, FS_Singleton
      <3> QED
        BY <3>1, <3>2
    <2>2. importDialog.phase = "confirm" /\ importDialog.failed /\ ~lostReply => importDialog.data \notin restored
      BY DEF ImportInv, CallInv, FilledInv, Answered
    <2> QED
      BY <2>1, <2>2 DEF ImportInv, ShownInv, ImportAsShown
  <1> QED
    BY <1>1, ImportStaysInv, PTL

(***************************************************************************)
(* SignInFlow.  The entry of a tab names a flow that this tab started and  *)
(* nobody has used; a request to link is about the user who started its    *)
(* flow; and a tab that asked for its user still has the token it asked    *)
(* with, unless it was switched.                                           *)
(***************************************************************************)
Somebody == Users \cup {Nobody}
Url == [flow : Nat, ext : Externals \cup {Nobody}]
TabCall == [kind : {"none", "user", "signin", "signup", "signout", "sso", "link"}, who : Somebody, as : Somebody]
Tab == [page : {"app", "auth", "callback", "away"}, phase : {"load", "ask", "ready"}, token : Somebody,
        shown : Somebody, entry : Nat, url : Url, handled : BOOLEAN, call : TabCall, switched : BOOLEAN]
Flow == [tab : Tabs, mode : {"signin", "link"}, by : Somebody, sent : Nat, senders : SUBSET Tabs]

SignInTypeOK ==
    /\ linkOf \in [Externals -> Somebody]
    /\ linker \in [Externals -> Somebody]
    /\ cookie \in Somebody
    /\ stash \in Somebody
    /\ tab \in [Tabs -> Tab]
    /\ inbox \in [Tabs -> Seq(Somebody)]
    /\ flows \in Seq(Flow)

\* A tab at the callback has come back with an external account.
Returned(r) == r.page = "callback" \/ r.call.kind \in {"sso", "link"} => r.url.ext \in Externals

\* A tab acts with the token of the user it asks for or shows.
ActsFor(r) ==
    /\ r.call.kind = "user" => r.phase = "ask" /\ (~r.switched => r.token = r.call.who)
    /\ r.phase = "ready" /\ r.shown # Nobody /\ ~r.switched => r.token = r.shown

EntryInv(t) ==
    tab[t].entry # 0 =>
      /\ tab[t].entry \in DOMAIN flows
      /\ flows[tab[t].entry].tab = t
      /\ flows[tab[t].entry].sent = 0

LinkInv(t) ==
    tab[t].call.kind = "link" =>
      /\ tab[t].url.flow \in DOMAIN flows
      /\ flows[tab[t].url.flow].by = tab[t].call.who

SignInInv ==
    /\ SignInTypeOK
    /\ LinkedByStarter
    /\ FlowUsedOnce
    /\ \A t \in Tabs : Returned(tab[t]) /\ ActsFor(tab[t]) /\ EntryInv(t) /\ LinkInv(t)

LinksSound ==
    /\ linkOf \in [Externals -> Somebody]
    /\ linker \in [Externals -> Somebody]
    /\ LinkedByStarter

LEMMA SignInInitInv == SignInInit => SignInInv
  <1> SUFFICES ASSUME SignInInit PROVE SignInInv
    OBVIOUS
  <1>1. NewTab \in Tab /\ Returned(NewTab) /\ ActsFor(NewTab) /\ NewTab.entry = 0 /\ NewTab.call.kind = "none"
    BY DEF NewTab, Tab, TabCall, Url, NoCall, NoUrl, Somebody, Returned, ActsFor
  <1>2. \A t \in Tabs : tab[t] = NewTab
    BY DEF SignInInit
  <1>3. SignInTypeOK
    <2>1. tab \in [Tabs -> Tab]
      BY <1>1 DEF SignInInit
    <2>2. linkOf \in [Externals -> Somebody] /\ linker \in [Externals -> Somebody] /\ cookie \in Somebody /\ stash \in Somebody
      BY DEF SignInInit, Somebody
    <2>3. inbox \in [Tabs -> Seq(Somebody)] /\ flows \in Seq(Flow)
      BY DEF SignInInit
    <2> QED
      BY <2>1, <2>2, <2>3 DEF SignInTypeOK
  <1>4. LinkedByStarter /\ FlowUsedOnce
    BY DEF SignInInit, LinkedByStarter, FlowUsedOnce
  <1> QED
    BY <1>1, <1>2, <1>3, <1>4 DEF SignInInv, EntryInv, LinkInv

\* A step of one tab that leaves the flows alone and the links sound: its entry
\* stays or goes, and it is not about to link, or was so already.
LEMMA OneTab ==
    ASSUME SignInInv, NEW t \in Tabs, NEW r \in Tab, tab' = [tab EXCEPT ![t] = r],
           Returned(r), ActsFor(r), r.entry \in {0, tab[t].entry},
           r.call.kind = "link" => r.call = tab[t].call /\ r.url = tab[t].url,
           cookie' \in Somebody, stash' \in Somebody, inbox' \in [Tabs -> Seq(Somebody)],
           LinksSound' \/ UNCHANGED <<linkOf, linker>>, UNCHANGED flows
    PROVE  SignInInv'
  <1>0. LinksSound'
    BY DEF LinksSound, SignInInv, SignInTypeOK, LinkedByStarter
  <1>1. SignInTypeOK'
    BY <1>0 DEF SignInInv, SignInTypeOK, LinksSound
  <1>2. (LinkedByStarter /\ FlowUsedOnce)'
    BY <1>0 DEF SignInInv, LinksSound, FlowUsedOnce
  <1>3. tab'[t] = r /\ \A s \in Tabs \ {t} : tab'[s] = tab[s]
    BY DEF SignInInv, SignInTypeOK
  <1>4. ASSUME NEW s \in Tabs PROVE (Returned(tab[s]) /\ ActsFor(tab[s]) /\ EntryInv(s) /\ LinkInv(s))'
    <2>1. CASE s = t
      <3>1. Returned(r) /\ ActsFor(r)
        OBVIOUS
      <3>2. EntryInv(s)' /\ LinkInv(s)'
        BY <1>3, <2>1 DEF SignInInv, EntryInv, LinkInv
      <3> QED
        BY <1>3, <2>1, <3>1, <3>2 DEF Returned, ActsFor
    <2>2. CASE s # t
      BY <1>3, <2>2 DEF SignInInv, Returned, ActsFor, EntryInv, LinkInv
    <2> QED
      BY <2>1, <2>2
  <1> QED
    BY <1>1, <1>2, <1>4 DEF SignInInv

\* What a loaded document starts with.
LEMMA DocumentIsGood ==
    ASSUME SignInInv, NEW t \in Tabs, NEW page \in {"app", "auth", "callback", "away"}, NEW url \in Url,
           page = "callback" => url.ext \in Externals
    PROVE  LET r == Document(t, page, url) IN
           /\ r \in Tab /\ Returned(r) /\ ActsFor(r) /\ r.entry = tab[t].entry /\ r.call.kind = "none"
           /\ r.page = page /\ r.url = url
  <1>1. PICK old \in Tab : tab[t] = old
    BY DEF SignInInv, SignInTypeOK
  <1>2. PICK r : r = Document(t, page, url)
    OBVIOUS
  <1>3. r = [old EXCEPT !.page = page, !.url = url, !.phase = "load", !.token = Nobody,
                        !.shown = Nobody, !.handled = FALSE, !.call = NoCall, !.switched = FALSE]
    BY <1>1, <1>2 DEF Document
  <1>4. NoCall \in TabCall /\ NoCall.kind = "none" /\ Nobody \in Somebody
    BY DEF NoCall, TabCall, Somebody
  <1>5. r \in Tab /\ r.entry = old.entry /\ r.call = NoCall /\ r.page = page /\ r.url = url /\ r.phase = "load"
    BY <1>3, <1>4 DEF Tab
  <1> QED
    BY <1>1, <1>2, <1>4, <1>5 DEF Returned, ActsFor

\* A tab asks for its user.
LEMMA AskUserKeeps ==
    ASSUME SignInInv, NEW t \in Tabs, AskUser(t)
    PROVE  SignInInv'
  <1>1. PICK old \in Tab : tab[t] = old /\ Returned(old) /\ ActsFor(old)
    BY DEF SignInInv, SignInTypeOK
  <1>2. NoCall \in TabCall /\ NoCall.kind = "none" /\ Nobody \in Somebody
    BY DEF NoCall, TabCall, Somebody
  <1>3. cookie \in Somebody /\ stash \in Somebody /\ inbox \in [Tabs -> Seq(Somebody)] /\ tab \in [Tabs -> Tab]
    BY DEF SignInInv, SignInTypeOK
  <1> DEFINE r == [old EXCEPT !.call = [kind |-> "user", who |-> old.token, as |-> old.token], !.switched = FALSE]
  <1>a. tab' = [tab EXCEPT ![t] = r]
    BY <1>1, <1>2, <1>3 DEF AskUser
  <1>b. r \in Tab /\ r.entry \in {0, old.entry} /\ Returned(r) /\ ActsFor(r)
    BY <1>1, <1>2, <1>3 DEF AskUser, Tab, TabCall, Somebody, Returned, ActsFor
  <1>c. /\ r.call.kind = "link" => r.call = old.call /\ r.url = old.url
       /\ cookie' \in Somebody /\ stash' \in Somebody /\ inbox' \in [Tabs -> Seq(Somebody)]
       /\ UNCHANGED <<linkOf, linker, flows>>
    BY <1>1, <1>2, <1>3 DEF AskUser, Tab
  <1> HIDE DEF r
  <1> QED
    BY <1>1, <1>a, <1>b, <1>c, OneTab

\* It is answered, and the answer is about the token it still has.
LEMMA UserReplyKeeps ==
    ASSUME SignInInv, NEW t \in Tabs, UserReply(t)
    PROVE  SignInInv'
  <1>1. PICK old \in Tab : tab[t] = old /\ Returned(old) /\ ActsFor(old)
    BY DEF SignInInv, SignInTypeOK
  <1>2. NoCall \in TabCall /\ NoCall.kind = "none" /\ Nobody \in Somebody
    BY DEF NoCall, TabCall, Somebody
  <1>3. cookie \in Somebody /\ stash \in Somebody /\ inbox \in [Tabs -> Seq(Somebody)] /\ tab \in [Tabs -> Tab]
    BY DEF SignInInv, SignInTypeOK
  <1> DEFINE r == [old EXCEPT !.phase = "ready", !.call = NoCall, !.shown = old.call.who, !.page = Guarded(@, old.call.who)]
  <1>a. tab' = [tab EXCEPT ![t] = r]
    BY <1>1, <1>2, <1>3 DEF UserReply
  <1>b. r \in Tab /\ r.entry \in {0, old.entry} /\ Returned(r) /\ ActsFor(r)
    BY <1>1, <1>2, <1>3 DEF UserReply, Tab, TabCall, Somebody, Returned, ActsFor, Guarded
  <1>c. /\ r.call.kind = "link" => r.call = old.call /\ r.url = old.url
       /\ cookie' \in Somebody /\ stash' \in Somebody /\ inbox' \in [Tabs -> Seq(Somebody)]
       /\ UNCHANGED <<linkOf, linker, flows>>
    BY <1>1, <1>2, <1>3 DEF UserReply, Tab
  <1> HIDE DEF r
  <1> QED
    BY <1>1, <1>a, <1>b, <1>c, OneTab

\* It is not.
LEMMA UserFailsKeeps ==
    ASSUME SignInInv, NEW t \in Tabs, UserFails(t)
    PROVE  SignInInv'
  <1>1. PICK old \in Tab : tab[t] = old /\ Returned(old) /\ ActsFor(old)
    BY DEF SignInInv, SignInTypeOK
  <1>2. NoCall \in TabCall /\ NoCall.kind = "none" /\ Nobody \in Somebody
    BY DEF NoCall, TabCall, Somebody
  <1>3. cookie \in Somebody /\ stash \in Somebody /\ inbox \in [Tabs -> Seq(Somebody)] /\ tab \in [Tabs -> Tab]
    BY DEF SignInInv, SignInTypeOK
  <1> DEFINE r == [old EXCEPT !.phase = "ready", !.call = NoCall, !.shown = Nobody, !.token = Nobody]
  <1>a. tab' = [tab EXCEPT ![t] = r]
    BY <1>1, <1>2, <1>3 DEF UserFails
  <1>b. r \in Tab /\ r.entry \in {0, old.entry} /\ Returned(r) /\ ActsFor(r)
    BY <1>1, <1>2, <1>3 DEF UserFails, Tab, TabCall, Somebody, Returned, ActsFor
  <1>c. /\ r.call.kind = "link" => r.call = old.call /\ r.url = old.url
       /\ cookie' \in Somebody /\ stash' \in Somebody /\ inbox' \in [Tabs -> Seq(Somebody)]
       /\ UNCHANGED <<linkOf, linker, flows>>
    BY <1>1, <1>2, <1>3 DEF UserFails, Tab
  <1> HIDE DEF r
  <1> QED
    BY <1>1, <1>a, <1>b, <1>c, OneTab

\* The entry page.
LEMMA GoToAuthKeeps ==
    ASSUME SignInInv, NEW t \in Tabs, GoToAuth(t)
    PROVE  SignInInv'
  <1>1. PICK old \in Tab : tab[t] = old /\ Returned(old) /\ ActsFor(old)
    BY DEF SignInInv, SignInTypeOK
  <1>2. NoCall \in TabCall /\ NoCall.kind = "none" /\ Nobody \in Somebody
    BY DEF NoCall, TabCall, Somebody
  <1>3. cookie \in Somebody /\ stash \in Somebody /\ inbox \in [Tabs -> Seq(Somebody)] /\ tab \in [Tabs -> Tab]
    BY DEF SignInInv, SignInTypeOK
  <1> DEFINE r == [old EXCEPT !.page = "auth"]
  <1>a. tab' = [tab EXCEPT ![t] = r]
    BY <1>1, <1>2, <1>3 DEF GoToAuth
  <1>b. r \in Tab /\ r.entry \in {0, old.entry} /\ Returned(r) /\ ActsFor(r)
    BY <1>1, <1>2, <1>3, ZenonT(30) DEF GoToAuth, Tab, TabCall, Somebody, Returned, ActsFor
  <1>c. /\ r.call.kind = "link" => r.call = old.call /\ r.url = old.url
       /\ cookie' \in Somebody /\ stash' \in Somebody /\ inbox' \in [Tabs -> Seq(Somebody)]
       /\ UNCHANGED <<linkOf, linker, flows>>
    BY <1>1, <1>2, <1>3 DEF GoToAuth, Tab
  <1> HIDE DEF r
  <1> QED
    BY <1>1, <1>a, <1>b, <1>c, OneTab

\* The forms.
LEMMA PasswordSignInKeeps ==
    ASSUME SignInInv, NEW t \in Tabs, NEW u \in Users, PasswordSignIn(t, u)
    PROVE  SignInInv'
  <1>1. PICK old \in Tab : tab[t] = old /\ Returned(old) /\ ActsFor(old)
    BY DEF SignInInv, SignInTypeOK
  <1>2. NoCall \in TabCall /\ NoCall.kind = "none" /\ Nobody \in Somebody
    BY DEF NoCall, TabCall, Somebody
  <1>3. cookie \in Somebody /\ stash \in Somebody /\ inbox \in [Tabs -> Seq(Somebody)] /\ tab \in [Tabs -> Tab]
    BY DEF SignInInv, SignInTypeOK
  <1> DEFINE r == [old EXCEPT !.call = [kind |-> "signin", who |-> u, as |-> Nobody]]
  <1>a. tab' = [tab EXCEPT ![t] = r]
    BY <1>1, <1>2, <1>3 DEF PasswordSignIn, Send, Ready
  <1>b. r \in Tab /\ r.entry \in {0, old.entry} /\ Returned(r) /\ ActsFor(r)
    BY <1>1, <1>2, <1>3 DEF PasswordSignIn, Send, Ready, Tab, TabCall, Somebody, Returned, ActsFor
  <1>c. /\ r.call.kind = "link" => r.call = old.call /\ r.url = old.url
       /\ cookie' \in Somebody /\ stash' \in Somebody /\ inbox' \in [Tabs -> Seq(Somebody)]
       /\ UNCHANGED <<linkOf, linker, flows>>
    BY <1>1, <1>2, <1>3 DEF PasswordSignIn, Send, Ready, Tab
  <1> HIDE DEF r
  <1> QED
    BY <1>1, <1>a, <1>b, <1>c, OneTab

\* The forms.
LEMMA SignUpKeeps ==
    ASSUME SignInInv, NEW t \in Tabs, NEW u \in Users, SignUp(t, u)
    PROVE  SignInInv'
  <1>1. PICK old \in Tab : tab[t] = old /\ Returned(old) /\ ActsFor(old)
    BY DEF SignInInv, SignInTypeOK
  <1>2. NoCall \in TabCall /\ NoCall.kind = "none" /\ Nobody \in Somebody
    BY DEF NoCall, TabCall, Somebody
  <1>3. cookie \in Somebody /\ stash \in Somebody /\ inbox \in [Tabs -> Seq(Somebody)] /\ tab \in [Tabs -> Tab]
    BY DEF SignInInv, SignInTypeOK
  <1> DEFINE r == [old EXCEPT !.call = [kind |-> "signup", who |-> u, as |-> Nobody]]
  <1>a. tab' = [tab EXCEPT ![t] = r]
    BY <1>1, <1>2, <1>3 DEF SignUp, Send, Ready
  <1>b. r \in Tab /\ r.entry \in {0, old.entry} /\ Returned(r) /\ ActsFor(r)
    BY <1>1, <1>2, <1>3 DEF SignUp, Send, Ready, Tab, TabCall, Somebody, Returned, ActsFor
  <1>c. /\ r.call.kind = "link" => r.call = old.call /\ r.url = old.url
       /\ cookie' \in Somebody /\ stash' \in Somebody /\ inbox' \in [Tabs -> Seq(Somebody)]
       /\ UNCHANGED <<linkOf, linker, flows>>
    BY <1>1, <1>2, <1>3 DEF SignUp, Send, Ready, Tab
  <1> HIDE DEF r
  <1> QED
    BY <1>1, <1>a, <1>b, <1>c, OneTab

\* A call fails.
LEMMA CallFailsKeeps ==
    ASSUME SignInInv, NEW t \in Tabs, CallFails(t)
    PROVE  SignInInv'
  <1>1. PICK old \in Tab : tab[t] = old /\ Returned(old) /\ ActsFor(old)
    BY DEF SignInInv, SignInTypeOK
  <1>2. NoCall \in TabCall /\ NoCall.kind = "none" /\ Nobody \in Somebody
    BY DEF NoCall, TabCall, Somebody
  <1>3. cookie \in Somebody /\ stash \in Somebody /\ inbox \in [Tabs -> Seq(Somebody)] /\ tab \in [Tabs -> Tab]
    BY DEF SignInInv, SignInTypeOK
  <1> DEFINE r == [old EXCEPT !.call = NoCall]
  <1>a. tab' = [tab EXCEPT ![t] = r]
    BY <1>1, <1>2, <1>3 DEF CallFails, Send
  <1>b. r \in Tab /\ r.entry \in {0, old.entry} /\ Returned(r) /\ ActsFor(r)
    BY <1>1, <1>2, <1>3 DEF CallFails, Send, Tab, TabCall, Somebody, Returned, ActsFor
  <1>c. /\ r.call.kind = "link" => r.call = old.call /\ r.url = old.url
       /\ cookie' \in Somebody /\ stash' \in Somebody /\ inbox' \in [Tabs -> Seq(Somebody)]
       /\ UNCHANGED <<linkOf, linker, flows>>
    BY <1>1, <1>2, <1>3 DEF CallFails, Send, Tab
  <1> HIDE DEF r
  <1> QED
    BY <1>1, <1>a, <1>b, <1>c, OneTab

\* Signing out.
LEMMA SignOutKeeps ==
    ASSUME SignInInv, NEW t \in Tabs, SignOut(t)
    PROVE  SignInInv'
  <1>1. PICK old \in Tab : tab[t] = old /\ Returned(old) /\ ActsFor(old)
    BY DEF SignInInv, SignInTypeOK
  <1>2. NoCall \in TabCall /\ NoCall.kind = "none" /\ Nobody \in Somebody
    BY DEF NoCall, TabCall, Somebody
  <1>3. cookie \in Somebody /\ stash \in Somebody /\ inbox \in [Tabs -> Seq(Somebody)] /\ tab \in [Tabs -> Tab]
    BY DEF SignInInv, SignInTypeOK
  <1> DEFINE r == [old EXCEPT !.call = [kind |-> "signout", who |-> Nobody, as |-> old.token]]
  <1>a. tab' = [tab EXCEPT ![t] = r]
    BY <1>1, <1>2, <1>3 DEF SignOut, Send, Ready
  <1>b. r \in Tab /\ r.entry \in {0, old.entry} /\ Returned(r) /\ ActsFor(r)
    BY <1>1, <1>2, <1>3 DEF SignOut, Send, Ready, Tab, TabCall, Somebody, Returned, ActsFor
  <1>c. /\ r.call.kind = "link" => r.call = old.call /\ r.url = old.url
       /\ cookie' \in Somebody /\ stash' \in Somebody /\ inbox' \in [Tabs -> Seq(Somebody)]
       /\ UNCHANGED <<linkOf, linker, flows>>
    BY <1>1, <1>2, <1>3 DEF SignOut, Send, Ready, Tab
  <1> HIDE DEF r
  <1> QED
    BY <1>1, <1>a, <1>b, <1>c, OneTab

\* An entry expires.
LEMMA ExpireStateKeeps ==
    ASSUME SignInInv, NEW t \in Tabs, ExpireState(t)
    PROVE  SignInInv'
  <1>1. PICK old \in Tab : tab[t] = old /\ Returned(old) /\ ActsFor(old)
    BY DEF SignInInv, SignInTypeOK
  <1>2. NoCall \in TabCall /\ NoCall.kind = "none" /\ Nobody \in Somebody
    BY DEF NoCall, TabCall, Somebody
  <1>3. cookie \in Somebody /\ stash \in Somebody /\ inbox \in [Tabs -> Seq(Somebody)] /\ tab \in [Tabs -> Tab]
    BY DEF SignInInv, SignInTypeOK
  <1> DEFINE r == [old EXCEPT !.entry = 0]
  <1>a. tab' = [tab EXCEPT ![t] = r]
    BY <1>1, <1>2, <1>3 DEF ExpireState
  <1>b. r \in Tab /\ r.entry \in {0, old.entry} /\ Returned(r) /\ ActsFor(r)
    BY <1>1, <1>2, <1>3 DEF ExpireState, Tab, TabCall, Somebody, Returned, ActsFor
  <1>c. /\ r.call.kind = "link" => r.call = old.call /\ r.url = old.url
       /\ cookie' \in Somebody /\ stash' \in Somebody /\ inbox' \in [Tabs -> Seq(Somebody)]
       /\ UNCHANGED <<linkOf, linker, flows>>
    BY <1>1, <1>2, <1>3 DEF ExpireState, Tab
  <1> HIDE DEF r
  <1> QED
    BY <1>1, <1>a, <1>b, <1>c, OneTab

\* A token that is broadcast.
LEMMA BroadcastIsTyped ==
    ASSUME SignInInv, NEW t \in Tabs, NEW u \in Somebody,
           inbox' = [s \in Tabs |-> IF s = t \/ tab[s].page = "away" THEN inbox[s] ELSE Append(inbox[s], u)]
    PROVE  inbox' \in [Tabs -> Seq(Somebody)]
  <1>1. \A s \in Tabs : inbox[s] \in Seq(Somebody) /\ Append(inbox[s], u) \in Seq(Somebody)
    BY DEF SignInInv, SignInTypeOK
  <1> QED
    BY <1>1

\* A tab takes over the token of a user: from the cookie, from localStorage or
\* from its own sign-in.
LEMMA TokenKeeps ==
    ASSUME SignInInv, NEW t \in Tabs, NEW u \in Somebody, NEW rest \in Tab,
           SetAccessToken(t, u, rest), cookie' \in Somebody,
           LinksSound' \/ UNCHANGED <<linkOf, linker>>, UNCHANGED flows,
           rest.call = NoCall, rest.entry = tab[t].entry, Returned(rest),
           rest.phase = "ready" /\ rest.shown # Nobody /\ ~rest.switched => u = rest.shown
    PROVE  SignInInv'
  <1>1. PICK r \in Tab : r = [rest EXCEPT !.token = u]
    BY DEF Tab
  <1>2. tab' = [tab EXCEPT ![t] = r] /\ stash' \in Somebody
    BY <1>1 DEF SetAccessToken
  <1>3. inbox' \in [Tabs -> Seq(Somebody)]
    BY BroadcastIsTyped DEF SetAccessToken
  <1>4. NoCall.kind = "none"
    BY DEF NoCall
  <1>5. Returned(r) /\ ActsFor(r) /\ r.entry = tab[t].entry /\ r.call = NoCall
    BY <1>1, <1>4 DEF Tab, Returned, ActsFor
  <1> QED
    BY <1>2, <1>3, <1>4, <1>5, OneTab

\* A tab loads a document.
LEMMA DocumentKeeps ==
    ASSUME SignInInv, NEW t \in Tabs, NEW page \in {"app", "auth", "callback", "away"}, NEW url \in Url,
           page = "callback" => url.ext \in Externals,
           tab' = [tab EXCEPT ![t] = Document(t, page, url)],
           inbox' = inbox \/ inbox' = [inbox EXCEPT ![t] = <<>>],
           cookie' \in Somebody, stash' \in Somebody, UNCHANGED <<linkOf, linker, flows>>
    PROVE  SignInInv'
  <1>1. PICK r : r = Document(t, page, url)
    OBVIOUS
  <1>2. r \in Tab /\ Returned(r) /\ ActsFor(r) /\ r.entry = tab[t].entry /\ r.call.kind = "none"
    BY <1>1, DocumentIsGood
  <1>3. <<>> \in Seq(Somebody)
    OBVIOUS
  <1>4. inbox' \in [Tabs -> Seq(Somebody)]
    BY <1>3 DEF SignInInv, SignInTypeOK
  <1> QED
    BY <1>1, <1>2, <1>4, OneTab

LEMMA AdoptKeeps ==
    ASSUME SignInInv, NEW t \in Tabs, Adopt(t)
    PROVE  SignInInv'
  <1>1. PICK old \in Tab : tab[t] = old /\ Returned(old) /\ ActsFor(old)
    BY DEF SignInInv, SignInTypeOK
  <1>2. PICK q \in Seq(Somebody) : inbox[t] = q /\ q # <<>>
    BY DEF SignInInv, SignInTypeOK, Adopt
  <1>3. PICK h \in Somebody : h = Head(q)
    BY <1>2
  <1>4. inbox' \in [Tabs -> Seq(Somebody)]
    <2>1. Tail(q) \in Seq(Somebody)
      BY <1>2
    <2> QED
      BY <1>2, <2>1 DEF Adopt, SignInInv, SignInTypeOK
  <1> DEFINE r == [old EXCEPT !.token = h, !.switched = @ \/ h # old.token]
  <1>5. tab' = [tab EXCEPT ![t] = r]
    BY <1>1, <1>2, <1>3 DEF Adopt, SignInInv, SignInTypeOK
  <1>6. r \in Tab /\ r.entry = old.entry /\ r.call = old.call /\ r.url = old.url
    BY DEF Tab
  <1>7. Returned(r) /\ ActsFor(r)
    BY <1>1 DEF Returned, ActsFor, Tab
  <1> HIDE DEF r
  <1>8. cookie' \in Somebody /\ stash' \in Somebody /\ UNCHANGED <<linkOf, linker, flows>>
    BY DEF Adopt, SignInInv, SignInTypeOK
  <1> QED
    BY <1>1, <1>4, <1>5, <1>6, <1>7, <1>8, OneTab

LEMMA RefreshExpiredKeeps ==
    ASSUME SignInInv, NEW t \in Tabs, RefreshExpired(t)
    PROVE  SignInInv'
  <1>1. PICK old \in Tab : tab[t] = old /\ Returned(old) /\ ActsFor(old)
    BY DEF SignInInv, SignInTypeOK
  <1>2. cookie' \in Somebody /\ cookie \in Somebody /\ UNCHANGED <<linkOf, linker, flows>>
    BY DEF RefreshExpired, SignInInv, SignInTypeOK
  <1>3. CASE cookie # Nobody
    <2>1. PICK c \in Somebody : c = cookie
      BY <1>2
    <2> DEFINE rest == [old EXCEPT !.switched = @ \/ c # old.token]
    <2>2. SetAccessToken(t, c, rest)
      BY <1>1, <1>3, <2>1 DEF RefreshExpired, SetAccessToken
    <2>3. rest \in Tab /\ rest.call = NoCall /\ rest.entry = old.entry /\ Returned(rest)
      BY <1>1 DEF Tab, RefreshExpired, Ready, Returned
    <2>4. rest.phase = "ready" /\ rest.shown # Nobody /\ ~rest.switched => c = rest.shown
      BY <1>1 DEF Tab, ActsFor
    <2> HIDE DEF rest
    <2> QED
      BY <1>1, <1>2, <2>2, <2>3, <2>4, TokenKeeps
  <1>4. CASE cookie = Nobody
    <2>1. NoUrl \in Url
      BY DEF NoUrl, Url
    <2>2. stash' \in Somebody
      BY <1>4 DEF RefreshExpired, Somebody
    <2> QED
      BY <1>2, <1>4, <2>1, <2>2, DocumentKeeps DEF RefreshExpired
  <1> QED
    BY <1>3, <1>4

LEMMA GetTokenKeeps ==
    ASSUME SignInInv, NEW t \in Tabs, GetToken(t)
    PROVE  SignInInv'
  <1>1. PICK old \in Tab : tab[t] = old /\ Returned(old) /\ ActsFor(old)
    BY DEF SignInInv, SignInTypeOK
  <1>2. /\ cookie' \in Somebody /\ cookie \in Somebody /\ stash \in Somebody /\ tab \in [Tabs -> Tab]
        /\ inbox \in [Tabs -> Seq(Somebody)] /\ UNCHANGED <<linkOf, linker, flows>>
    BY DEF GetToken, SignInInv, SignInTypeOK
  <1>3. NoCall \in TabCall /\ NoCall.kind = "none" /\ Nobody \in Somebody /\ old.call = NoCall
    BY <1>1 DEF NoCall, TabCall, Somebody, GetToken
  <1>4. CASE old.token # Nobody \/ stash # Nobody
    <2> DEFINE r == [old EXCEPT !.phase = "ask", !.token = IF @ # Nobody THEN @ ELSE stash]
    <2>1. tab' = [tab EXCEPT ![t] = r]
      BY <1>1, <1>2, <1>4 DEF GetToken
    <2>2. r \in Tab /\ r.entry = old.entry /\ r.call = NoCall /\ Returned(r) /\ ActsFor(r)
      BY <1>1, <1>2, <1>3 DEF Tab, Returned, ActsFor
    <2>3. UNCHANGED <<stash, inbox>>
      BY <1>1, <1>4 DEF GetToken
    <2> HIDE DEF r
    <2> QED
      BY <1>1, <1>2, <1>3, <2>1, <2>2, <2>3, OneTab
  <1>5. CASE old.token = Nobody /\ stash = Nobody /\ cookie # Nobody
    <2>1. PICK c \in Somebody : c = cookie
      BY <1>2
    <2> DEFINE rest == [old EXCEPT !.phase = "ask"]
    <2>2. SetAccessToken(t, c, rest)
      BY <1>1, <1>5, <2>1 DEF GetToken, SetAccessToken
    <2>3. rest \in Tab /\ rest.call = NoCall /\ rest.entry = old.entry /\ Returned(rest) /\ rest.phase = "ask"
      BY <1>1, <1>3 DEF Tab, Returned
    <2> HIDE DEF rest
    <2> QED
      BY <1>1, <1>2, <2>2, <2>3, TokenKeeps
  <1>6. CASE old.token = Nobody /\ stash = Nobody /\ cookie = Nobody
    <2> DEFINE r == [old EXCEPT !.phase = "ready", !.shown = Nobody]
    <2>1. tab' = [tab EXCEPT ![t] = r]
      BY <1>1, <1>2, <1>6 DEF GetToken
    <2>2. r \in Tab /\ r.entry = old.entry /\ r.call = NoCall /\ Returned(r) /\ ActsFor(r)
      BY <1>1, <1>2, <1>3 DEF Tab, Returned, ActsFor
    <2>3. UNCHANGED <<stash, inbox>>
      BY <1>1, <1>6 DEF GetToken
    <2> HIDE DEF r
    <2> QED
      BY <1>1, <1>2, <1>3, <2>1, <2>2, <2>3, OneTab
  <1> QED
    BY <1>4, <1>5, <1>6

LEMMA SignUpReplyKeeps ==
    ASSUME SignInInv, NEW t \in Tabs, SignUpReply(t)
    PROVE  SignInInv'
  <1>1. PICK old \in Tab : tab[t] = old /\ Returned(old) /\ ActsFor(old)
    BY DEF SignInInv, SignInTypeOK
  <1>2. /\ cookie' \in Somebody /\ stash' \in Somebody /\ inbox' \in [Tabs -> Seq(Somebody)]
        /\ UNCHANGED <<linkOf, linker, flows>>
    BY DEF SignUpReply, SignInInv, SignInTypeOK
  <1>3. PICK c \in TabCall : /\ c.kind \in {"none", "signin"}
                             /\ tab' = [tab EXCEPT ![t].call = c]
    <2>1. NoCall \in TabCall /\ NoCall.kind = "none"
      BY DEF NoCall, TabCall, Somebody
    <2>2. [old.call EXCEPT !.kind = "signin"] \in TabCall /\ [old.call EXCEPT !.kind = "signin"].kind = "signin"
      BY DEF Tab, TabCall
    <2> QED
      BY <1>1, <2>1, <2>2 DEF SignUpReply, Send
  <1> DEFINE r == [old EXCEPT !.call = c]
  <1>4. tab' = [tab EXCEPT ![t] = r]
    BY <1>1, <1>3 DEF SignInInv, SignInTypeOK
  <1>5. r \in Tab /\ r.entry = old.entry /\ r.call = c /\ Returned(r) /\ ActsFor(r)
    BY <1>1, <1>3 DEF Tab, Returned, ActsFor
  <1> HIDE DEF r
  <1> QED
    BY <1>1, <1>2, <1>3, <1>4, <1>5, OneTab

\* A sign-in with a password or with an external account that is known.
LEMMA SignedInKeeps ==
    ASSUME SignInInv, NEW t \in Tabs, NEW u \in Somebody, NEW page \in {"app", "auth", "callback", "away"},
           SignedInAs(t, u, page), page = "callback" => tab[t].page = "callback",
           LinksSound' \/ UNCHANGED <<linkOf, linker>>, UNCHANGED flows
    PROVE  SignInInv'
  <1>1. PICK old \in Tab : tab[t] = old /\ Returned(old) /\ ActsFor(old)
    BY DEF SignInInv, SignInTypeOK
  <1>2. NoCall \in TabCall /\ NoCall.kind = "none"
    BY DEF NoCall, TabCall, Somebody
  <1> DEFINE rest == [old EXCEPT !.phase = "load", !.call = NoCall, !.page = page]
  <1>3. SetAccessToken(t, u, rest) /\ cookie' \in Somebody
    BY <1>1 DEF SignedInAs, SetAccessToken
  <1>4. rest \in Tab /\ rest.call = NoCall /\ rest.entry = old.entry /\ Returned(rest) /\ rest.phase = "load"
    BY <1>1, <1>2 DEF Tab, Returned
  <1> HIDE DEF rest
  <1> QED
    BY <1>1, <1>3, <1>4, TokenKeeps

LEMMA SignInReplyKeeps ==
    ASSUME SignInInv, NEW t \in Tabs, SignInReply(t)
    PROVE  SignInInv'
  <1>1. PICK u \in Somebody, page \in {"app", "auth", "callback", "away"} : tab[t].call.who = u /\ tab[t].page = page
    BY DEF SignInInv, SignInTypeOK, Tab, TabCall
  <1>2. SignedInAs(t, u, page) /\ UNCHANGED <<linkOf, linker, flows>>
    BY <1>1 DEF SignInReply, SignedInAs, SetAccessToken
  <1> QED
    BY <1>1, <1>2, SignedInKeeps

\* The documents: the entry page, the identity provider's answer, a reload.
LEMMA LoadingKeeps ==
    ASSUME SignInInv, NEW t \in Tabs,
           \/ SignOutReply(t) \/ Abandon(t) \/ Reload(t)
           \/ \E x \in Externals : Authorize(t, x)
    PROVE  SignInInv'
  <1>1. NoUrl \in Url /\ Nobody \in Somebody
    BY DEF NoUrl, Url, Somebody
  <1>2. cookie \in Somebody /\ stash \in Somebody
    BY DEF SignInInv, SignInTypeOK
  <1>3. CASE SignOutReply(t)
    BY <1>1, <1>2, <1>3, DocumentKeeps DEF SignOutReply
  <1>4. CASE Abandon(t)
    BY <1>1, <1>2, <1>4, DocumentKeeps DEF Abandon
  <1>5. ASSUME NEW x \in Externals, Authorize(t, x)
        PROVE  SignInInv'
    <2>1. PICK url \in Url : url = [tab[t].url EXCEPT !.ext = x]
      BY DEF SignInInv, SignInTypeOK, Tab, Url
    <2>2. url.ext \in Externals
      BY <2>1 DEF SignInInv, SignInTypeOK, Tab, Url
    <2> QED
      BY <1>2, <1>5, <2>1, <2>2, DocumentKeeps DEF Authorize
  <1>6. CASE Reload(t)
    <2>1. PICK page \in {"app", "auth", "callback", "away"}, url \in Url :
            /\ tab' = [tab EXCEPT ![t] = Document(t, page, url)]
            /\ page = "callback" => url.ext \in Externals
      <3>1. \A s \in Tabs : /\ tab[s].page \in {"app", "auth", "callback", "away"} /\ tab[s].url \in Url
                            /\ tab[s].page = "callback" => tab[s].url.ext \in Externals
        BY DEF SignInInv, SignInTypeOK, Tab, Returned
      <3> QED
        BY <1>1, <1>6, <3>1 DEF Reload
    <2>2. cookie' \in Somebody /\ stash' \in Somebody /\ inbox' = [inbox EXCEPT ![t] = <<>>] /\ UNCHANGED <<linkOf, linker, flows>>
      BY <1>2, <1>6 DEF Reload
    <2> QED
      BY <2>1, <2>2, DocumentKeeps
  <1> QED
    BY <1>3, <1>4, <1>5, <1>6

\* A new flow: the entry of its tab is the flow's.
LEMMA StoreKeeps ==
    ASSUME SignInInv, NEW t \in Tabs, NEW mode \in {"signin", "link"}, NEW user \in Somebody,
           StoreOAuthState(t, mode, user), UNCHANGED <<linkOf, cookie, stash, linker>>
    PROVE  SignInInv'
  <1> DEFINE f == [tab |-> t, mode |-> mode, by |-> user, sent |-> 0, senders |-> {}]
  <1>1. f \in Flow /\ f.tab = t /\ f.sent = 0 /\ f.senders = {}
    BY DEF Flow
  <1>2. flows \in Seq(Flow)
    BY DEF SignInInv, SignInTypeOK
  <1>3. PICK n \in Nat : n = Len(flows) + 1
    BY <1>2
  <1>4. PICK url \in Url : url = [flow |-> n, ext |-> Nobody]
    BY DEF Url
  <1>5. PICK doc : doc = Document(t, "away", url)
    OBVIOUS
  <1>6. doc \in Tab /\ doc.call.kind = "none" /\ doc.page = "away" /\ ActsFor(doc) /\ Returned(doc)
    BY <1>5, DocumentIsGood
  <1>7. PICK r : r = [doc EXCEPT !.entry = n]
    OBVIOUS
  <1>8. r \in Tab /\ Returned(r) /\ ActsFor(r) /\ r.entry = n /\ r.call.kind = "none"
    BY <1>6, <1>7 DEF Tab, Returned, ActsFor
  <1>9. tab' = [tab EXCEPT ![t] = r]
    BY <1>3, <1>4, <1>5, <1>7 DEF StoreOAuthState
  <1>10. flows' = Append(flows, f)
    BY DEF StoreOAuthState
  <1> HIDE DEF f
  <1>11. /\ flows' \in Seq(Flow) /\ Len(flows') = n /\ flows'[n] = f /\ n \in DOMAIN flows'
         /\ \A i \in DOMAIN flows : i \in DOMAIN flows' /\ flows'[i] = flows[i]
         /\ \A i \in DOMAIN flows' : i = n \/ i \in DOMAIN flows
    BY <1>1, <1>2, <1>3, <1>10
  <1>12. tab'[t] = r /\ \A s \in Tabs \ {t} : tab'[s] = tab[s]
    BY <1>9 DEF SignInInv, SignInTypeOK
  <1>13. SignInTypeOK'
    <2>1. inbox' \in [Tabs -> Seq(Somebody)]
      <3>1. <<>> \in Seq(Somebody)
        OBVIOUS
      <3> QED
        BY <3>1 DEF StoreOAuthState, SignInInv, SignInTypeOK
    <2> QED
      BY <1>8, <1>9, <1>11, <2>1 DEF SignInInv, SignInTypeOK
  <1>14. LinkedByStarter'
    BY DEF SignInInv, LinkedByStarter
  <1>15. FlowUsedOnce'
    BY <1>1, <1>11 DEF SignInInv, FlowUsedOnce
  <1>16. ASSUME NEW s \in Tabs PROVE (Returned(tab[s]) /\ ActsFor(tab[s]) /\ EntryInv(s) /\ LinkInv(s))'
    <2>1. CASE s = t
      <3>1. EntryInv(s)' /\ LinkInv(s)'
        BY <1>1, <1>8, <1>11, <1>12, <2>1 DEF EntryInv, LinkInv
      <3> QED
        BY <1>8, <1>12, <2>1, <3>1 DEF Returned, ActsFor
    <2>2. CASE s # t
      BY <1>11, <1>12, <2>2 DEF SignInInv, Returned, ActsFor, EntryInv, LinkInv
    <2> QED
      BY <2>1, <2>2
  <1> QED
    BY <1>13, <1>14, <1>15, <1>16 DEF SignInInv

\* The callback uses up the entry; if it goes on, it is the first use of a flow
\* this tab has started, and a link is for the flow's user.
LEMMA CallbackKeeps ==
    ASSUME SignInInv, NEW t \in Tabs, Callback(t)
    PROVE  SignInInv'
  <1>1. PICK old \in Tab : tab[t] = old /\ Returned(old) /\ ActsFor(old)
    BY DEF SignInInv, SignInTypeOK
  <1>2. PICK i \in Nat : i = old.url.flow
    BY DEF Tab, Url
  <1>3. NoCall \in TabCall /\ NoCall.kind = "none" /\ Nobody \in Somebody
    BY DEF NoCall, TabCall, Somebody
  <1>4. old.url.ext \in Externals /\ old.call = NoCall
    BY <1>1 DEF Callback, Ready, Returned
  <1>5. flows \in Seq(Flow)
    BY DEF SignInInv, SignInTypeOK
  <1>6. PICK c \in TabCall, goes \in BOOLEAN :
          /\ tab' = [tab EXCEPT ![t].handled = TRUE, ![t].entry = 0, ![t].call = c]
          /\ c.kind \in {"none", "sso", "link"}
          /\ flows' = IF goes THEN [flows EXCEPT ![i].sent = @ + 1, ![i].senders = @ \cup {t}] ELSE flows
          /\ goes => old.entry # 0 /\ old.entry = i
          /\ c.kind = "link" => goes /\ flows[i].by = c.who
    <2>1. PICK link : link = [kind |-> "link", who |-> old.shown, as |-> old.token]
      OBVIOUS
    <2>2. PICK sso : sso = [kind |-> "sso", who |-> Nobody, as |-> Nobody]
      OBVIOUS
    <2>3. link \in TabCall /\ sso \in TabCall /\ link.kind = "link" /\ sso.kind = "sso" /\ link.who = old.shown
      BY <1>3, <2>1, <2>2 DEF TabCall, Tab
    <2>4. PICK goes \in BOOLEAN : goes <=> ValidState(t) /\ (flows[i].mode = "link" => MayLink(t, flows[i]))
      OBVIOUS
    <2>5. goes => old.entry # 0 /\ old.entry = i /\ (flows[i].mode = "link" => old.shown = flows[i].by)
      BY <1>1, <1>2, <2>4 DEF ValidState, MayLink
    <2>6. /\ tab' = [tab EXCEPT ![t].handled = TRUE, ![t].entry = 0,
                                ![t].call = IF goes THEN IF flows[i].mode = "link" THEN link ELSE sso ELSE NoCall]
          /\ flows' = IF goes THEN [flows EXCEPT ![i].sent = @ + 1, ![i].senders = @ \cup {t}] ELSE flows
      BY <1>1, <1>2, <2>1, <2>2, <2>4 DEF Callback, EntryAfter
    <2>7. CASE goes /\ flows[i].mode = "link"
      BY <2>3, <2>5, <2>6, <2>7
    <2>8. CASE goes /\ flows[i].mode # "link"
      BY <2>3, <2>5, <2>6, <2>8
    <2>9. CASE ~goes
      BY <1>3, <2>5, <2>6, <2>9
    <2> QED
      BY <2>7, <2>8, <2>9
  <1> DEFINE r == [old EXCEPT !.handled = TRUE, !.entry = 0, !.call = c]
  <1>7. tab' = [tab EXCEPT ![t] = r]
    BY <1>1, <1>6 DEF SignInInv, SignInTypeOK
  <1>8. r \in Tab /\ r.entry = 0 /\ r.call = c /\ r.url = old.url /\ Returned(r) /\ ActsFor(r)
    BY <1>1, <1>4, <1>6 DEF Tab, Returned, ActsFor
  <1> HIDE DEF r
  <1>9. tab'[t] = r /\ \A s \in Tabs \ {t} : tab'[s] = tab[s]
    BY <1>7 DEF SignInInv, SignInTypeOK
  <1>10. goes => i \in DOMAIN flows /\ flows[i].tab = t /\ flows[i].sent = 0
    BY <1>1, <1>6 DEF SignInInv, EntryInv
  <1>11. /\ flows' \in Seq(Flow) /\ DOMAIN flows' = DOMAIN flows
         /\ \A j \in DOMAIN flows : flows'[j].tab = flows[j].tab /\ flows'[j].by = flows[j].by
         /\ \A j \in DOMAIN flows : \/ flows'[j] = flows[j]
                                    \/ goes /\ j = i /\ flows'[j].sent = 1 /\ flows'[j].senders = flows[j].senders \cup {t}
    <2>1. CASE goes
      <3>1. PICK f \in Flow : f = flows[i]
        BY <1>5, <1>10, <2>1
      <3>2. PICK g : g = [f EXCEPT !.sent = @ + 1, !.senders = @ \cup {t}]
        OBVIOUS
      <3>3. g \in Flow /\ g.tab = f.tab /\ g.by = f.by /\ g.sent = f.sent + 1 /\ g.senders = f.senders \cup {t}
        <4>1. f.sent + 1 \in Nat /\ f.senders \cup {t} \in SUBSET Tabs
          BY DEF Flow
        <4> QED
          BY <3>2, <4>1 DEF Flow
      <3>4. flows' = [flows EXCEPT ![i] = g]
        BY <1>5, <1>6, <1>10, <2>1, <3>1, <3>2
      <3>5. flows' \in Seq(Flow) /\ DOMAIN flows' = DOMAIN flows
        BY <1>5, <1>10, <2>1, <3>3, <3>4
      <3>6. flows'[i] = g /\ \A j \in DOMAIN flows : j # i => flows'[j] = flows[j]
        BY <1>5, <1>10, <2>1, <3>3, <3>4
      <3>7. g.sent = 1
        BY <1>10, <2>1, <3>1, <3>3
      <3> QED
        BY <2>1, <3>1, <3>3, <3>5, <3>6, <3>7
    <2>2. CASE ~goes
      BY <1>5, <1>6, <2>2
    <2> QED
      BY <2>1, <2>2
  <1>12. SignInTypeOK'
    <2>1. UNCHANGED <<linkOf, linker, cookie, stash, inbox>>
      BY DEF Callback
    <2>2. tab' \in [Tabs -> Tab]
      BY <1>7, <1>8 DEF SignInInv, SignInTypeOK
    <2> QED
      BY <1>11, <2>1, <2>2 DEF SignInInv, SignInTypeOK
  <1>13. LinkedByStarter'
    BY DEF Callback, SignInInv, LinkedByStarter
  <1>14. FlowUsedOnce'
    <2> SUFFICES ASSUME NEW j \in DOMAIN flows
                 PROVE  flows'[j].sent <= 1 /\ flows'[j].senders \subseteq {flows'[j].tab}
      BY <1>11 DEF FlowUsedOnce
    <2>1. flows[j].sent <= 1 /\ flows[j].senders \subseteq {flows[j].tab}
      BY DEF SignInInv, FlowUsedOnce
    <2>2. CASE flows'[j] = flows[j]
      BY <2>1, <2>2
    <2>3. CASE goes /\ j = i /\ flows'[j].sent = 1 /\ flows'[j].senders = flows[j].senders \cup {t}
      <3>1. flows'[j].tab = t
        BY <1>10, <1>11, <2>3
      <3> QED
        BY <1>10, <2>1, <2>3, <3>1
    <2> QED
      BY <1>11, <2>2, <2>3
  <1>15. ASSUME NEW s \in Tabs PROVE (Returned(tab[s]) /\ ActsFor(tab[s]) /\ EntryInv(s) /\ LinkInv(s))'
    <2>1. CASE s = t
      <3>1. tab'[s].entry = 0 /\ tab'[s].call = c /\ tab'[s].url.flow = i
        BY <1>2, <1>8, <1>9, <2>1
      <3>2. c.kind = "link" => i \in DOMAIN flows' /\ flows'[i].by = c.who
        BY <1>6, <1>10, <1>11
      <3>3. EntryInv(s)' /\ LinkInv(s)'
        BY <3>1, <3>2 DEF EntryInv, LinkInv
      <3> QED
        BY <1>8, <1>9, <2>1, <3>3 DEF Returned, ActsFor
    <2>2. CASE s # t
      BY <1>9, <1>10, <1>11, <2>2 DEF SignInInv, Returned, ActsFor, EntryInv, LinkInv
    <2> QED
      BY <2>1, <2>2
  <1> QED
    BY <1>12, <1>13, <1>14, <1>15 DEF SignInInv

LEMMA LinkReplyKeeps ==
    ASSUME SignInInv, NEW t \in Tabs, LinkReply(t)
    PROVE  SignInInv'
  <1>1. PICK old \in Tab : tab[t] = old /\ Returned(old) /\ ActsFor(old)
    BY DEF SignInInv, SignInTypeOK
  <1>2. PICK c \in TabCall, x \in Externals, i \in DOMAIN flows :
          c = old.call /\ c.kind = "link" /\ x = old.url.ext /\ i = old.url.flow /\ flows[i].by = c.who
    BY <1>1 DEF LinkReply, Returned, Tab, SignInInv, LinkInv
  <1>3. NoCall \in TabCall /\ NoCall.kind = "none"
    BY DEF NoCall, TabCall, Somebody
  <1>4. /\ UNCHANGED <<cookie, stash, inbox, flows>>
        /\ linkOf \in [Externals -> Somebody] /\ linker \in [Externals -> Somebody] /\ c.who \in Somebody
    BY <1>2 DEF LinkReply, SignInInv, SignInTypeOK, TabCall
  <1>5. \/ /\ linkOf' = [linkOf EXCEPT ![x] = c.who]
           /\ linker' = [linker EXCEPT ![x] = c.who]
           /\ tab' = [tab EXCEPT ![t].call = NoCall, ![t].phase = "load", ![t].page = "app"]
        \/ tab' = [tab EXCEPT ![t].call = NoCall] /\ UNCHANGED <<linkOf, linker>>
    BY <1>1, <1>2 DEF LinkReply, Send
  <1>6. PICK r \in Tab : /\ tab' = [tab EXCEPT ![t] = r]
                         /\ r.entry = old.entry /\ r.call = NoCall /\ r.url = old.url
                         /\ r.page = "callback" => old.page = "callback"
                         /\ r.phase = "load" \/ r.phase = old.phase
                         /\ r.shown = old.shown /\ r.token = old.token /\ r.switched = old.switched
    <2>1. PICK r1 : r1 = [old EXCEPT !.call = NoCall, !.phase = "load", !.page = "app"]
      OBVIOUS
    <2>2. PICK r2 : r2 = [old EXCEPT !.call = NoCall]
      OBVIOUS
    <2>3. r1 \in Tab /\ r2 \in Tab
      BY <1>3, <2>1, <2>2 DEF Tab
    <2>4. tab' = [tab EXCEPT ![t] = r1] \/ tab' = [tab EXCEPT ![t] = r2]
      BY <1>1, <1>5, <2>1, <2>2 DEF SignInInv, SignInTypeOK
    <2>5. CASE tab' = [tab EXCEPT ![t] = r1]
      BY <2>1, <2>3, <2>5 DEF Tab
    <2>6. CASE tab' = [tab EXCEPT ![t] = r2]
      BY <2>2, <2>3, <2>6 DEF Tab
    <2> QED
      BY <2>4, <2>5, <2>6
  <1>7. Returned(r) /\ ActsFor(r) /\ r.call.kind = "none"
    BY <1>1, <1>3, <1>6 DEF Returned, ActsFor
  <1>8. LinksSound'
    BY <1>4, <1>5 DEF LinksSound, SignInInv, LinkedByStarter
  <1>9. cookie' \in Somebody /\ stash' \in Somebody /\ inbox' \in [Tabs -> Seq(Somebody)]
    BY <1>4 DEF SignInInv, SignInTypeOK
  <1> QED
    BY <1>1, <1>3, <1>4, <1>6, <1>7, <1>8, <1>9, OneTab

\* An unknown external account is registered, and the owner of a link removes
\* it: links change that no flow has made, or the flow's is forgotten.
LEMMA NewLinks ==
    ASSUME SignInInv, NEW x \in Externals,
           \/ linkOf[x] = Nobody /\ UNCHANGED linker
           \/ linker' = [linker EXCEPT ![x] = Nobody],
           NEW u \in Somebody, linkOf' = [linkOf EXCEPT ![x] = u]
    PROVE  LinksSound'
  <1>1. linkOf \in [Externals -> Somebody] /\ linker \in [Externals -> Somebody] /\ Nobody \in Somebody
    BY DEF SignInInv, SignInTypeOK, Somebody
  <1> QED
    BY <1>1 DEF LinksSound, SignInInv, LinkedByStarter

LEMMA UnlinkKeeps ==
    ASSUME SignInInv, NEW t \in Tabs, NEW x \in Externals, Unlink(t, x)
    PROVE  SignInInv'
  <1>1. Nobody \in Somebody
    BY DEF Somebody
  <1>2. LinksSound'
    BY <1>1, NewLinks DEF Unlink
  <1>3. UNCHANGED <<cookie, stash, tab, inbox, flows>>
    BY DEF Unlink
  <1> QED
    BY <1>2, <1>3 DEF LinksSound, SignInInv, SignInTypeOK, FlowUsedOnce, Returned, ActsFor, EntryInv, LinkInv

LEMMA SsoReplyKeeps ==
    ASSUME SignInInv, NEW t \in Tabs, SsoReply(t)
    PROVE  SignInInv'
  <1>1. PICK x \in Externals : x = tab[t].url.ext
    BY DEF SsoReply, SignInInv, Returned
  <1>2. linkOf[x] \in Somebody /\ UNCHANGED <<flows, linker>> /\ "app" # "callback"
    BY DEF SsoReply, SignInInv, SignInTypeOK
  <1>3. CASE linkOf[x] # Nobody
    <2>1. PICK u \in Somebody : u = linkOf[x]
      BY <1>2, SMTT(30)
    <2>2. SignedInAs(t, u, "app") /\ UNCHANGED linkOf
      BY <1>1, <1>3, <2>1, ZenonT(30) DEF SsoReply, SignedInAs, SetAccessToken
    <2> QED
      BY <1>2, <2>2, SignedInKeeps
  <1>4. CASE linkOf[x] = Nobody
    <2>1. PICK u \in Users : linkOf' = [linkOf EXCEPT ![x] = u] /\ SignedInAs(t, u, "app")
      BY <1>1, <1>4 DEF SsoReply, SignedInAs, SetAccessToken
    <2>2. u \in Somebody
      BY DEF Somebody
    <2>3. LinksSound'
      BY <1>2, <1>4, <2>1, <2>2, NewLinks
    <2> QED
      BY <1>2, <2>1, <2>2, <2>3, SignedInKeeps, SMTT(30)
  <1> QED
    BY <1>3, <1>4

LEMMA SignInNextInv ==
    ASSUME SignInInv, [SignInNext]_signInVars
    PROVE  SignInInv'
  <1>1. CASE UNCHANGED signInVars
    BY <1>1 DEF signInVars, SignInInv, SignInTypeOK, LinkedByStarter, FlowUsedOnce, Returned, ActsFor, EntryInv,
                LinkInv
  <1>2. ASSUME NEW t \in Tabs, StartSso(t) \/ StartLink(t)
        PROVE  SignInInv'
    <2>1. PICK user \in Somebody : user = tab[t].shown
      BY DEF SignInInv, SignInTypeOK, Tab
    <2>2. Nobody \in Somebody
      BY DEF Somebody
    <2>3. CASE StartSso(t)
      BY <2>2, <2>3, StoreKeeps DEF StartSso
    <2>4. CASE StartLink(t)
      <3>1. StoreOAuthState(t, "link", user) /\ UNCHANGED <<linkOf, cookie, stash, linker>>
        BY <2>1, <2>4 DEF StartLink, StoreOAuthState
      <3> QED
        BY <3>1, StoreKeeps
    <2> QED
      BY <1>2, <2>3, <2>4
  <1> QED
    BY <1>1, <1>2, AdoptKeeps, RefreshExpiredKeeps, GetTokenKeeps, AskUserKeeps, UserReplyKeeps, UserFailsKeeps,
       GoToAuthKeeps, PasswordSignInKeeps, SignUpKeeps, SignUpReplyKeeps, SignInReplyKeeps, CallFailsKeeps,
       SignOutKeeps, LoadingKeeps, UnlinkKeeps, ExpireStateKeeps, CallbackKeeps, LinkReplyKeeps, SsoReplyKeeps
       DEF SignInNext

LEMMA SignInStaysInv == SignInSpec => []SignInInv
  BY SignInInitInv, SignInNextInv, PTL DEF SignInSpec

\* Whatever the tabs of a browser do meanwhile - signing out and in as others,
\* reloading, starting flows again, opening each other's addresses - an external
\* account is linked to the user who set out to link it, a flow is completed
\* once and by its tab, and a tab acts as the user it shows (AuthContext.tsx,
\* AuthCallback.tsx, oauth.ts).
THEOREM TabsActAsTheirUser == SignInSpec => []TabsActForTheirUser
  <1>1. SignInInv => TabsActForTheirUser
    BY DEF SignInInv, TabsActForTheirUser, ActsAsShown, ActsFor, Ready
  <1> QED
    BY <1>1, SignInStaysInv, PTL
-----------------------------------------------------------------------------
(***************************************************************************)
(* InstanceSettings.  As long as nothing is excused, one save is under way *)
(* at most, the parts that it did not edit are those that are stored, and  *)
(* the context is what is stored, or the answer of the save is.            *)
(***************************************************************************)
Copy == [Parts -> -1 .. 2]
SaveForms == {"section", "profile", "memo", "tags", "storage", "email", "provider", "transcription", "delete", "done"}
SaveStages == {"sent", "read", "ok", "rejected", "refetch", "done"}
SaveRecord == [form : SaveForms, payload : Copy, edited : SUBSET Parts, stage : SaveStages, seen : Copy]

InstanceTypeOK ==
    /\ key \in AllSettings
    /\ setting \in [Parts -> 0 .. 2]
    /\ ctx \in Copy
    /\ fetched \in BOOLEAN /\ mounted \in BOOLEAN /\ loaded \in BOOLEAN
    /\ fetch \in [stage : {"none", "sent", "reply"}, answer : Copy, for : Nat]
    /\ fetch.for \in {0} \cup DOMAIN saves
    /\ draft \in [Forms -> Copy]
    /\ dialog \in [id : Providers, key : -1 .. 2]
    /\ saves \in Seq(SaveRecord)
    /\ \A i \in DOMAIN saves : saves[i].stage = "read" => saves[i].seen \in [Parts -> 0 .. 2]
    /\ reverted \in BOOLEAN /\ excused \in BOOLEAN

\* What a mounted form does not edit is as the context has it.
CopyInv ==
    mounted => \A f \in Forms \ {"profile", "transcription"} : \A p \in Parts :
                 p \notin Own[f] \/ f = "provider" => draft[f][p] = Shown(ctx)[p]

KeepsRest(s) == \A p \in Parts \ s.edited : Blank(s.payload, p) \/ s.payload[p] = setting[p]

SaveTells(i) ==
    /\ saves[i].stage \in {"sent", "read"} => loaded /\ KeepsRest(saves[i])
    /\ saves[i].stage = "read" => saves[i].seen = setting
    /\ saves[i].stage = "ok" => saves[i].seen = View(setting)
    /\ saves[i].stage = "refetch" <=> fetch.stage # "none" /\ fetch.for = i

Alone ==
    /\ \A i, j \in InFlight : i = j
    /\ \A i \in InFlight : SaveTells(i)
    /\ fetch.stage # "none" => \A i \in InFlight : fetch.for = i
    /\ fetch.stage = "reply" => fetch.answer = View(setting)
    /\ loaded => ctx = View(setting) \/ \E i \in InFlight : saves[i].stage = "ok"

InstanceInv == InstanceTypeOK /\ CopyInv /\ (~excused => ~reverted /\ Alone)

LEMMA PartsOfSettings ==
    ASSUME key \in AllSettings
    PROVE  /\ Secrets \cap Speech = {} /\ "password" \notin Speech
           /\ key = "GENERAL" => Parts = {"profile", "rest"}
           /\ key = "MEMO_RELATED" => Parts = {"memo"}
           /\ key = "TAGS" => Parts = {"tags"}
           /\ key = "STORAGE" => Parts = {"storage", "s3"}
           /\ key = "NOTIFICATION" => Parts = {"smtp", "sender", "password"}
           /\ key = "AI" => Parts = {"provider1", "provider2", "speechProvider", "speechText"}
  BY DEF AllSettings, Secrets, Speech, Providers, Parts

LEMMA ViewOf ==
    ASSUME NEW v \in [Parts -> 0 .. 2]
    PROVE  /\ View(v) \in Copy /\ Shown(View(v)) = View(v)
           /\ \A p \in Parts : View(v)[p] = Keep \/ View(v)[p] = v[p]
  <1>1. \A p \in Parts : View(v)[p] = IF p \in Secrets /\ v[p] # 0 THEN Keep ELSE v[p]
    BY DEF View
  <1>2. View(v) \in Copy
    BY DEF View, Copy, Keep
  <1>3. \A p \in Parts : p \in Speech => View(v)[p] # Keep
    BY <1>1 DEF Secrets, Speech, Providers, Keep
  <1>4. Shown(View(v)) = View(v)
    BY <1>2, <1>3 DEF Shown, Copy
  <1> QED
    BY <1>1, <1>2, <1>4

LEMMA ShownOf ==
    ASSUME NEW v \in Copy
    PROVE  Shown(v) \in Copy
  BY DEF Shown, Copy, Keep

\* What a save carries besides its edits comes from the context.
FromContext(payload, edited) ==
    \A p \in Parts \ edited : payload[p] = ctx[p] \/ payload[p] = Shown(ctx)[p]

LEMMA CarriedIsStored ==
    ASSUME InstanceTypeOK, ctx = View(setting), NEW payload, NEW edited, FromContext(payload, edited), NEW p \in Parts \ edited
    PROVE  Blank(payload, p) \/ payload[p] = setting[p]
  BY ViewOf DEF InstanceTypeOK, FromContext, Blank

LEMMA AppendSave ==
    ASSUME saves \in Seq(SaveRecord), NEW r \in SaveRecord, r.stage = "sent", saves' = Append(saves, r)
    PROVE  /\ saves' \in Seq(SaveRecord)
           /\ DOMAIN saves' = DOMAIN saves \cup {Len(saves) + 1} /\ Len(saves) + 1 \notin DOMAIN saves
           /\ \A j \in DOMAIN saves : saves'[j] = saves[j]
           /\ saves'[Len(saves) + 1] = r
           /\ InFlight' = InFlight \cup {Len(saves) + 1}
  <1>1. /\ saves' \in Seq(SaveRecord) /\ Len(saves') = Len(saves) + 1 /\ Len(saves) \in Nat
        /\ \A j \in DOMAIN saves : saves'[j] = saves[j]
        /\ saves'[Len(saves) + 1] = r
    OBVIOUS
  <1>2. DOMAIN saves = 1 .. Len(saves) /\ DOMAIN saves' = 1 .. (Len(saves) + 1)
    BY <1>1
  <1>3. DOMAIN saves' = DOMAIN saves \cup {Len(saves) + 1} /\ Len(saves) + 1 \notin DOMAIN saves
    BY <1>1, <1>2
  <1> QED
    BY <1>1, <1>3 DEF InFlight

LEMMA SetSave ==
    ASSUME saves \in Seq(SaveRecord), NEW i \in DOMAIN saves, NEW r \in SaveRecord, saves' = [saves EXCEPT ![i] = r]
    PROVE  /\ saves' \in Seq(SaveRecord) /\ DOMAIN saves' = DOMAIN saves
           /\ saves'[i] = r /\ \A j \in DOMAIN saves \ {i} : saves'[j] = saves[j]
           /\ r.stage = "done" => InFlight' = InFlight \ {i}
           /\ r.stage # "done" /\ i \in InFlight => InFlight' = InFlight
  <1>1. /\ saves' \in Seq(SaveRecord) /\ DOMAIN saves' = DOMAIN saves
        /\ saves'[i] = r /\ \A j \in DOMAIN saves \ {i} : saves'[j] = saves[j]
    OBVIOUS
  <1> QED
    BY <1>1 DEF InFlight

LEMMA SettledSave == Settled \in SaveRecord /\ Settled.stage = "done"
  BY DEF Settled, SaveRecord, SaveForms, SaveStages, Copy

LEMMA NoFetchYet ==
    /\ NoFetch \in [stage : {"none", "sent", "reply"}, answer : Copy, for : Nat]
    /\ NoFetch.stage = "none" /\ NoFetch.for = 0
  BY DEF NoFetch, Copy

-----------------------------------------------------------------------------
LEMMA InitInstance == InstanceInit => InstanceInv
  <1> SUFFICES ASSUME InstanceInit PROVE InstanceInv
    OBVIOUS
  <1>1. setting \in [Parts -> 0 .. 2] /\ key \in AllSettings
    BY InstanceAssumption DEF InstanceInit, Stored
  <1>2. Defaults \in Copy
    BY DEF Defaults, Copy, Keep
  <1>3. ctx \in Copy /\ (loaded => ctx = View(setting)) /\ fetched \in BOOLEAN /\ loaded \in BOOLEAN
    BY <1>1, <1>2, ViewOf DEF InstanceInit
  <1>4. draft \in [Forms -> Copy]
    BY <1>3, ShownOf DEF InstanceInit
  <1>5. saves = <<>> /\ saves \in Seq(SaveRecord) /\ InFlight = {} /\ DOMAIN saves = {}
    BY DEF InstanceInit, InFlight
  <1>6. dialog \in [id : Providers, key : -1 .. 2]
    BY DEF InstanceInit, NoDialog, Providers
  <1>7. InstanceTypeOK
    BY <1>1, <1>3, <1>4, <1>5, <1>6, NoFetchYet DEF InstanceTypeOK, InstanceInit
  <1>8. Alone
    BY <1>3, <1>5, NoFetchYet DEF Alone, InstanceInit
  <1> QED
    BY <1>7, <1>8 DEF InstanceInv, CopyInv, InstanceInit

\* A save starts from the context when it is the only exchange under way.
LEMMA SubmitInv ==
    ASSUME InstanceInv, NEW f \in SaveForms, NEW payload \in Copy, NEW edited \in SUBSET Parts,
           FromContext(payload, edited), Submit(f, payload, edited)
    PROVE  InstanceInv'
  <1>0. PICK r : r = [form |-> f, payload |-> payload, edited |-> edited, stage |-> "sent", seen |-> [p \in Parts |-> 0]]
    OBVIOUS
  <1>n. PICK n : n = Len(saves) + 1
    OBVIOUS
  <1>1. r \in SaveRecord /\ r.stage = "sent" /\ r.payload = payload /\ r.edited = edited
    BY <1>0 DEF SaveRecord, SaveStages, Copy
  <1>2. saves' = Append(saves, r) /\ saves \in Seq(SaveRecord)
    BY <1>0 DEF Submit, InstanceInv, InstanceTypeOK
  <1>2a. UNCHANGED <<key, setting, ctx, fetched, fetch, mounted, draft, dialog, edits, failures, loaded, reverted>>
    BY DEF Submit
  <1>2b. excused' = (excused \/ ~loaded \/ InFlight # {} \/ fetch.stage # "none")
    BY DEF Submit
  <1>3. /\ saves' \in Seq(SaveRecord)
        /\ DOMAIN saves' = DOMAIN saves \cup {n} /\ n \notin DOMAIN saves
        /\ \A j \in DOMAIN saves : saves'[j] = saves[j]
        /\ saves'[n] = r
        /\ InFlight' = InFlight \cup {n}
    BY <1>1, <1>2, <1>n, AppendSave
  <1>4. Parts' = Parts /\ Forms' = Forms /\ Copy' = Copy /\ SaveRecord' = SaveRecord
    BY <1>2a DEF Parts, Forms, Copy, SaveRecord
  <1>5. InstanceTypeOK'
    <2>1. \A i \in DOMAIN saves' : saves'[i].stage = "read" => saves'[i].seen \in [Parts -> 0 .. 2]
      BY <1>1, <1>3 DEF InstanceInv, InstanceTypeOK
    <2>2. fetch'.for \in {0} \cup DOMAIN saves'
      BY <1>2a, <1>3 DEF InstanceInv, InstanceTypeOK
    <2> QED
      BY <1>2a, <1>2b, <1>3, <1>4, <2>1, <2>2 DEF InstanceInv, InstanceTypeOK
  <1>6. CopyInv'
    BY <1>2a, <1>4 DEF InstanceInv, CopyInv, Shown
  <1>7. ASSUME ~excused' PROVE ~reverted' /\ Alone'
    <2>1. ~excused /\ loaded /\ InFlight = {} /\ fetch.stage = "none" /\ ~reverted /\ Alone
      BY <1>2b, <1>7 DEF InstanceInv
    <2>2. ctx = View(setting)
      BY <2>1 DEF Alone
    <2>3. \A p \in Parts \ edited : Blank(payload, p) \/ payload[p] = setting[p]
      BY <2>2, CarriedIsStored DEF InstanceInv
    <2>4. KeepsRest(r)
      BY <1>1, <2>3 DEF KeepsRest
    <2>5. KeepsRest(saves[n])'
      BY <1>2a, <1>3, <1>4, <2>4 DEF KeepsRest, Blank
    <2>6. View(setting)' = View(setting)
      BY <1>2a, <1>4 DEF View
    <2>7. InFlight' = {n}
      BY <1>3, <2>1
    <2>8. SaveTells(n)'
      BY <1>1, <1>2a, <1>3, <2>1, <2>5 DEF SaveTells
    <2> QED
      BY <1>2a, <2>1, <2>2, <2>6, <2>7, <2>8 DEF Alone
  <1> QED
    BY <1>5, <1>6, <1>7 DEF InstanceInv

-----------------------------------------------------------------------------
\* A new context sets the copies that are not being edited.
LEMMA NewContext ==
    ASSUME InstanceTypeOK, NEW new \in Copy, NEW i, SetContext(new, i), key' = key, mounted' = mounted
    PROVE  /\ ctx' = new /\ loaded' = TRUE
           /\ draft' \in [Forms -> Copy] /\ dialog' \in [id : Providers, key : -1 .. 2]
           /\ CopyInv'
  <1>1. Parts' = Parts /\ Forms' = Forms
    BY DEF Parts, Forms
  <1>2. \A f \in Forms : draft[f] \in Copy
    BY DEF InstanceTypeOK
  <1>3. \A f \in Forms : Sync(f, ctx, new) \in Copy
    BY <1>2, ShownOf DEF Sync
  <1>4. \A d \in Copy : Cleared(i, d) \in Copy
    <2>1. ASSUME NEW d \in Copy PROVE [d EXCEPT !["speechProvider"] = 0] \in Copy
      <3>1. PICK e : e = [d EXCEPT !["speechProvider"] = 0]
        OBVIOUS
      <3>2. \A p \in Parts : e[p] = d[p] \/ e[p] = 0
        BY <3>1 DEF Copy
      <3>3. e = [p \in Parts |-> e[p]]
        BY <3>1 DEF Copy
      <3>4. \A p \in Parts : e[p] \in -1 .. 2
        BY <3>2 DEF Copy
      <3> QED
        BY <3>1, <3>3, <3>4 DEF Copy
    <2>2. \A d \in Copy : Cleared(i, d) \in {d, [d EXCEPT !["speechProvider"] = 0]}
      BY DEF Cleared
    <2> QED
      BY <2>1, <2>2
  <1>5. draft' \in [Forms -> Copy]
    <2>1. CASE ~mounted
      BY <2>1 DEF SetContext, InstanceTypeOK
    <2>2. CASE mounted
      BY <1>3, <1>4, <2>2 DEF SetContext
    <2> QED
      BY <2>1, <2>2
  <1>6. dialog' \in [id : Providers, key : -1 .. 2]
    BY DEF SetContext, NoDialog, Providers, InstanceTypeOK
  <1>7. ASSUME mounted, NEW f \in Forms \ {"profile", "transcription"} PROVE draft'[f] = Shown(new)
    <2>1. draft'[f] = Sync(f, ctx, new)
      BY <1>7 DEF SetContext
    <2> QED
      BY <1>7, <2>1 DEF Sync
  <1>8. Shown(ctx)' = Shown(new)
    BY <1>1 DEF SetContext, Shown
  <1>9. CopyInv'
    BY <1>1, <1>7, <1>8 DEF CopyInv
  <1> QED
    BY <1>5, <1>6, <1>9 DEF SetContext

\* What the setting under consideration determines.
LEMMA SameKey ==
    ASSUME key' = key
    PROVE  /\ Parts' = Parts /\ Forms' = Forms /\ Copy' = Copy /\ SaveRecord' = SaveRecord
           /\ NoFetch' = NoFetch /\ Settled' = Settled
  BY DEF Parts, Forms, Copy, SaveRecord, NoFetch, Settled

LEMMA ReadStoredInv ==
    ASSUME InstanceInv, NEW i \in InFlight, ReadStored(i)
    PROVE  InstanceInv'
  <1>1. PICK r : r = [saves[i] EXCEPT !.stage = "read", !.seen = setting]
    OBVIOUS
  <1>2. i \in DOMAIN saves /\ saves[i] \in SaveRecord /\ setting \in Copy /\ saves \in Seq(SaveRecord)
    BY DEF InFlight, InstanceInv, InstanceTypeOK, Copy
  <1>3. r \in SaveRecord /\ r.stage = "read" /\ r.seen = setting /\ r.payload = saves[i].payload /\ r.edited = saves[i].edited
    BY <1>1, <1>2 DEF SaveRecord, SaveStages
  <1>4. saves' = [saves EXCEPT ![i] = r] /\ saves[i].stage = "sent"
    BY <1>1, <1>2 DEF ReadStored
  <1>5. UNCHANGED <<key, setting, ctx, fetched, fetch, mounted, draft, dialog, edits, failures, loaded, reverted, excused>>
    BY DEF ReadStored
  <1>6. /\ saves' \in Seq(SaveRecord) /\ DOMAIN saves' = DOMAIN saves
        /\ saves'[i] = r /\ \A j \in DOMAIN saves \ {i} : saves'[j] = saves[j]
        /\ InFlight' = InFlight
    BY <1>2, <1>3, <1>4, SetSave
  <1>7. InstanceTypeOK'
    BY <1>3, <1>5, <1>6, SameKey DEF InstanceInv, InstanceTypeOK
  <1>8. CopyInv'
    BY <1>5, SameKey DEF InstanceInv, CopyInv, Shown
  <1>9. ASSUME ~excused PROVE Alone'
    <2>1. Alone
      BY <1>9 DEF InstanceInv
    <2>2. KeepsRest(saves[i])' /\ loaded
      <3>1. SaveTells(i) /\ loaded /\ KeepsRest(saves[i])
        BY <1>4, <2>1 DEF Alone, SaveTells
      <3> QED
        BY <1>3, <1>5, <1>6, <3>1, SameKey DEF KeepsRest, Blank
    <2>3. SaveTells(i)'
      BY <1>3, <1>4, <1>5, <1>6, <2>1, <2>2 DEF Alone, SaveTells
    <2>4. View(setting)' = View(setting)
      BY <1>5, SameKey DEF View
    <2>5. InFlight = {i}
      BY <2>1 DEF Alone
    <2>6. loaded => ctx = View(setting)
      BY <1>4, <2>1, <2>5 DEF Alone
    <2> QED
      BY <1>5, <1>6, <2>1, <2>3, <2>4, <2>5, <2>6 DEF Alone
  <1> QED
    BY <1>5, <1>7, <1>8, <1>9 DEF InstanceInv

\* The server keeps what the save did not edit.
LEMMA ResolveKeeps ==
    ASSUME NEW s, KeepsRest(s), s.seen = setting, NEW p \in Parts \ s.edited
    PROVE  Resolve(s.payload, s.seen)[p] = setting[p]
  BY DEF KeepsRest, Resolve, Blank

LEMMA ResolvedIsStored ==
    ASSUME NEW payload \in Copy, NEW was \in [Parts -> 0 .. 2]
    PROVE  Resolve(payload, was) \in [Parts -> 0 .. 2]
  <1>1. \A p \in Parts : Resolve(payload, was)[p] = IF Blank(payload, p) THEN was[p] ELSE payload[p]
    BY DEF Resolve
  <1>2. \A p \in Parts : Resolve(payload, was)[p] \in 0 .. 2
    BY <1>1 DEF Blank, Copy, Keep
  <1> QED
    BY <1>2 DEF Resolve

LEMMA UpsertInv ==
    ASSUME InstanceInv, NEW i \in InFlight, UpsertInstanceSetting(i)
    PROVE  InstanceInv'
  <1>1. PICK new : new = Resolve(saves[i].payload, saves[i].seen)
    OBVIOUS
  <1>2. i \in DOMAIN saves /\ saves[i] \in SaveRecord /\ saves \in Seq(SaveRecord) /\ saves[i].stage = "read"
    BY DEF InFlight, InstanceInv, InstanceTypeOK, UpsertInstanceSetting
  <1>3. new \in [Parts -> 0 .. 2] /\ View(new) \in Copy
    <2>1. saves[i].payload \in Copy /\ saves[i].seen \in [Parts -> 0 .. 2]
      BY <1>2 DEF InstanceInv, InstanceTypeOK, SaveRecord
    <2>2. new \in [Parts -> 0 .. 2]
      BY <1>1, <2>1, ResolvedIsStored
    <2> QED
      BY <2>2, ViewOf
  <1>4. UNCHANGED <<key, ctx, fetched, fetch, mounted, draft, dialog, edits, failures, loaded, excused>>
    BY DEF UpsertInstanceSetting
  <1>5. PICK r : r = IF Accepted(saves[i].payload, saves[i].seen)
                     THEN [saves[i] EXCEPT !.stage = "ok", !.seen = View(new)]
                     ELSE [saves[i] EXCEPT !.stage = "rejected"]
    OBVIOUS
  <1>6. /\ r \in SaveRecord /\ r.stage \in {"ok", "rejected"}
        /\ r.stage = "ok" => r.seen = View(new)
    BY <1>2, <1>3, <1>5 DEF SaveRecord, SaveStages
  <1>7. saves' = [saves EXCEPT ![i] = r]
    BY <1>1, <1>2, <1>5 DEF UpsertInstanceSetting
  <1>8. /\ saves' \in Seq(SaveRecord) /\ DOMAIN saves' = DOMAIN saves
        /\ saves'[i] = r /\ \A j \in DOMAIN saves \ {i} : saves'[j] = saves[j]
        /\ InFlight' = InFlight
    BY <1>2, <1>6, <1>7, SetSave
  <1>9. /\ r.stage = "ok" => setting' = new /\ reverted' = (reverted \/ \E p \in Parts \ saves[i].edited : new[p] # setting[p])
        /\ r.stage = "rejected" => UNCHANGED <<setting, reverted>>
    <2>1. CASE Accepted(saves[i].payload, saves[i].seen)
      BY <1>1, <1>2, <1>5, <2>1 DEF UpsertInstanceSetting, SaveRecord
    <2>2. CASE ~Accepted(saves[i].payload, saves[i].seen)
      BY <1>1, <1>2, <1>5, <2>2 DEF UpsertInstanceSetting, SaveRecord
    <2> QED
      BY <2>1, <2>2
  <1>10. setting' \in [Parts -> 0 .. 2] /\ reverted' \in BOOLEAN
    BY <1>3, <1>6, <1>9 DEF InstanceInv, InstanceTypeOK
  <1>11. InstanceTypeOK'
    <2>1. \A j \in DOMAIN saves' : saves'[j].stage = "read" => saves'[j].seen \in [Parts -> 0 .. 2]
      BY <1>6, <1>8 DEF InstanceInv, InstanceTypeOK
    <2> QED
      BY <1>4, <1>8, <1>10, <2>1, SameKey DEF InstanceInv, InstanceTypeOK
  <1>12. CopyInv'
    BY <1>4, SameKey DEF InstanceInv, CopyInv, Shown
  <1>13. ASSUME ~excused PROVE ~reverted' /\ Alone'
    <2>1. Alone /\ ~reverted
      BY <1>13 DEF InstanceInv
    <2>2. InFlight = {i} /\ SaveTells(i) /\ loaded /\ KeepsRest(saves[i]) /\ saves[i].seen = setting
      BY <1>2, <2>1 DEF Alone, SaveTells
    <2>3. fetch.stage = "none" /\ ctx = View(setting)
      BY <1>2, <2>1, <2>2 DEF Alone, SaveTells
    <2>4. \A p \in Parts \ saves[i].edited : new[p] = setting[p]
      BY <1>1, <2>2, ResolveKeeps
    <2>5. ~reverted'
      BY <1>6, <1>9, <2>1, <2>4
    <2>6. View(setting)' = IF r.stage = "ok" THEN View(new) ELSE View(setting)
      BY <1>4, <1>6, <1>9, SameKey DEF View
    <2>7. SaveTells(i)'
      BY <1>4, <1>6, <1>8, <2>3, <2>6 DEF SaveTells
    <2> QED
      BY <1>4, <1>6, <1>8, <2>2, <2>3, <2>5, <2>6, <2>7 DEF Alone
  <1> QED
    BY <1>4, <1>11, <1>12, <1>13 DEF InstanceInv

\* A save ends without changing what is stored or the context: it was refused,
\* lost, or the fetch it awaited has failed.
LEMMA SettleInv ==
    ASSUME InstanceInv, NEW i \in DOMAIN saves, saves' = [saves EXCEPT ![i] = Settled],
           ~excused' => ~excused /\ (i \in InFlight => saves[i].stage # "ok"),
           excused' \in BOOLEAN, fetched' \in BOOLEAN,
           UNCHANGED <<key, setting, ctx, mounted, draft, dialog, loaded, reverted>>,
           \/ fetch' = fetch /\ (i \in InFlight => saves[i].stage # "refetch")
           \/ fetch' = NoFetch /\ fetch.stage # "none" /\ fetch.for = i
    PROVE  InstanceInv'
  <1>1. saves \in Seq(SaveRecord)
    BY DEF InstanceInv, InstanceTypeOK
  <1>2. PICK r : r = Settled
    OBVIOUS
  <1>3. r \in SaveRecord /\ r.stage = "done"
    BY <1>2, SettledSave
  <1>4. /\ saves' \in Seq(SaveRecord) /\ DOMAIN saves' = DOMAIN saves
        /\ saves'[i] = r /\ \A j \in DOMAIN saves \ {i} : saves'[j] = saves[j]
        /\ InFlight' = InFlight \ {i}
    BY <1>1, <1>2, <1>3, SetSave
  <1>5. fetch' \in [stage : {"none", "sent", "reply"}, answer : Copy, for : Nat] /\ fetch'.for \in {0} \cup DOMAIN saves
    BY NoFetchYet DEF InstanceInv, InstanceTypeOK
  <1>6. InstanceTypeOK'
    <2>1. \A j \in DOMAIN saves' : saves'[j].stage = "read" => saves'[j].seen \in [Parts -> 0 .. 2]
      BY <1>3, <1>4 DEF InstanceInv, InstanceTypeOK
    <2> QED
      BY <1>4, <1>5, <2>1, SameKey DEF InstanceInv, InstanceTypeOK
  <1>7. CopyInv'
    BY SameKey DEF InstanceInv, CopyInv, Shown
  <1>8. ASSUME ~excused' PROVE ~reverted' /\ Alone'
    <2>1. Alone /\ ~reverted
      BY <1>8 DEF InstanceInv
    <2>2. View(setting)' = View(setting)
      BY SameKey DEF View
    <2>3. CASE i \in InFlight
      <3>1. InFlight = {i} /\ InFlight' = {}
        BY <1>4, <2>1, <2>3 DEF Alone
      <3>2. fetch'.stage = "none"
        <4>1. CASE fetch' = NoFetch
          BY <4>1, NoFetchYet
        <4>2. CASE fetch' = fetch /\ saves[i].stage # "refetch"
          BY <2>1, <2>3, <4>2 DEF Alone, SaveTells, InstanceInv, InstanceTypeOK
        <4> QED
          BY <2>3, <4>1, <4>2
      <3>3. loaded => ctx = View(setting)
        BY <1>8, <2>1, <2>3, <3>1 DEF Alone
      <3> QED
        BY <2>1, <2>2, <3>1, <3>2, <3>3 DEF Alone
    <2>4. CASE i \notin InFlight
      <3>1. InFlight' = InFlight /\ \A j \in InFlight : saves'[j] = saves[j] /\ j # i
        BY <1>4, <2>4 DEF InFlight
      <3>2. \A j \in InFlight : KeepsRest(saves[j])' <=> KeepsRest(saves[j])
        BY <3>1, SameKey DEF KeepsRest, Blank
      <3>3. CASE fetch' = fetch
        <4>1. \A j \in InFlight : SaveTells(j)'
          BY <2>1, <2>2, <3>1, <3>2, <3>3 DEF Alone, SaveTells
        <4> QED
          BY <2>1, <2>2, <3>1, <3>3, <4>1 DEF Alone
      <3>4. CASE fetch' = NoFetch /\ fetch.stage # "none" /\ fetch.for = i
        <4>1. InFlight = {}
          BY <2>1, <2>4, <3>4 DEF Alone
        <4> QED
          BY <2>1, <2>2, <3>1, <3>4, <4>1, NoFetchYet DEF Alone
      <3> QED
        BY <3>3, <3>4
    <2> QED
      BY <2>3, <2>4
  <1> QED
    BY <1>6, <1>7, <1>8 DEF InstanceInv

LEMMA SaveEndsInv ==
    ASSUME InstanceInv, NEW i \in InFlight, SaveRejected(i) \/ SaveLost(i)
    PROVE  InstanceInv'
  <1>1. i \in DOMAIN saves
    BY DEF InFlight
  <1>2. CASE SaveRejected(i)
    BY <1>1, <1>2, SettleInv DEF SaveRejected, InstanceInv, InstanceTypeOK
  <1>3. CASE SaveLost(i)
    BY <1>1, <1>3, SettleInv DEF SaveLost, InstanceInv, InstanceTypeOK
  <1> QED
    BY <1>2, <1>3

LEMMA FetchFailsInv ==
    ASSUME InstanceInv, SettingFetchFails
    PROVE  InstanceInv'
  <1>1. CASE fetch.for # 0
    <2>1. fetch.for \in DOMAIN saves
      BY <1>1 DEF InstanceInv, InstanceTypeOK
    <2>2. ~excused => (fetch.for \in InFlight => saves[fetch.for].stage # "ok")
      <3>1. SUFFICES ASSUME ~excused, fetch.for \in InFlight PROVE saves[fetch.for].stage # "ok"
        OBVIOUS
      <3>2. SaveTells(fetch.for) /\ fetch.stage # "none"
        BY <3>1 DEF InstanceInv, Alone, SettingFetchFails
      <3> QED
        BY <3>2 DEF SaveTells
    <2>3. PICK i : i = fetch.for
      OBVIOUS
    <2>4. saves' = [saves EXCEPT ![i] = Settled] /\ fetch' = NoFetch /\ fetch.stage # "none"
          /\ fetched' \in BOOLEAN /\ excused' = excused
          /\ UNCHANGED <<key, setting, ctx, mounted, draft, dialog, loaded, reverted>>
      BY <1>1, <2>3 DEF SettingFetchFails
    <2>5. excused' \in BOOLEAN
      BY <2>4 DEF InstanceInv, InstanceTypeOK
    <2> QED
      BY <2>1, <2>2, <2>3, <2>4, <2>5, SettleInv
  <1>2. CASE fetch.for = 0
    <2>1. UNCHANGED <<key, setting, ctx, saves, mounted, draft, dialog, loaded, reverted, excused>>
          /\ fetch' = NoFetch /\ fetched' = FALSE /\ fetch.stage # "none"
      BY <1>2 DEF SettingFetchFails
    <2>2. InFlight' = InFlight
      BY <2>1 DEF InFlight
    <2>3. InstanceTypeOK'
      BY <2>1, SameKey, NoFetchYet DEF InstanceInv, InstanceTypeOK
    <2>4. CopyInv'
      BY <2>1, SameKey DEF InstanceInv, CopyInv, Shown
    <2>5. ASSUME ~excused PROVE Alone'
      <3>1. Alone
        BY <2>5 DEF InstanceInv
      <3>2. InFlight = {}
        <4>1. \A i \in InFlight : i = 0 /\ i \in DOMAIN saves
          BY <1>2, <2>1, <3>1 DEF Alone, InFlight
        <4>2. 0 \notin DOMAIN saves
          BY DEF InstanceInv, InstanceTypeOK
        <4> QED
          BY <4>1, <4>2
      <3>3. View(setting)' = View(setting)
        BY <2>1, SameKey DEF View
      <3> QED
        BY <2>1, <2>2, <3>1, <3>2, <3>3, NoFetchYet DEF Alone
    <2> QED
      BY <2>1, <2>3, <2>4, <2>5 DEF InstanceInv
  <1> QED
    BY <1>1, <1>2

LEMMA ServedInv ==
    ASSUME InstanceInv, SettingServed
    PROVE  InstanceInv'
  <1>1. UNCHANGED <<key, setting, ctx, fetched, mounted, draft, dialog, saves, loaded, reverted, excused>>
    BY DEF SettingServed
  <1>2. PICK v : v = View(setting)
    OBVIOUS
  <1>3. v \in Copy
    BY <1>2, ViewOf DEF InstanceInv, InstanceTypeOK
  <1>4. /\ fetch' \in [stage : {"none", "sent", "reply"}, answer : Copy, for : Nat]
        /\ fetch'.stage = "reply" /\ fetch'.answer = v /\ fetch'.for = fetch.for /\ fetch.stage = "sent"
    BY <1>2, <1>3 DEF SettingServed, InstanceInv, InstanceTypeOK
  <1>5. View(setting)' = v /\ InFlight' = InFlight
    BY <1>1, <1>2, SameKey DEF View, InFlight
  <1>6. InstanceTypeOK'
    BY <1>1, <1>4, SameKey DEF InstanceInv, InstanceTypeOK
  <1>7. CopyInv'
    BY <1>1, SameKey DEF InstanceInv, CopyInv, Shown
  <1>8. ASSUME ~excused PROVE Alone'
    <2>1. Alone
      BY <1>8 DEF InstanceInv
    <2>2. ASSUME NEW i \in InFlight PROVE SaveTells(i)'
      <3>1. KeepsRest(saves[i])' <=> KeepsRest(saves[i])
        BY <1>1, SameKey DEF KeepsRest, Blank
      <3> QED
        BY <1>1, <1>2, <1>4, <1>5, <2>1, <3>1 DEF Alone, SaveTells
    <2> QED
      BY <1>1, <1>2, <1>4, <1>5, <2>1, <2>2 DEF Alone
  <1> QED
    BY <1>1, <1>6, <1>7, <1>8 DEF InstanceInv

LEMMA ReplyInv ==
    ASSUME InstanceInv, SettingReply
    PROVE  InstanceInv'
  <1>1. UNCHANGED <<key, setting, fetched, mounted, reverted, excused>> /\ fetch' = NoFetch /\ fetch.stage = "reply"
    BY DEF SettingReply
  <1>2. PICK new : new = fetch.answer
    OBVIOUS
  <1>3. PICK i : i = fetch.for
    OBVIOUS
  <1>4. new \in Copy /\ i \in {0} \cup DOMAIN saves /\ saves \in Seq(SaveRecord)
    BY <1>2, <1>3 DEF InstanceInv, InstanceTypeOK
  <1>5. SetContext(new, i)
    BY <1>2, <1>3 DEF SettingReply
  <1>6. /\ ctx' = new /\ loaded' = TRUE
        /\ draft' \in [Forms -> Copy] /\ dialog' \in [id : Providers, key : -1 .. 2]
        /\ CopyInv'
    BY <1>1, <1>4, <1>5, NewContext DEF InstanceInv
  <1>7. /\ saves' \in Seq(SaveRecord) /\ DOMAIN saves' = DOMAIN saves
        /\ InFlight' = InFlight \ {i}
        /\ \A j \in DOMAIN saves' : saves'[j].stage = "done" \/ saves'[j] = saves[j]
    <2>1. CASE i = 0
      <3>1. saves' = saves
        BY <1>3, <2>1 DEF SettingReply
      <3>2. 0 \notin DOMAIN saves
        BY <1>4
      <3> QED
        BY <1>4, <2>1, <3>1, <3>2 DEF InFlight
    <2>2. CASE i # 0
      <3>1. PICK r : r = Settled
        OBVIOUS
      <3>2. saves' = [saves EXCEPT ![i] = r] /\ i \in DOMAIN saves
        BY <1>3, <1>4, <2>2, <3>1 DEF SettingReply
      <3>3. r \in SaveRecord /\ r.stage = "done"
        BY <3>1, SettledSave
      <3>4. /\ saves' \in Seq(SaveRecord) /\ DOMAIN saves' = DOMAIN saves
            /\ saves'[i] = r /\ \A j \in DOMAIN saves \ {i} : saves'[j] = saves[j]
            /\ InFlight' = InFlight \ {i}
        BY <1>4, <3>2, <3>3, SetSave
      <3> QED
        BY <3>3, <3>4
    <2> QED
      BY <2>1, <2>2
  <1>8. InstanceTypeOK'
    <2>1. \A j \in DOMAIN saves' : saves'[j].stage = "read" => saves'[j].seen \in [Parts -> 0 .. 2]
      BY <1>7 DEF InstanceInv, InstanceTypeOK
    <2> QED
      BY <1>1, <1>4, <1>6, <1>7, <2>1, SameKey, NoFetchYet DEF InstanceInv, InstanceTypeOK
  <1>9. ASSUME ~excused PROVE Alone'
    <2>1. Alone
      BY <1>9 DEF InstanceInv
    <2>2. InFlight' = {}
      BY <1>1, <1>3, <1>7, <2>1 DEF Alone
    <2>3. new = View(setting) /\ View(setting)' = View(setting)
      BY <1>1, <1>2, <2>1, SameKey DEF Alone, View
    <2> QED
      BY <1>1, <1>6, <2>2, <2>3, NoFetchYet DEF Alone
  <1> QED
    BY <1>1, <1>6, <1>8, <1>9 DEF InstanceInv

\* The answer of a save becomes the context; the first one is fetched again.
LEMMA SavedInv ==
    ASSUME InstanceInv, NEW i \in InFlight, Saved(i)
    PROVE  InstanceInv'
  <1>1. UNCHANGED <<key, setting, mounted, reverted>> /\ saves[i].stage = "ok"
    BY DEF Saved
  <1>2. excused' = (excused \/ (InFlight # {i} /\ ~fetched))
    BY DEF Saved
  <1>3. PICK new : new = saves[i].seen
    OBVIOUS
  <1>4. i \in DOMAIN saves /\ saves \in Seq(SaveRecord) /\ saves[i] \in SaveRecord /\ new \in Copy /\ i \in Nat
    <2>1. i \in DOMAIN saves /\ saves \in Seq(SaveRecord)
      BY DEF InFlight, InstanceInv, InstanceTypeOK
    <2>2. saves[i] \in SaveRecord /\ i \in Nat
      BY <2>1
    <2> QED
      BY <1>3, <2>1, <2>2 DEF SaveRecord
  <1>5. /\ ctx' = new /\ loaded' = TRUE
        /\ draft' \in [Forms -> Copy] /\ dialog' \in [id : Providers, key : -1 .. 2]
        /\ CopyInv'
    <2>1. SetContext(new, i) \/ SetContext(new, 0)
      BY <1>3 DEF Saved
    <2> QED
      BY <1>1, <1>4, <2>1, NewContext DEF InstanceInv
  <1>6. PICK r : r = IF fetched \/ saves[i].form = "profile" THEN Settled ELSE [saves[i] EXCEPT !.stage = "refetch"]
    OBVIOUS
  <1>7. /\ r \in SaveRecord /\ r.stage \in {"done", "refetch"}
        /\ r.stage = "done" => fetched' = fetched /\ fetch' = fetch
        /\ r.stage = "refetch" => fetched' = TRUE /\ fetch' = [NoFetch EXCEPT !.stage = "sent", !.for = i]
    <2>1. CASE fetched \/ saves[i].form = "profile"
      BY <1>6, <2>1, SettledSave DEF Saved
    <2>2. CASE ~(fetched \/ saves[i].form = "profile")
      BY <1>4, <1>6, <2>2 DEF Saved, StartFetch, SaveRecord, SaveStages
    <2> QED
      BY <2>1, <2>2
  <1>8. saves' = [saves EXCEPT ![i] = r]
    BY <1>4, <1>6 DEF Saved
  <1>9. /\ saves' \in Seq(SaveRecord) /\ DOMAIN saves' = DOMAIN saves
        /\ saves'[i] = r /\ \A j \in DOMAIN saves \ {i} : saves'[j] = saves[j]
        /\ r.stage = "done" => InFlight' = InFlight \ {i}
        /\ r.stage # "done" => InFlight' = InFlight
    BY <1>4, <1>7, <1>8, SetSave
  <1>10. /\ fetch' \in [stage : {"none", "sent", "reply"}, answer : Copy, for : Nat]
         /\ fetch'.for \in {0} \cup DOMAIN saves
         /\ r.stage = "refetch" => fetch'.stage = "sent" /\ fetch'.for = i
    BY <1>4, <1>7, NoFetchYet DEF InstanceInv, InstanceTypeOK
  <1>11. InstanceTypeOK'
    <2>1. \A j \in DOMAIN saves' : saves'[j].stage = "read" => saves'[j].seen \in [Parts -> 0 .. 2]
      BY <1>7, <1>9 DEF InstanceInv, InstanceTypeOK
    <2>2. excused' \in BOOLEAN /\ fetched' \in BOOLEAN
      BY <1>2, <1>7 DEF InstanceInv, InstanceTypeOK
    <2>3. key \in AllSettings /\ setting \in [Parts -> 0 .. 2] /\ mounted \in BOOLEAN /\ reverted \in BOOLEAN
      BY DEF InstanceInv, InstanceTypeOK
    <2>4. Parts' = Parts /\ Forms' = Forms /\ Copy' = Copy /\ SaveRecord' = SaveRecord
      BY <1>1, SameKey
    <2> QED
      BY <1>1, <1>4, <1>5, <1>9, <1>10, <2>1, <2>2, <2>3, <2>4 DEF InstanceTypeOK
  <1>12. ASSUME ~excused' PROVE ~reverted' /\ Alone'
    <2>1. ~excused /\ Alone /\ ~reverted
      BY <1>2, <1>12 DEF InstanceInv
    <2>2. InFlight = {i} /\ new = View(setting) /\ fetch.stage = "none"
      BY <1>1, <1>3, <2>1 DEF Alone, SaveTells, InstanceInv, InstanceTypeOK
    <2>3. View(setting)' = View(setting)
      BY <1>1, SameKey DEF View
    <2>4. CASE r.stage = "done"
      <3>1. InFlight' = {} /\ fetch'.stage = "none"
        BY <1>7, <1>9, <2>2, <2>4
      <3> QED
        BY <1>5, <2>2, <2>3, <3>1, <2>1, <1>1 DEF Alone
    <2>5. CASE r.stage = "refetch"
      <3>1. InFlight' = {i} /\ fetch'.stage = "sent" /\ fetch'.for = i /\ saves'[i] = r
        BY <1>9, <1>10, <2>2, <2>5
      <3>2. SaveTells(i)'
        BY <2>5, <3>1 DEF SaveTells
      <3> QED
        BY <1>1, <1>5, <2>1, <2>2, <2>3, <3>1, <3>2 DEF Alone
    <2> QED
      BY <1>7, <2>4, <2>5
  <1> QED
    BY <1>5, <1>11, <1>12 DEF InstanceInv

\* A step of the page only.
LEMMA PageInv ==
    ASSUME InstanceInv, UNCHANGED <<key, setting, ctx, fetched, fetch, saves, loaded, reverted, excused>>,
           mounted' \in BOOLEAN, draft' \in [Forms -> Copy], dialog' \in [id : Providers, key : -1 .. 2], CopyInv'
    PROVE  InstanceInv'
  <1>1. InstanceTypeOK'
    BY SameKey DEF InstanceInv, InstanceTypeOK
  <1>2. View(setting)' = View(setting) /\ InFlight' = InFlight
    BY SameKey DEF View, InFlight
  <1>3. ASSUME ~excused PROVE Alone'
    <2>1. \A i \in InFlight : SaveTells(i) => SaveTells(i)'
      <3>1. \A i \in InFlight : KeepsRest(saves[i])' <=> KeepsRest(saves[i])
        BY SameKey DEF KeepsRest, Blank
      <3> QED
        BY <1>2, <3>1 DEF SaveTells
    <2> QED
      BY <1>2, <1>3, <2>1 DEF InstanceInv, Alone
  <1> QED
    BY <1>1, <1>3 DEF InstanceInv

LEMMA EditInv ==
    ASSUME InstanceInv, NEW f \in Forms, NEW p \in Own[f], NEW v \in Blanks, Edit(f, p, v)
    PROVE  InstanceInv'
  <1>1. f # "provider" /\ v \in 0 .. 2
    BY DEF Edit, Inputs, Blanks, Vals
  <1>2. UNCHANGED <<key, setting, ctx, fetched, fetch, mounted, dialog, saves, loaded, reverted, excused>>
    BY DEF Edit
  <1>3. draft' = [draft EXCEPT ![f] = [draft[f] EXCEPT ![p] = v]]
    BY DEF Edit
  <1>4. PICK d : d = [draft[f] EXCEPT ![p] = v]
    OBVIOUS
  <1>5. draft[f] \in Copy /\ p \in Parts
    BY DEF InstanceInv, InstanceTypeOK, Forms
  <1>6. d \in Copy /\ \A q \in Parts : q \notin Own[f] => d[q] = draft[f][q]
    BY <1>1, <1>4, <1>5 DEF Copy
  <1>7. draft' \in [Forms -> Copy] /\ draft'[f] = d /\ \A g \in Forms : g # f => draft'[g] = draft[g]
    BY <1>3, <1>4, <1>6 DEF InstanceInv, InstanceTypeOK
  <1>8. CopyInv'
    BY <1>1, <1>2, <1>6, <1>7, SameKey DEF InstanceInv, CopyInv, Shown
  <1> QED
    BY <1>2, <1>7, <1>8, PageInv DEF InstanceInv, InstanceTypeOK

LEMMA ClosePageInv ==
    ASSUME InstanceInv, \/ ClosePage \/ CloseDialog
                        \/ \E p \in Providers, v \in Vals \cup {Keep} : EditProvider(p, v)
    PROVE  InstanceInv'
  <1>1. dialog' \in [id : Providers, key : -1 .. 2]
    <2>1. NoDialog \in [id : Providers, key : -1 .. 2]
      BY DEF NoDialog, Providers
    <2>2. CASE \E p \in Providers, v \in Vals \cup {Keep} : EditProvider(p, v)
      BY <2>2 DEF EditProvider, Vals, Keep
    <2> QED
      BY <2>1, <2>2 DEF ClosePage, CloseDialog, InstanceInv, InstanceTypeOK
  <1>2. UNCHANGED <<key, setting, ctx, fetched, fetch, saves, loaded, reverted, excused, draft>>
    BY DEF ClosePage, CloseDialog, EditProvider
  <1>3. mounted' = mounted \/ mounted' = FALSE
    BY DEF ClosePage, CloseDialog, EditProvider
  <1>4. CopyInv'
    <2>1. CASE ~mounted'
      BY <2>1 DEF CopyInv
    <2>2. CASE mounted'
      <3>1. \A f \in Forms \ {"profile", "transcription"} : \A p \in Parts :
              p \notin Own[f] \/ f = "provider" => draft[f][p] = Shown(ctx)[p]
        BY <1>3, <2>2 DEF InstanceInv, CopyInv
      <3> QED
        BY <1>2, <3>1, SameKey DEF CopyInv, Shown
    <2> QED
      BY <2>1, <2>2
  <1> QED
    BY <1>1, <1>2, <1>3, <1>4, PageInv DEF InstanceInv, InstanceTypeOK

LEMMA OpenPageInv ==
    ASSUME InstanceInv, OpenPage
    PROVE  InstanceInv'
  <1>1. UNCHANGED <<key, setting, ctx, saves, loaded, reverted>> /\ mounted' = TRUE /\ dialog' = NoDialog
        /\ draft' = [f \in Forms |-> Shown(ctx)]
        /\ excused' = (excused \/ (InFlight # {} /\ key \in Preloaded /\ ~fetched))
    BY DEF OpenPage
  <1>2. draft' \in [Forms -> Copy] /\ dialog' \in [id : Providers, key : -1 .. 2]
    BY <1>1, ShownOf DEF InstanceInv, InstanceTypeOK, NoDialog, Providers
  <1>3. CopyInv'
    BY <1>1, SameKey DEF CopyInv, Shown
  <1>4. CASE ~(key \in Preloaded /\ ~fetched)
    <2>1. fetched' = fetched /\ fetch' = fetch /\ excused' = excused
      BY <1>1, <1>4 DEF OpenPage, InstanceInv, InstanceTypeOK
    <2> QED
      BY <1>1, <1>2, <1>3, <2>1, PageInv
  <1>5. CASE key \in Preloaded /\ ~fetched
    <2>1. fetched' = TRUE /\ fetch' = [NoFetch EXCEPT !.stage = "sent", !.for = 0]
      BY <1>5 DEF OpenPage, StartFetch
    <2>2. fetch' \in [stage : {"none", "sent", "reply"}, answer : Copy, for : Nat] /\ fetch'.for = 0 /\ fetch'.stage = "sent"
      BY <2>1, NoFetchYet
    <2>3. InstanceTypeOK'
      BY <1>1, <1>2, <2>1, <2>2, SameKey DEF InstanceInv, InstanceTypeOK
    <2>4. ASSUME ~excused' PROVE ~reverted' /\ Alone'
      <3>1. ~excused /\ InFlight = {} /\ InFlight' = InFlight
        BY <1>1, <1>5, <2>4 DEF InFlight
      <3>2. View(setting)' = View(setting)
        BY <1>1, SameKey DEF View
      <3> QED
        BY <1>1, <2>2, <3>1, <3>2 DEF InstanceInv, Alone
    <2> QED
      BY <1>3, <2>3, <2>4 DEF InstanceInv
  <1> QED
    BY <1>4, <1>5

LEMMA ForeignInv ==
    ASSUME InstanceInv, NEW p \in Parts, ForeignSave(p, 2)
    PROVE  InstanceInv'
  <1>1. UNCHANGED <<key, ctx, fetched, fetch, mounted, draft, dialog, saves, loaded, reverted>> /\ excused' = TRUE
        /\ setting' = [setting EXCEPT ![p] = 2]
    BY DEF ForeignSave
  <1>2. setting' \in [Parts -> 0 .. 2]
    <2>1. 2 \in 0 .. 2
      OBVIOUS
    <2> QED
      BY <1>1, <2>1 DEF InstanceInv, InstanceTypeOK
  <1>3. InstanceTypeOK'
    BY <1>1, <1>2, SameKey DEF InstanceInv, InstanceTypeOK
  <1>4. CopyInv'
    BY <1>1, SameKey DEF InstanceInv, CopyInv, Shown
  <1> QED
    BY <1>1, <1>3, <1>4 DEF InstanceInv

\* Whatever form is saved, the rest of the setting comes from the context.
LEMMA WholeCopy ==
    ASSUME InstanceInv, mounted, NEW f \in Forms \ {"profile", "transcription", "provider"}, f \in SaveForms,
           Submit(f, draft[f], Changed(f))
    PROVE  InstanceInv'
  <1>1. draft[f] \in Copy /\ Changed(f) \in SUBSET Parts
    BY DEF InstanceInv, InstanceTypeOK, Changed, Forms
  <1>2. FromContext(draft[f], Changed(f))
    BY DEF FromContext, Changed, InstanceInv, CopyInv
  <1> QED
    BY <1>1, <1>2, SubmitInv

LEMMA SaveWholeInv ==
    ASSUME InstanceInv, Save, key # "AI"
    PROVE  InstanceInv'
  <1>1. mounted /\ key \in AllSettings
    BY DEF Save, InstanceInv, InstanceTypeOK
  <1>2. CASE SaveGeneral /\ key = "GENERAL"
    <2>1. "section" \in Forms
      BY <1>1, <1>2, PartsOfSettings DEF Forms, Own
    <2> QED
      BY <1>1, <1>2, <2>1, WholeCopy DEF SaveGeneral, SaveForms
  <1>3. CASE SaveMemoRelated /\ key = "MEMO_RELATED"
    <2>1. "memo" \in Forms
      BY <1>1, <1>3, PartsOfSettings DEF Forms, Own
    <2> QED
      BY <1>1, <1>3, <2>1, WholeCopy DEF SaveMemoRelated, SaveForms
  <1>4. CASE SaveTags /\ key = "TAGS"
    <2>1. "tags" \in Forms
      BY <1>1, <1>4, PartsOfSettings DEF Forms, Own
    <2> QED
      BY <1>1, <1>4, <2>1, WholeCopy DEF SaveTags, SaveForms
  <1>5. CASE SaveStorage /\ key = "STORAGE"
    <2>1. "storage" \in Forms
      BY <1>1, <1>5, PartsOfSettings DEF Forms, Own
    <2> QED
      BY <1>1, <1>5, <2>1, WholeCopy DEF SaveStorage, SaveForms
  <1>6. CASE SaveNotification /\ key = "NOTIFICATION"
    <2>1. "email" \in Forms
      BY <1>1, <1>6, PartsOfSettings DEF Forms, Own
    <2> QED
      BY <1>1, <1>6, <2>1, WholeCopy DEF SaveNotification, SaveForms
  <1>7. CASE SaveProfile /\ key = "GENERAL"
    <2>1. "profile" \in Forms /\ Parts = {"profile", "rest"}
      BY <1>1, <1>7, PartsOfSettings DEF Forms, Own
    <2>2. ctx \in Copy /\ draft["profile"]["profile"] \in -1 .. 2
      BY <2>1 DEF InstanceInv, InstanceTypeOK, Copy
    <2>3. PICK payload : payload = [ctx EXCEPT !["profile"] = draft["profile"]["profile"]]
      OBVIOUS
    <2>4. payload \in Copy /\ FromContext(payload, {"profile"})
      BY <2>2, <2>3 DEF Copy, FromContext
    <2>5. Submit("profile", payload, {"profile"}) /\ {"profile"} \in SUBSET Parts /\ "profile" \in SaveForms
      BY <1>7, <2>1, <2>3 DEF SaveProfile, SaveForms
    <2> QED
      BY <2>4, <2>5, SubmitInv
  <1> QED
    BY <1>2, <1>3, <1>4, <1>5, <1>6, <1>7 DEF Save

LEMMA SaveAIInv ==
    ASSUME InstanceInv, Save, key = "AI"
    PROVE  InstanceInv'
  <1>1. mounted /\ key \in AllSettings
    BY DEF Save, InstanceInv, InstanceTypeOK
  <1>2. /\ Parts = {"provider1", "provider2", "speechProvider", "speechText"}
        /\ Providers \subseteq Parts /\ Speech \subseteq Parts /\ Providers \cap Speech = {}
    BY <1>1, PartsOfSettings DEF Providers, Speech
  <1>3. "provider" \in Forms /\ "transcription" \in Forms
    BY <1>2 DEF Forms, Own, Providers, Speech
  <1>4. ctx \in Copy /\ draft["provider"] \in Copy /\ draft["transcription"] \in Copy
    BY <1>3 DEF InstanceInv, InstanceTypeOK
  <1>5. \A p \in Parts : draft["provider"][p] = Shown(ctx)[p]
    BY <1>1, <1>3 DEF InstanceInv, CopyInv
  <1>6. CASE SaveProvider
    <2>1. PICK payload : payload = [p \in Parts |-> IF p = dialog.id THEN dialog.key
                                                    ELSE IF p \in Providers THEN draft["provider"][p] ELSE ctx[p]]
      OBVIOUS
    <2>2. dialog.id \in Providers /\ dialog.key \in -1 .. 2
      BY DEF InstanceInv, InstanceTypeOK
    <2>3. \A p \in Parts : payload[p] = IF p = dialog.id THEN dialog.key
                                        ELSE IF p \in Providers THEN draft["provider"][p] ELSE ctx[p]
      BY <2>1
    <2>4. payload \in Copy
      <3>1. \A p \in Parts : payload[p] \in -1 .. 2
        BY <1>4, <2>2, <2>3 DEF Copy
      <3> QED
        BY <2>1, <3>1 DEF Copy
    <2>5. FromContext(payload, {dialog.id})
      BY <1>5, <2>3 DEF FromContext
    <2>6. Submit("provider", payload, {dialog.id}) /\ {dialog.id} \in SUBSET Parts /\ "provider" \in SaveForms
      BY <1>2, <1>6, <2>1, <2>2 DEF SaveProvider, SaveForms
    <2> QED
      BY <2>4, <2>5, <2>6, SubmitInv
  <1>7. ASSUME NEW p \in Providers, DeleteProvider(p) PROVE InstanceInv'
    <2>1. PICK refers : refers = (ctx["speechProvider"] # Keep /\ ctx["speechProvider"] # 0 /\ ProviderOf(ctx["speechProvider"]) = p)
      OBVIOUS
    <2>2. PICK payload : payload = [q \in Parts |-> IF q = p \/ (refers /\ q \in Speech) THEN 0
                                                    ELSE IF q \in Providers THEN draft["provider"][q] ELSE ctx[q]]
      OBVIOUS
    <2>3. PICK edited : edited = IF refers THEN {p} \cup Speech ELSE {p}
      OBVIOUS
    <2>4. \A q \in Parts : payload[q] = IF q = p \/ (refers /\ q \in Speech) THEN 0
                                        ELSE IF q \in Providers THEN draft["provider"][q] ELSE ctx[q]
      BY <2>2
    <2>5. payload \in Copy
      <3>1. \A q \in Parts : payload[q] \in -1 .. 2
        BY <1>4, <2>4 DEF Copy
      <3> QED
        BY <2>2, <3>1 DEF Copy
    <2>6. FromContext(payload, edited)
      BY <1>5, <2>3, <2>4 DEF FromContext
    <2>7. Submit("delete", payload, edited)
      BY <1>7, <2>1, <2>2, <2>3 DEF DeleteProvider
    <2>8. edited \in SUBSET Parts /\ "delete" \in SaveForms
      BY <1>2, <2>3 DEF SaveForms
    <2> QED
      BY <2>5, <2>6, <2>7, <2>8, SubmitInv
  <1>8. CASE SaveTranscription
    <2>1. PICK d : d = draft["transcription"]
      OBVIOUS
    <2>2. PICK payload : payload = [p \in Parts |-> IF p \in Speech THEN d[p] ELSE draft["provider"][p]]
      OBVIOUS
    <2>3. \A p \in Parts : payload[p] = IF p \in Speech THEN d[p] ELSE draft["provider"][p]
      BY <2>2
    <2>4. payload \in Copy
      <3>1. \A p \in Parts : payload[p] \in -1 .. 2
        BY <1>4, <2>1, <2>3 DEF Copy
      <3> QED
        BY <2>2, <3>1 DEF Copy
    <2>5. Changed("transcription") = {p \in Speech : d[p] # Shown(ctx)[p]}
      BY <2>1 DEF Changed, Own
    <2>6. FromContext(payload, Changed("transcription"))
      BY <1>2, <1>5, <2>3, <2>5 DEF FromContext
    <2>7. Submit("transcription", payload, Changed("transcription"))
      BY <1>8, <2>1, <2>2 DEF SaveTranscription
    <2>8. Changed("transcription") \in SUBSET Parts /\ "transcription" \in SaveForms
      BY <1>2, <2>5 DEF SaveForms
    <2> QED
      BY <2>4, <2>6, <2>7, <2>8, SubmitInv
  <1> QED
    BY <1>6, <1>7, <1>8 DEF Save

LEMMA NextInstance ==
    ASSUME InstanceInv, [InstanceNext]_instanceVars
    PROVE  InstanceInv'
  <1>1. CASE UNCHANGED instanceVars
    BY <1>1, PageInv, SameKey DEF instanceVars, InstanceInv, InstanceTypeOK, CopyInv, Shown
  <1>2. CASE \/ OpenPage \/ ClosePage \/ CloseDialog
             \/ \E p \in Providers, v \in Vals \cup {Keep} : EditProvider(p, v)
    BY <1>2, OpenPageInv, ClosePageInv
  <1>3. CASE Save
    BY <1>3, SaveWholeInv, SaveAIInv
  <1>4. CASE \E f \in Forms : \E p \in Own[f], v \in Blanks : Edit(f, p, v)
    BY <1>4, EditInv
  <1>5. CASE \E i \in InFlight : ReadStored(i) \/ UpsertInstanceSetting(i) \/ Saved(i) \/ SaveRejected(i) \/ SaveLost(i)
    BY <1>5, ReadStoredInv, UpsertInv, SavedInv, SaveEndsInv
  <1>6. CASE SettingServed \/ SettingReply \/ SettingFetchFails
    BY <1>6, ServedInv, ReplyInv, FetchFailsInv
  <1>7. CASE \E p \in Parts \ Providers : ForeignSave(p, 2)
    BY <1>7, ForeignInv
  <1> QED
    BY <1>1, <1>2, <1>3, <1>4, <1>5, <1>6, <1>7 DEF InstanceNext

(***************************************************************************)
(* A save changes only what its form edited, and once nothing is under way *)
(* the context is what is stored (useInstanceSettingUpdater.ts,            *)
(* InstanceContext.tsx, UpdateInstanceSetting), for every setting and any  *)
(* number of saves, edits, failures and fetches, but for the excused cases.*)
(***************************************************************************)
THEOREM SavesKeepTheRest == InstanceSpec => []FormsSaveTheirEdits
  <1>1. InstanceInv => FormsSaveTheirEdits
    BY DEF InstanceInv, Alone, FormsSaveTheirEdits, SavesOnlyItsEdits, ContextIsStored
  <1> QED
    BY <1>1, InitInstance, NextInstance, PTL DEF InstanceSpec
-----------------------------------------------------------------------------
(***************************************************************************)
(* SettingsLists.  Either something is still to come that ends in the list *)
(* as it is stored, or a deletion is still to be taken out of it; and a    *)
(* form that is open created nothing yet, or the answer that closes it is  *)
(* under way.                                                              *)
(***************************************************************************)
ListVal == 0 .. 2
ListEntry == [val : ListVal, off : BOOLEAN]
ListRead == [stage : {"sent", "served", "over"}, answer : Seq(ListEntry), version : Nat,
             then : {"nothing", "form", "asked"}]
ListBase == Nat \X ListEntry
ListForm == [open : BOOLEAN, target : Nat, base : ListBase, typed : ListVal,
             saving : BOOLEAN, done : BOOLEAN, number : Nat]
ListCall == [op : {"create", "update", "delete", "archive", "restore"}, id : Nat, val : ListVal,
             dialog : Dialogs, from : Nat, stage : {"sent", "ok", "failed", "over"}]
ListAsked == [op : {"delete", "archive"}, id : Nat, busy : BOOLEAN, call : Nat]

ListsTypeOK ==
    /\ part \in AllLists
    /\ entries \in Seq(ListEntry) /\ list \in Seq(ListEntry)
    /\ reads \in Seq(ListRead)
    /\ form \in [Dialogs -> ListForm]
    /\ calls \in Seq(ListCall)
    /\ asked = NotAsked \/ asked \in ListAsked
    /\ made \in Seq(Nat)
    /\ version \in Nat /\ seen \in 0 .. version
    /\ crossed \in BOOLEAN /\ missed \in BOOLEAN

\* Entries are never forgotten, so every number in use is that of one.
NumbersInv ==
    /\ Len(list) <= Len(entries)
    /\ \A r \in DOMAIN reads : Len(reads[r].answer) <= Len(entries) /\ reads[r].version <= version
    /\ \A d \in Dialogs : form[d].target <= Len(entries)
    /\ asked # NotAsked => asked.id \in DOMAIN entries
    /\ \A i \in DOMAIN calls : calls[i].op # "create" => calls[i].id \in DOMAIN entries

\* Which list has which dialogs and operations.
PartsInv ==
    /\ form["edit"].open => part = "members" /\ form["edit"].target # 0
    /\ \A i \in DOMAIN calls :
         /\ calls[i].dialog = "edit" => part = "members" /\ calls[i].op = "update"
         /\ calls[i].op \in {"archive", "restore"} => part = "members"
    /\ asked # NotAsked /\ asked.op = "archive" => part = "members"
    /\ form["main"].done => part = "tokens"
    /\ \A r \in DOMAIN reads : reads[r].then = "form" => part \in {"webhooks", "providers", "shortcuts"}

Saves == {i \in Under : calls[i].op \in {"create", "update"}}
FormReads == {r \in Reading : reads[r].then = "form"}

\* A form has one save under way, or for a shortcut the list read after it.
SavingInv ==
    /\ \A i \in Saves : form[calls[i].dialog].saving
    /\ \A i, j \in Saves : calls[i].dialog = calls[j].dialog => i = j
    /\ part = "shortcuts" =>
         /\ \A r, q \in FormReads : r = q
         /\ FormReads # {} => form["main"].saving /\ Saves = {}

MadeInv ==
    /\ \A d \in Dialogs : form[d].open => form[d].number \in DOMAIN made
    /\ \A i \in DOMAIN calls : calls[i].op = "create" => calls[i].from \in DOMAIN made
    /\ \/ missed
       \/ /\ \A k \in DOMAIN made : made[k] <= 1
          /\ \A i \in Saves : calls[i].op = "create" /\ calls[i].stage # "ok" => made[calls[i].from] = 0
          /\ form["main"].open /\ ~form["main"].done =>
               \/ made[form["main"].number] = 0
               \/ \E i \in Saves : /\ calls[i].op = "create" /\ calls[i].stage = "ok"
                                   /\ calls[i].from = form["main"].number
               \/ part = "shortcuts" /\ FormReads # {}

\* A deletion that will be taken out of the list in place.
Correcting(c) == part \in {"webhooks", "tokens"} /\ c.op = "delete"
TakenOut(k) == \E i \in DOMAIN calls : calls[i].stage = "ok" /\ Correcting(calls[i]) /\ calls[i].id = k

\* What is stored, but for deletions that will be taken out.
Good(x) == Len(x) = Len(entries) /\ \A k \in DOMAIN entries : x[k] = entries[k] \/ TakenOut(k)

Served == {r \in DOMAIN reads : reads[r].stage = "served"}
ReadComes == \/ \E i \in DOMAIN calls : calls[i].stage = "ok" /\ ~Correcting(calls[i])
             \/ \E r \in DOMAIN reads : reads[r].stage = "sent"

\* A read is still to be sent or served, an answer will cross, a good one that
\* only good ones can follow is under way, or all is good already.
Settling ==
    \/ ReadComes
    \/ \E r \in Served : reads[r].version < seen
    \/ \E r \in Served : \A q \in Served : reads[q].version >= reads[r].version => Good(reads[q].answer)
    \/ Good(list) /\ \A q \in Served : Good(reads[q].answer)

ListInv ==
    /\ \A i \in DOMAIN calls : calls[i].stage = "ok" /\ Correcting(calls[i]) => entries[calls[i].id] = Gone
    /\ \A r \in Served : reads[r].version = version => reads[r].answer = entries
    /\ missed \/ crossed \/ Settling
    /\ part = "members" => /\ ~crossed
                           /\ \A r, q \in Reading : r = q
                           /\ \A r \in Served : reads[r].version >= seen

ListsInv == ListsTypeOK /\ NumbersInv /\ PartsInv /\ SavingInv /\ MadeInv /\ ListInv

LEMMA ListConstants ==
    /\ 0 \in ListVal /\ 1 \in ListVal /\ 2 \in ListVal
    /\ Gone \in ListEntry /\ \A v \in ListVal : Entry(v) \in ListEntry
    /\ <<0, Gone>> \in ListBase /\ NoForm \in ListForm
    /\ \A then \in {"nothing", "form", "asked"} : Read(then) \in ListRead
  <1>0. 0 \in ListVal /\ 1 \in ListVal /\ 2 \in ListVal
    BY DEF ListVal
  <1>1. Gone \in ListEntry /\ \A v \in ListVal : Entry(v) \in ListEntry
    BY <1>0 DEF Gone, Entry, ListEntry
  <1>2. <<0, Gone>> \in ListBase
    BY <1>1 DEF ListBase
  <1>3. NoForm \in ListForm
    BY <1>0, <1>2 DEF NoForm, ListForm
  <1>4. <<>> \in Seq(ListEntry)
    OBVIOUS
  <1>5. \A then \in {"nothing", "form", "asked"} : Read(then) \in ListRead
    BY <1>4 DEF Read, ListRead
  <1> QED
    BY <1>0, <1>1, <1>2, <1>3, <1>5

LEMMA ListsInitInv == ListsInit => ListsInv
  <1> SUFFICES ASSUME ListsInit PROVE ListsInv
    OBVIOUS
  <1> USE ListConstants
  <1>1. entries \in Seq(ListEntry) /\ Len(entries) = 2
    BY DEF ListsInit
  <1>2. list \in Seq(ListEntry) /\ Len(list) <= Len(entries)
    BY <1>1 DEF ListsInit
  <1>3. /\ reads \in Seq(ListRead)
        /\ \A r \in DOMAIN reads : reads[r] = Read("nothing")
    BY DEF ListsInit
  <1>4. /\ form \in [Dialogs -> ListForm]
        /\ \A d \in Dialogs : form[d] = NoForm
    BY DEF ListsInit
  <1>5. calls \in Seq(ListCall) /\ calls = <<>> /\ DOMAIN calls = {} /\ made \in Seq(Nat)
    BY DEF ListsInit
  <1>6. ListsTypeOK
    <2>1. part \in ListKinds /\ asked = NotAsked /\ crossed = FALSE /\ missed = FALSE
      BY DEF ListsInit
    <2>2. part \in AllLists
      BY <2>1, ListsAssumption
    <2>3. version \in Nat /\ seen \in 0 .. version
      <3>1. version = 0 /\ seen = 0
        BY DEF ListsInit
      <3> QED
        BY <3>1
    <2> QED
      BY <1>1, <1>2, <1>3, <1>4, <1>5, <2>1, <2>2, <2>3 DEF ListsTypeOK
  <1>7. NumbersInv
    BY <1>1, <1>2, <1>3, <1>4, <1>5 DEF ListsInit, NumbersInv, Read, NoForm
  <1>8. PartsInv
    BY <1>3, <1>4, <1>5 DEF ListsInit, PartsInv, NoForm, Dialogs, Read
  <1>9. Under = {} /\ Saves = {} /\ FormReads = {} /\ Served = {}
    BY <1>3, <1>5 DEF Under, Saves, FormReads, Reading, Served, Read
  <1>10. SavingInv
    BY <1>9 DEF SavingInv
  <1>11. MadeInv
    <2>1. DOMAIN made = {}
      BY DEF ListsInit
    <2> QED
      BY <1>4, <1>5, <1>9, <2>1 DEF MadeInv, NoForm, Dialogs
  <1>12. Settling
    <2>1. CASE part = "shortcuts"
      BY <1>1, <1>9, <2>1 DEF ListsInit, Settling, Good
    <2>2. CASE part # "shortcuts"
      BY <1>3, <2>2 DEF ListsInit, Settling, ReadComes, Read
    <2> QED
      BY <2>1, <2>2
  <1>13. \A r, q \in Reading : r = q
    BY DEF ListsInit, Reading
  <1>14. ListInv
    BY <1>5, <1>9, <1>12, <1>13 DEF ListsInit, ListInv
  <1> QED
    BY <1>6, <1>7, <1>8, <1>10, <1>11, <1>14 DEF ListsInv

(***************************************************************************)
(* What the steps are made of.                                             *)
(***************************************************************************)

LEMMA ListElements ==
    ASSUME ListsTypeOK
    PROVE  /\ \A k \in DOMAIN entries : entries[k] \in ListEntry
           /\ \A k \in DOMAIN list : list[k] \in ListEntry
           /\ \A r \in DOMAIN reads : reads[r] \in ListRead
           /\ \A i \in DOMAIN calls : calls[i] \in ListCall
           /\ \A k \in DOMAIN made : made[k] \in Nat
  BY ElementOfSeq, LenProperties DEF ListsTypeOK

\* A request that moves on changes nothing else of it, nor of the others.
LEMMA CallMoves ==
    ASSUME calls \in Seq(ListCall), NEW i \in DOMAIN calls, NEW s \in {"ok", "failed", "over"},
           calls' = [calls EXCEPT ![i].stage = s]
    PROVE  /\ calls' \in Seq(ListCall)
           /\ DOMAIN calls' = DOMAIN calls
           /\ calls'[i].stage = s
           /\ \A j \in DOMAIN calls :
                /\ j # i => calls'[j] = calls[j]
                /\ calls'[j].op = calls[j].op /\ calls'[j].id = calls[j].id
                /\ calls'[j].dialog = calls[j].dialog /\ calls'[j].from = calls[j].from
                /\ calls'[j].val = calls[j].val
  <1>1. calls[i] \in ListCall
    BY ElementOfSeq, LenProperties
  <1>2. [calls[i] EXCEPT !.stage = s] \in ListCall
    BY <1>1 DEF ListCall
  <1>3. calls' \in Seq(ListCall)
    BY <1>2, ExceptSeq
  <1> QED
    BY <1>1, <1>3 DEF ListCall

LEMMA CallAdded ==
    ASSUME calls \in Seq(ListCall), NEW c \in ListCall, calls' = Append(calls, c)
    PROVE  /\ calls' \in Seq(ListCall)
           /\ Len(calls') = Len(calls) + 1 /\ Len(calls) \in Nat
           /\ DOMAIN calls' = DOMAIN calls \cup {Len(calls) + 1}
           /\ Len(calls) + 1 \notin DOMAIN calls
           /\ calls'[Len(calls) + 1] = c
           /\ \A j \in DOMAIN calls : calls'[j] = calls[j]
  <1>1. /\ calls' \in Seq(ListCall) /\ Len(calls') = Len(calls) + 1
        /\ \A j \in 1 .. Len(calls) : calls'[j] = calls[j]
        /\ calls'[Len(calls) + 1] = c
    BY AppendProperties
  <1>2. DOMAIN calls = 1 .. Len(calls) /\ DOMAIN calls' = 1 .. Len(calls') /\ Len(calls) \in Nat
    BY <1>1, LenProperties
  <1> QED
    BY <1>1, <1>2

\* A list request joins the others, or for the members replaces them.
LEMMA ReadAdded ==
    ASSUME reads \in Seq(ListRead), NEW then \in {"nothing", "form", "asked"}, reads' = WithRead(then)
    PROVE  /\ reads' \in Seq(ListRead)
           /\ Len(reads) \in Nat
           /\ DOMAIN reads' = DOMAIN reads \cup {Len(reads) + 1}
           /\ Len(reads) + 1 \notin DOMAIN reads
           /\ reads'[Len(reads) + 1] = Read(then)
           /\ \A r \in DOMAIN reads :
                /\ part # "members" => reads'[r] = reads[r]
                /\ part = "members" => reads'[r].stage = "over"
                /\ reads'[r].answer = reads[r].answer /\ reads'[r].version = reads[r].version
                /\ reads'[r].then = reads[r].then
  <1> DEFINE old == IF part = "members" THEN [r \in DOMAIN reads |-> Over(reads[r])] ELSE reads
  <1>1. \A r \in DOMAIN reads : reads[r] \in ListRead /\ Over(reads[r]) \in ListRead
    <2>1. \A r \in DOMAIN reads : reads[r] \in ListRead
      BY ElementOfSeq, LenProperties
    <2> QED
      BY <2>1 DEF Over, ListRead
  <1>2. DOMAIN reads = 1 .. Len(reads) /\ Len(reads) \in Nat
    BY LenProperties
  <1>3. old \in Seq(ListRead) /\ Len(old) = Len(reads)
    <2>1. CASE part = "members"
      <3>1. old = [r \in 1 .. Len(reads) |-> Over(reads[r])]
        BY <1>2, <2>1
      <3> QED
        BY <1>1, <1>2, <3>1
    <2> QED
      BY <2>1
  <1>4. reads' = Append(old, Read(then)) /\ Read(then) \in ListRead
    BY ListConstants DEF WithRead
  <1> HIDE DEF old
  <1>5. /\ reads' \in Seq(ListRead) /\ Len(reads') = Len(old) + 1
        /\ \A j \in 1 .. Len(old) : reads'[j] = old[j]
        /\ reads'[Len(old) + 1] = Read(then)
    BY <1>3, <1>4, AppendProperties
  <1>6. DOMAIN reads' = 1 .. Len(reads')
    BY <1>5, LenProperties
  <1>7. \A r \in DOMAIN reads : /\ part # "members" => reads'[r] = reads[r]
                                /\ part = "members" => reads'[r] = Over(reads[r])
    BY <1>2, <1>3, <1>5 DEF old
  <1>8. \A r \in DOMAIN reads : /\ Over(reads[r]).stage = "over" /\ Over(reads[r]).answer = reads[r].answer
                                /\ Over(reads[r]).version = reads[r].version /\ Over(reads[r]).then = reads[r].then
    BY <1>1 DEF Over, ListRead
  <1> QED
    BY <1>2, <1>3, <1>5, <1>6, <1>7, <1>8

LEMMA ReadEnds ==
    ASSUME reads \in Seq(ListRead), NEW r \in DOMAIN reads, reads' = [reads EXCEPT ![r] = Over(@)]
    PROVE  /\ reads' \in Seq(ListRead)
           /\ DOMAIN reads' = DOMAIN reads
           /\ reads'[r].stage = "over"
           /\ \A q \in DOMAIN reads :
                /\ q # r => reads'[q] = reads[q]
                /\ reads'[q].answer = reads[q].answer /\ reads'[q].version = reads[q].version
                /\ reads'[q].then = reads[q].then
  <1>1. reads[r] \in ListRead
    BY ElementOfSeq, LenProperties
  <1>2. Over(reads[r]) \in ListRead
    BY <1>1 DEF ListRead, Over
  <1>3. reads' \in Seq(ListRead)
    BY <1>2, ExceptSeq
  <1> QED
    BY <1>1, <1>3 DEF ListRead, Over

(***************************************************************************)
(* What leaves the list, or the forms, as they are.                        *)
(***************************************************************************)
OkCalls == {i \in DOMAIN calls : calls[i].stage = "ok"}

LEMMA ListStays ==
    ASSUME ListInv, UNCHANGED <<part, entries, list, reads, version, seen, crossed, missed>>,
           OkCalls' = OkCalls, \A i \in OkCalls : calls'[i] = calls[i]
    PROVE  ListInv'
  <1>1. \A c : Correcting(c)' <=> Correcting(c)
    BY DEF Correcting
  <1>2. \A i \in DOMAIN calls' : calls'[i].stage = "ok" => i \in DOMAIN calls /\ calls[i].stage = "ok" /\ calls'[i] = calls[i]
    BY DEF OkCalls
  <1>3. \A i \in DOMAIN calls : calls[i].stage = "ok" => i \in DOMAIN calls' /\ calls'[i].stage = "ok" /\ calls'[i] = calls[i]
    BY DEF OkCalls
  <1>4. \A k : TakenOut(k)' <=> TakenOut(k)
    BY <1>2, <1>3 DEF TakenOut, Correcting
  <1>5. \A x : (Len(x) = Len(entries) /\ \A k \in DOMAIN entries : x[k] = entries[k] \/ TakenOut(k)')
                 <=> Good(x)
    BY <1>4 DEF Good
  <1>6. Good(list)' <=> Good(list)
    BY <1>5 DEF Good
  <1>7. \A q \in DOMAIN reads : Good(reads[q].answer)' <=> Good(reads[q].answer)
    BY <1>5 DEF Good
  <1>8. ReadComes' <=> ReadComes
    BY <1>2, <1>3 DEF ReadComes, Correcting
  <1>9. Served' = Served /\ Reading' = Reading
    BY DEF Served, Reading
  <1>10. Settling => Settling'
    BY <1>6, <1>7, <1>8, <1>9 DEF Settling, Served
  <1>11. \A i \in DOMAIN calls' : calls'[i].stage = "ok" /\ Correcting(calls'[i]) => entries'[calls'[i].id] = Gone
    BY <1>2 DEF ListInv, Correcting
  <1> QED
    BY <1>9, <1>10, <1>11 DEF ListInv, Correcting

\* A read that was just sent will bring all there is.
LEMMA ReadAgain ==
    ASSUME ListInv, reads \in Seq(ListRead), NEW then \in {"nothing", "form", "asked"}, reads' = WithRead(then),
           UNCHANGED <<part, entries, list, version, seen, crossed, missed>>,
           OkCalls' \subseteq OkCalls, \A i \in OkCalls' : calls'[i] = calls[i]
    PROVE  ListInv'
  <1>1. Len(reads) + 1 \in DOMAIN reads' /\ reads'[Len(reads) + 1].stage = "sent"
    BY ReadAdded DEF Read
  <1>2. Settling'
    BY <1>1 DEF Settling, ReadComes
  <1>3. \A r \in Served' : r \in Served /\ reads'[r] = reads[r] /\ part # "members"
    BY <1>1, ReadAdded DEF Served
  <1>4. \A i \in DOMAIN calls' : calls'[i].stage = "ok" /\ Correcting(calls'[i]) => entries'[calls'[i].id] = Gone
    BY DEF ListInv, Correcting, OkCalls
  <1>5. part = "members" => \A r \in Reading' : r = Len(reads) + 1
    BY ReadAdded DEF Reading
  <1> QED
    BY <1>2, <1>3, <1>4, <1>5 DEF ListInv, Correcting

LEMMA FormsStay ==
    ASSUME SavingInv, MadeInv, UNCHANGED <<part, form, made, missed>>,
           Saves' = Saves, \A i \in Saves : calls'[i] = calls[i],
           part = "shortcuts" => FormReads' = FormReads,
           \A i \in DOMAIN calls' : calls'[i].op = "create" => calls'[i].from \in DOMAIN made
    PROVE  SavingInv' /\ MadeInv'
  <1>1. SavingInv'
    BY DEF SavingInv
  <1>2. MadeInv'
    BY DEF MadeInv
  <1> QED
    BY <1>1, <1>2

(***************************************************************************)
(* Confirmations are opened and cancelled.                                 *)
(***************************************************************************)
LEMMA ListAskInv ==
    ASSUME ListsInv, \/ CancelAsked
                     \/ \E i \in DOMAIN list, op \in {"delete", "archive"} : Ask(op, i)
    PROVE  ListsInv'
  <1>1. UNCHANGED <<part, entries, list, reads, form, calls, made, version, seen, crossed, missed>>
    BY DEF CancelAsked, Ask
  <1>2. \/ asked' = NotAsked
        \/ /\ asked' \in ListAsked
           /\ asked'.id \in DOMAIN list /\ asked'.op \in {"delete", "archive"}
           /\ asked'.op = "archive" => part = "members"
    <2>1. CASE CancelAsked
      BY <2>1 DEF CancelAsked
    <2>2. ASSUME NEW i \in DOMAIN list, NEW op \in {"delete", "archive"}, Ask(op, i)
          PROVE  /\ asked' \in ListAsked
                 /\ asked'.id \in DOMAIN list /\ asked'.op \in {"delete", "archive"}
                 /\ asked'.op = "archive" => part = "members"
      <3>1. i \in Nat
        BY LenProperties DEF ListsInv, ListsTypeOK
      <3>2. op = "archive" => part = "members"
        BY <2>2 DEF Ask, Offered
      <3>3. asked' = [op |-> op, id |-> i, busy |-> FALSE, call |-> 0]
        BY <2>2 DEF Ask
      <3> QED
        BY <3>1, <3>2, <3>3 DEF ListAsked
    <2> QED
      BY <2>1, <2>2
  <1>3. DOMAIN list \subseteq DOMAIN entries
    BY LenProperties DEF ListsInv, ListsTypeOK, NumbersInv
  <1>4. ListsTypeOK'
    BY <1>1, <1>2 DEF ListsInv, ListsTypeOK
  <1>5. NumbersInv' /\ PartsInv'
    BY <1>1, <1>2, <1>3 DEF ListsInv, NumbersInv, PartsInv
  <1>6. OkCalls' = OkCalls /\ Saves' = Saves /\ FormReads' = FormReads
    BY <1>1 DEF OkCalls, Saves, FormReads, Reading, Under
  <1>7. ListInv'
    BY <1>1, <1>6, ListStays DEF ListsInv
  <1>8. SavingInv' /\ MadeInv'
    BY <1>1, <1>6, FormsStay DEF ListsInv, MadeInv
  <1> QED
    BY <1>4, <1>5, <1>7, <1>8 DEF ListsInv

(***************************************************************************)
(* Forms are opened, filled and dismissed.                                 *)
(***************************************************************************)
LEMMA FormsEdited ==
    ASSUME ListsInv,
           UNCHANGED <<part, entries, list, reads, calls, asked, made, version, seen, crossed, missed>>,
           form' \in [Dialogs -> ListForm],
           \A d \in Dialogs : /\ form'[d].saving = form[d].saving /\ form'[d].done = form[d].done
                              /\ form'[d].target \in {0, form[d].target}
                              /\ form'[d].open => /\ form[d].open /\ form'[d].number = form[d].number
                                                  /\ form'[d].target = form[d].target
    PROVE  ListsInv'
  <1>1. ListsTypeOK'
    BY DEF ListsInv, ListsTypeOK
  <1>2. NumbersInv'
    <2>1. Len(entries) \in Nat
      BY LenProperties DEF ListsInv, ListsTypeOK
    <2>2. \A d \in Dialogs : form'[d].target <= Len(entries)
      BY <2>1 DEF ListsInv, NumbersInv
    <2> QED
      BY <2>2 DEF ListsInv, NumbersInv
  <1>3. PartsInv'
    BY DEF ListsInv, PartsInv, Dialogs
  <1>4. OkCalls' = OkCalls /\ Saves' = Saves /\ FormReads' = FormReads
    BY DEF OkCalls, Saves, FormReads, Reading, Under
  <1>5. ListInv'
    BY <1>4, ListStays DEF ListsInv
  <1>6. \A i \in Saves : calls[i].dialog \in Dialogs
    BY ListElements DEF ListsInv, Saves, Under, ListCall
  <1>7. SavingInv'
    BY <1>4, <1>6 DEF ListsInv, SavingInv, Dialogs
  <1>8. MadeInv'
    BY <1>4 DEF ListsInv, MadeInv, Dialogs
  <1> QED
    BY <1>1, <1>2, <1>3, <1>5, <1>7, <1>8 DEF ListsInv

LEMMA ListTypeInv ==
    ASSUME ListsInv, NEW d \in Dialogs, \/ CloseForm(d) \/ \E v \in {1, 2} : Type(d, v)
    PROVE  ListsInv'
  <1>1. form \in [Dialogs -> ListForm] /\ form[d] \in ListForm
    BY DEF ListsInv, ListsTypeOK
  <1>2. PICK f \in ListForm : /\ form' = [form EXCEPT ![d] = f]
                              /\ f.saving = form[d].saving /\ f.done = form[d].done
                              /\ f.target \in {0, form[d].target}
                              /\ f.open => form[d].open /\ f.number = form[d].number /\ f.target = form[d].target
    <2>1. ASSUME NEW v \in {1, 2}, Type(d, v)
          PROVE  /\ form' = [form EXCEPT ![d] = [form[d] EXCEPT !.typed = v]]
                 /\ [form[d] EXCEPT !.typed = v] \in ListForm
      BY <1>1, <2>1, ListConstants DEF Type, ListForm
    <2>2. ASSUME CloseForm(d)
          PROVE  \/ form' = [form EXCEPT ![d] = Reset(form[d])]
                 \/ form' = [form EXCEPT ![d] = Closed(form[d])]
      BY <1>1, <2>2 DEF CloseForm
    <2>3. Reset(form[d]) \in ListForm /\ Closed(form[d]) \in ListForm
      BY <1>1, ListConstants DEF Reset, Closed, ListForm
    <2>4. CASE CloseForm(d)
      BY <1>1, <2>2, <2>3, <2>4 DEF Reset, Closed, ListForm
    <2>5. CASE \E v \in {1, 2} : Type(d, v)
      <3>1. PICK v \in {1, 2} : Type(d, v)
        BY <2>5
      <3>2. /\ form' = [form EXCEPT ![d] = [form[d] EXCEPT !.typed = v]]
            /\ [form[d] EXCEPT !.typed = v] \in ListForm
        BY <2>1, <3>1
      <3> QED
        BY <1>1, <3>2 DEF ListForm
    <2> QED
      BY <2>4, <2>5
  <1>3. UNCHANGED <<part, entries, list, reads, calls, asked, made, version, seen, crossed, missed>>
    BY DEF CloseForm, Type
  <1>4. form' \in [Dialogs -> ListForm] /\ form'[d] = f /\ \A e \in Dialogs : e # d => form'[e] = form[e]
    BY <1>1, <1>2
  <1> QED
    BY <1>2, <1>3, <1>4, FormsEdited

\* An opened form is empty or about its entry, and a save of it goes on.
LEMMA OpenedForm ==
    ASSUME ListsTypeOK, NEW f \in ListForm, NEW target \in Nat, target # 0 => target \in DOMAIN list
    PROVE  /\ Opened(f, target) \in ListForm
           /\ Opened(f, target).target = target
           /\ Opened(f, target).number = Len(made) + 1
           /\ Opened(f, target).saving = f.saving
           /\ Opened(f, target).done \in {FALSE, f.done}
  <1>1. target # 0 => list[target] \in ListEntry /\ list[target].val \in ListVal
    BY ListElements DEF ListEntry
  <1>2. target # 0 => <<target, list[target]>> \in ListBase
    BY <1>1 DEF ListBase
  <1>3. Len(made) \in Nat
    BY LenProperties DEF ListsTypeOK
  <1>4. PICK g \in ListForm : /\ g.saving = f.saving /\ g.done \in {FALSE, f.done}
                              /\ Opened(f, target) = [g EXCEPT !.open = TRUE, !.target = target,
                                                               !.number = Len(made) + 1]
    <2>1. CASE part = "webhooks"
      BY <2>1 DEF Opened, WebhookForm
    <2>2. CASE part = "tokens"
      <3>1. TokenForm(f, target) \in ListForm /\ TokenForm(f, target).saving = f.saving /\ ~TokenForm(f, target).done
        BY ListConstants DEF TokenForm, ListForm
      <3>2. TokenForm(f, target).done \in {FALSE, f.done}
        BY <3>1 DEF TokenForm
      <3> QED
        BY <2>2, <3>1, <3>2 DEF Opened
    <2>3. CASE part = "members"
      <3>1. MemberForm(f, target) \in ListForm /\ MemberForm(f, target).saving = f.saving /\ MemberForm(f, target).done = f.done
        BY <1>1, <1>2, ListConstants DEF MemberForm, ListForm
      <3> QED
        BY <2>3, <3>1 DEF Opened
    <2>4. CASE part = "providers"
      <3>1. ProviderForm(f, target) \in ListForm /\ ProviderForm(f, target).saving = f.saving /\ ProviderForm(f, target).done = f.done
        BY <1>1, ListConstants DEF ProviderForm, ListForm
      <3> QED
        BY <2>4, <3>1 DEF Opened
    <2>5. CASE part = "shortcuts"
      <3>1. ShortcutForm(f, target) \in ListForm /\ ShortcutForm(f, target).saving = f.saving /\ ShortcutForm(f, target).done = f.done
        BY <1>1, ListConstants DEF ShortcutForm, ListForm
      <3> QED
        BY <2>5, <3>1 DEF Opened
    <2> QED
      BY <2>1, <2>2, <2>3, <2>4, <2>5 DEF ListsTypeOK, AllLists
  <1>5. Len(made) + 1 \in Nat
    BY <1>3
  <1>6. Opened(f, target) \in ListForm
    BY <1>4, <1>5 DEF ListForm
  <1> QED
    BY <1>4, <1>5, <1>6 DEF ListForm

LEMMA ListOpenInv ==
    ASSUME ListsInv, NEW target \in Nat, target # 0 => target \in DOMAIN list, OpenForm(target)
    PROVE  ListsInv'
  <1> DEFINE d == DialogFor(target)
  <1>1. form \in [Dialogs -> ListForm] /\ d \in Dialogs /\ form[d] \in ListForm
    BY DEF ListsInv, ListsTypeOK, DialogFor, Dialogs
  <1>2. PICK f \in ListForm : /\ f = Opened(form[d], target)
                              /\ f.target = target /\ f.number = Len(made) + 1
                              /\ f.saving = form[d].saving /\ f.done \in {FALSE, form[d].done}
    BY <1>1, OpenedForm DEF ListsInv
  <1>3. /\ form' \in [Dialogs -> ListForm]
        /\ form'[d] = f
        /\ \A e \in Dialogs : e # d =>
             /\ form'[e].saving = form[e].saving /\ form'[e].done = form[e].done
             /\ form'[e].open = form[e].open /\ form'[e].target = form[e].target
             /\ form'[e].number = form[e].number
    <2>1. <<0, Gone>> \in ListBase
      BY ListConstants
    <2>2. \A e \in Dialogs : [form[e] EXCEPT !.base = <<0, Gone>>, !.typed = 0] \in ListForm
      BY <1>1, <2>1, ListConstants DEF ListForm
    <2>3. form' = [e \in Dialogs |->
                IF e = d THEN f
                ELSE IF part = "members" /\ target = 0
                THEN [form[e] EXCEPT !.base = <<0, Gone>>, !.typed = 0] ELSE form[e]]
      BY <1>2 DEF OpenForm
    <2>4. form' \in [Dialogs -> ListForm] /\ form'[d] = f
      BY <1>1, <1>2, <2>2, <2>3
    <2>5. \A e \in Dialogs : e # d =>
            form'[e] = form[e] \/ form'[e] = [form[e] EXCEPT !.base = <<0, Gone>>, !.typed = 0]
      BY <2>3
    <2> QED
      BY <1>1, <2>4, <2>5 DEF ListForm
  <1>4. /\ made' = Append(made, 0)
        /\ UNCHANGED <<part, entries, list, reads, calls, asked, version, seen, crossed, missed>>
        /\ target # 0 => part \in {"members", "providers", "shortcuts"}
    BY DEF OpenForm
  <1>5. /\ made' \in Seq(Nat) /\ made \in Seq(Nat)
        /\ Len(made) \in Nat
        /\ DOMAIN made' = DOMAIN made \cup {Len(made) + 1}
        /\ Len(made) + 1 \notin DOMAIN made
        /\ made'[Len(made) + 1] = 0
        /\ \A k \in DOMAIN made : made'[k] = made[k]
    <2>1. made \in Seq(Nat) /\ 0 \in Nat
      BY DEF ListsInv, ListsTypeOK
    <2>2. /\ made' \in Seq(Nat) /\ Len(made') = Len(made) + 1
          /\ \A j \in 1 .. Len(made) : made'[j] = made[j]
          /\ made'[Len(made) + 1] = 0
      BY <1>4, <2>1, AppendProperties
    <2>3. DOMAIN made = 1 .. Len(made) /\ DOMAIN made' = 1 .. Len(made') /\ Len(made) \in Nat
      BY <2>1, <2>2, LenProperties
    <2> QED
      BY <2>1, <2>2, <2>3
  <1>6. d = "edit" <=> part = "members" /\ target # 0
    BY DEF DialogFor
  <1> HIDE DEF d
  <1>7. ListsTypeOK'
    BY <1>3, <1>4, <1>5 DEF ListsInv, ListsTypeOK
  <1>8. NumbersInv'
    <2>1. f.target <= Len(entries)
      BY <1>2, LenProperties DEF ListsInv, ListsTypeOK, NumbersInv
    <2>2. \A e \in Dialogs : form'[e].target <= Len(entries)
      BY <1>3, <2>1 DEF ListsInv, NumbersInv
    <2> QED
      BY <1>4, <2>2 DEF ListsInv, NumbersInv
  <1>9. PartsInv'
    <2>1. form'["edit"].open => part = "members" /\ form'["edit"].target # 0
      BY <1>1, <1>2, <1>3, <1>6 DEF ListsInv, PartsInv, Dialogs
    <2>2. form'["main"].done => part = "tokens"
      BY <1>1, <1>2, <1>3, <1>6 DEF ListsInv, PartsInv, Dialogs
    <2> QED
      BY <1>4, <2>1, <2>2 DEF ListsInv, PartsInv
  <1>10. OkCalls' = OkCalls /\ Saves' = Saves /\ FormReads' = FormReads
    BY <1>4 DEF OkCalls, Saves, FormReads, Reading, Under
  <1>11. ListInv'
    BY <1>4, <1>10, ListStays DEF ListsInv
  <1>12. \A i \in Saves : calls[i].dialog \in Dialogs
    BY ListElements DEF ListsInv, Saves, Under, ListCall
  <1>13. \A e \in Dialogs : form'[e].saving = form[e].saving
    BY <1>2, <1>3
  <1>14. SavingInv'
    BY <1>4, <1>10, <1>12, <1>13 DEF ListsInv, SavingInv, Dialogs
  <1>15. MadeInv'
    <2>1. \A e \in Dialogs : form'[e].open => form'[e].number \in DOMAIN made'
      BY <1>2, <1>3, <1>5 DEF ListsInv, MadeInv
    <2>2. \A i \in DOMAIN calls' : calls'[i].op = "create" => calls'[i].from \in DOMAIN made'
      BY <1>4, <1>5 DEF ListsInv, MadeInv
    <2>3. ASSUME ~missed
          PROVE  /\ \A k \in DOMAIN made' : made'[k] <= 1
                 /\ \A i \in Saves : calls[i].op = "create" /\ calls[i].stage # "ok" => made'[calls[i].from] = 0
      <3>1. \A i \in Saves : i \in DOMAIN calls
        BY DEF Saves, Under
      <3> QED
        BY <1>5, <2>3, <3>1 DEF ListsInv, MadeInv
    <2>4. ASSUME ~missed, form'["main"].open, ~form'["main"].done
          PROVE  \/ made'[form'["main"].number] = 0
                 \/ \E i \in Saves : /\ calls[i].op = "create" /\ calls[i].stage = "ok"
                                     /\ calls[i].from = form'["main"].number
                 \/ part = "shortcuts" /\ FormReads # {}
      <3>1. CASE d = "main"
        BY <1>2, <1>3, <1>5, <3>1
      <3>2. CASE d # "main"
        BY <1>3, <1>5, <2>4, <3>2 DEF ListsInv, MadeInv, Dialogs
      <3> QED
        BY <3>1, <3>2
    <2> QED
      BY <1>4, <1>10, <2>1, <2>2, <2>3, <2>4 DEF MadeInv
  <1> QED
    BY <1>7, <1>8, <1>9, <1>11, <1>14, <1>15 DEF ListsInv

(***************************************************************************)
(* Requests are sent.                                                      *)
(***************************************************************************)
LEMMA CallSent ==
    ASSUME ListsInv, NEW c \in ListCall, calls' = Append(calls, c), c.stage = "sent",
           UNCHANGED <<part, entries, list, reads, made, version, seen, crossed, missed>>,
           c.op # "create" => c.id \in DOMAIN entries,
           c.dialog = "edit" => part = "members" /\ c.op = "update",
           c.op \in {"archive", "restore"} => part = "members"
    PROVE  /\ ListInv'
           /\ calls' \in Seq(ListCall)
           /\ \A i \in DOMAIN calls' :
                /\ calls'[i].op # "create" => calls'[i].id \in DOMAIN entries
                /\ calls'[i].dialog = "edit" => part = "members" /\ calls'[i].op = "update"
                /\ calls'[i].op \in {"archive", "restore"} => part = "members"
                /\ i \in DOMAIN calls \/ calls'[i] = c
           /\ \A i \in DOMAIN calls : calls'[i] = calls[i]
           /\ \A i \in Saves : i \in DOMAIN calls
           /\ Saves' = IF c.op \in {"create", "update"} THEN Saves \cup {Len(calls) + 1} ELSE Saves
           /\ Len(calls) + 1 \notin Saves /\ calls'[Len(calls) + 1] = c
           /\ FormReads' = FormReads
  <1>1. /\ calls' \in Seq(ListCall)
        /\ DOMAIN calls' = DOMAIN calls \cup {Len(calls) + 1}
        /\ Len(calls) + 1 \notin DOMAIN calls
        /\ calls'[Len(calls) + 1] = c
        /\ \A j \in DOMAIN calls : calls'[j] = calls[j]
    BY CallAdded DEF ListsInv, ListsTypeOK
  <1>2. OkCalls' = OkCalls /\ \A i \in OkCalls : calls'[i] = calls[i]
    BY <1>1 DEF OkCalls
  <1>3. ListInv'
    BY <1>2, ListStays DEF ListsInv
  <1>4. Saves' = IF c.op \in {"create", "update"} THEN Saves \cup {Len(calls) + 1} ELSE Saves
    BY <1>1 DEF Saves, Under
  <1>5. FormReads' = FormReads
    BY DEF FormReads, Reading
  <1>6. \A i \in Saves : i \in DOMAIN calls
    BY DEF Saves, Under
  <1>7. \A i \in DOMAIN calls' :
                /\ calls'[i].op # "create" => calls'[i].id \in DOMAIN entries
                /\ calls'[i].dialog = "edit" => part = "members" /\ calls'[i].op = "update"
                /\ calls'[i].op \in {"archive", "restore"} => part = "members"
                /\ i \in DOMAIN calls \/ calls'[i] = c
    BY <1>1 DEF ListsInv, NumbersInv, PartsInv
  <1> QED
    BY <1>1, <1>3, <1>4, <1>5, <1>6, <1>7

LEMMA ListConfirmInv ==
    ASSUME ListsInv, \/ Confirm
                     \/ \E i \in DOMAIN list : RestoreUser(i)
    PROVE  ListsInv'
  <1>1. PICK op \in {"delete", "archive", "restore"}, id \in DOMAIN entries, from \in Nat :
          /\ calls' = Append(calls, [op |-> op, id |-> id, val |-> 0, dialog |-> "main",
                                     from |-> from, stage |-> "sent"])
          /\ op \in {"archive", "restore"} => part = "members"
    <2>1. form["main"].number \in Nat
      BY DEF ListsInv, ListsTypeOK, ListForm, Dialogs
    <2>2. CASE Confirm
      <3>1. asked.id \in DOMAIN entries /\ asked.op \in {"delete", "archive"} /\ (asked.op = "archive" => part = "members")
        BY <2>2 DEF Confirm, ListsInv, ListsTypeOK, NumbersInv, PartsInv, ListAsked
      <3>2. calls' = Append(calls, [op |-> asked.op, id |-> asked.id, val |-> 0, dialog |-> "main",
                                    from |-> form["main"].number, stage |-> "sent"])
        BY <2>2 DEF Confirm, SendCall
      <3> QED
        BY <2>1, <3>1, <3>2
    <2>3. ASSUME NEW i \in DOMAIN list, RestoreUser(i)
          PROVE  /\ i \in DOMAIN entries /\ part = "members"
                 /\ calls' = Append(calls, [op |-> "restore", id |-> i, val |-> 0, dialog |-> "main",
                                            from |-> form["main"].number, stage |-> "sent"])
      <3>1. i \in DOMAIN entries
        BY LenProperties DEF ListsInv, ListsTypeOK, NumbersInv
      <3>2. part = "members"
        BY <2>3 DEF RestoreUser, Offered
      <3> QED
        BY <2>3, <3>1, <3>2 DEF RestoreUser, SendCall
    <2> QED
      BY <2>1, <2>2, <2>3
  <1> DEFINE c == [op |-> op, id |-> id, val |-> 0, dialog |-> "main", from |-> from, stage |-> "sent"]
  <1>2. c \in ListCall /\ c.op = op /\ c.dialog = "main" /\ c.stage = "sent" /\ c.id = id
    <2>1. id \in Nat
      BY LenProperties DEF ListsInv, ListsTypeOK
    <2> QED
      BY <2>1, ListConstants DEF ListCall, Dialogs
  <1>3. calls' = Append(calls, c)
    BY <1>1
  <1> HIDE DEF c
  <1>4. UNCHANGED <<part, entries, list, reads, form, made, version, seen, crossed, missed>>
    BY DEF Confirm, RestoreUser
  <1>5. \/ asked' = NotAsked
        \/ asked' = asked
        \/ asked # NotAsked /\ asked' \in ListAsked /\ asked'.id = asked.id /\ asked'.op = asked.op
    <2>1. CASE Confirm
      <3>1. asked # NotAsked /\ asked \in ListAsked
        BY <2>1 DEF Confirm, ListsInv, ListsTypeOK
      <3>2. Len(calls) + 1 \in Nat
        BY LenProperties DEF ListsInv, ListsTypeOK
      <3> QED
        BY <2>1, <3>1, <3>2 DEF Confirm, ListAsked
    <2> QED
      BY <2>1 DEF RestoreUser
  <1>6. /\ ListInv'
        /\ calls' \in Seq(ListCall)
        /\ \A i \in DOMAIN calls' :
             /\ calls'[i].op # "create" => calls'[i].id \in DOMAIN entries
             /\ calls'[i].dialog = "edit" => part = "members" /\ calls'[i].op = "update"
             /\ calls'[i].op \in {"archive", "restore"} => part = "members"
             /\ i \in DOMAIN calls \/ calls'[i] = c
        /\ \A i \in DOMAIN calls : calls'[i] = calls[i]
        /\ \A i \in Saves : i \in DOMAIN calls
        /\ Saves' = Saves /\ FormReads' = FormReads
    BY <1>1, <1>2, <1>3, <1>4, CallSent
  <1>7. ListsTypeOK'
    BY <1>4, <1>5, <1>6 DEF ListsInv, ListsTypeOK
  <1>8. NumbersInv' /\ PartsInv'
    BY <1>4, <1>5, <1>6 DEF ListsInv, NumbersInv, PartsInv
  <1>9. \A i \in DOMAIN calls' : calls'[i].op = "create" => calls'[i].from \in DOMAIN made
    BY <1>1, <1>2, <1>6 DEF ListsInv, MadeInv
  <1>10. SavingInv' /\ MadeInv'
    BY <1>4, <1>6, <1>9, FormsStay DEF ListsInv
  <1> QED
    BY <1>6, <1>7, <1>8, <1>10 DEF ListsInv

LEMMA ListSaveInv ==
    ASSUME ListsInv, NEW d \in Dialogs, SaveForm(d)
    PROVE  ListsInv'
  <1> DEFINE c == [op |-> IF form[d].target = 0 THEN "create" ELSE "update", id |-> form[d].target,
                   val |-> form[d].typed, dialog |-> d, from |-> form[d].number, stage |-> "sent"]
  <1>1. form \in [Dialogs -> ListForm] /\ form[d] \in ListForm
    BY DEF ListsInv, ListsTypeOK
  <1>2. calls' = Append(calls, c) /\ form' = [form EXCEPT ![d].saving = TRUE]
    BY DEF SaveForm, SendCall
  <1>3. c \in ListCall
    BY <1>1 DEF ListForm, ListCall
  <1>4. /\ c.op = (IF form[d].target = 0 THEN "create" ELSE "update") /\ c.id = form[d].target
        /\ c.dialog = d /\ c.from = form[d].number /\ c.stage = "sent" /\ c.op \in {"create", "update"}
    OBVIOUS
  <1> HIDE DEF c
  <1>5. UNCHANGED <<part, entries, list, reads, asked, made, version, seen, crossed, missed>>
    BY DEF SaveForm
  <1>6. form[d].open /\ ~form[d].saving
    BY DEF SaveForm, MaySave
  <1>7. c.op # "create" => c.id \in DOMAIN entries
    BY <1>1, <1>4, LenProperties DEF ListsInv, ListsTypeOK, NumbersInv, ListForm
  <1>8. c.dialog = "edit" => part = "members" /\ c.op = "update"
    BY <1>4, <1>6 DEF ListsInv, PartsInv
  <1>9. /\ form' \in [Dialogs -> ListForm]
        /\ form'[d].saving
        /\ \A e \in Dialogs : /\ e # d => form'[e] = form[e]
                              /\ form'[e].open = form[e].open /\ form'[e].target = form[e].target
                              /\ form'[e].number = form[e].number /\ form'[e].done = form[e].done
    BY <1>1, <1>2 DEF ListForm
  <1>10. /\ ListInv'
         /\ calls' \in Seq(ListCall)
         /\ \A i \in DOMAIN calls' :
              /\ calls'[i].op # "create" => calls'[i].id \in DOMAIN entries
              /\ calls'[i].dialog = "edit" => part = "members" /\ calls'[i].op = "update"
              /\ calls'[i].op \in {"archive", "restore"} => part = "members"
              /\ i \in DOMAIN calls \/ calls'[i] = c
         /\ \A i \in DOMAIN calls : calls'[i] = calls[i]
         /\ \A i \in Saves : i \in DOMAIN calls
         /\ Saves' = Saves \cup {Len(calls) + 1} /\ FormReads' = FormReads
         /\ Len(calls) + 1 \notin Saves /\ calls'[Len(calls) + 1] = c
    BY <1>2, <1>3, <1>4, <1>5, <1>7, <1>8, CallSent
  <1>11. ListsTypeOK'
    BY <1>5, <1>9, <1>10 DEF ListsInv, ListsTypeOK
  <1>12. NumbersInv' /\ PartsInv'
    BY <1>5, <1>9, <1>10 DEF ListsInv, NumbersInv, PartsInv, Dialogs
  \* No other save of this form is under way.
  <1>13. \A i \in Saves : calls[i].dialog # d /\ calls[i].dialog \in Dialogs
    BY <1>6, ListElements DEF ListsInv, SavingInv, Saves, Under, ListCall
  <1>14. part = "shortcuts" => FormReads = {}
    <2>1. part = "shortcuts" => d = "main"
      BY <1>4, <1>8 DEF Dialogs
    <2> QED
      BY <1>6, <2>1 DEF ListsInv, SavingInv
  <1>15. SavingInv'
    <2>1. \A i \in Saves' : form'[calls'[i].dialog].saving
      <3>1. \A i \in Saves : form'[calls[i].dialog].saving
        BY <1>9, <1>13 DEF ListsInv, SavingInv
      <3> QED
        BY <1>4, <1>9, <1>10, <3>1
    <2>2. \A i, j \in Saves' : calls'[i].dialog = calls'[j].dialog => i = j
      <3>1. \A i, j \in Saves : calls[i].dialog = calls[j].dialog => i = j
        BY DEF ListsInv, SavingInv
      <3> QED
        BY <1>4, <1>10, <1>13, <3>1
    <2>3. part = "shortcuts" => FormReads' = {}
      BY <1>10, <1>14
    <2> QED
      BY <1>5, <2>1, <2>2, <2>3 DEF SavingInv
  \* So what the form made, if anything, has been answered, and closed it.
  <1>16. ~missed /\ c.op = "create" => made[c.from] = 0
    <2>1. c.op = "create" => d = "main"
      BY <1>4, <1>8 DEF Dialogs
    <2>2. d = "main" => ~form["main"].done
      BY DEF SaveForm, MaySave, Filled, TokenFilled, ListsInv, PartsInv
    <2>3. d = "main" => \A i \in Saves : calls[i].op # "create"
      BY <1>13, ListElements DEF ListsInv, PartsInv, Saves, Under, ListCall, Dialogs
    <2> QED
      BY <1>4, <1>6, <1>14, <2>1, <2>2, <2>3 DEF ListsInv, MadeInv
  <1>17. MadeInv'
    <2>1. \A i \in DOMAIN calls' : calls'[i].op = "create" => calls'[i].from \in DOMAIN made
      BY <1>4, <1>6, <1>10 DEF ListsInv, MadeInv
    <2>2. \A e \in Dialogs : form'[e].open => form'[e].number \in DOMAIN made
      BY <1>9 DEF ListsInv, MadeInv
    <2>3. ~missed => \A i \in Saves' : calls'[i].op = "create" /\ calls'[i].stage # "ok" => made[calls'[i].from] = 0
      BY <1>10, <1>16 DEF ListsInv, MadeInv
    <2>4. ~missed /\ form'["main"].open /\ ~form'["main"].done =>
               \/ made[form'["main"].number] = 0
               \/ \E i \in Saves' : /\ calls'[i].op = "create" /\ calls'[i].stage = "ok"
                                    /\ calls'[i].from = form'["main"].number
               \/ part = "shortcuts" /\ FormReads # {}
      BY <1>9, <1>10 DEF ListsInv, MadeInv, Dialogs
    <2> QED
      BY <1>5, <1>10, <2>1, <2>2, <2>3, <2>4 DEF ListsInv, MadeInv
  <1> QED
    BY <1>10, <1>11, <1>12, <1>15, <1>17 DEF ListsInv

(***************************************************************************)
(* Requests are performed, refused, or lose their reply.                   *)
(***************************************************************************)
LEMMA SavingStays ==
    ASSUME SavingInv, UNCHANGED <<part, form>>, Saves' \subseteq Saves, FormReads' = FormReads,
           \A j \in Saves' : calls'[j].dialog = calls[j].dialog
    PROVE  SavingInv'
  BY DEF SavingInv

LEMMA CallMoved ==
    ASSUME ListsInv, NEW i \in Under, NEW s \in {"ok", "failed", "over"},
           calls' = [calls EXCEPT ![i].stage = s], UNCHANGED part
    PROVE  /\ calls' \in Seq(ListCall)
           /\ i \in DOMAIN calls /\ DOMAIN calls' = DOMAIN calls
           /\ calls'[i].stage = s
           /\ Saves' = IF s = "over" THEN Saves \ {i} ELSE Saves
           /\ Saves \subseteq DOMAIN calls
           /\ \A j \in DOMAIN calls :
                /\ j # i => calls'[j] = calls[j]
                /\ calls'[j].op = calls[j].op /\ calls'[j].id = calls[j].id
                /\ calls'[j].dialog = calls[j].dialog /\ calls'[j].from = calls[j].from
                /\ calls'[j].val = calls[j].val
                /\ calls'[j].op # "create" => calls'[j].id \in DOMAIN entries
                /\ calls'[j].dialog = "edit" => part = "members" /\ calls'[j].op = "update"
                /\ calls'[j].op \in {"archive", "restore"} => part = "members"
                /\ calls'[j].op = "create" => calls'[j].from \in DOMAIN made
  <1>1. i \in DOMAIN calls /\ calls[i].stage # "over"
    BY DEF Under
  <1>2. /\ calls' \in Seq(ListCall)
        /\ DOMAIN calls' = DOMAIN calls
        /\ calls'[i].stage = s
        /\ \A j \in DOMAIN calls :
             /\ j # i => calls'[j] = calls[j]
             /\ calls'[j].op = calls[j].op /\ calls'[j].id = calls[j].id
             /\ calls'[j].dialog = calls[j].dialog /\ calls'[j].from = calls[j].from
             /\ calls'[j].val = calls[j].val
    BY <1>1, CallMoves DEF ListsInv, ListsTypeOK
  <1>3. Saves' = IF s = "over" THEN Saves \ {i} ELSE Saves
    BY <1>1, <1>2 DEF Saves, Under
  <1>4. Saves \subseteq DOMAIN calls
    BY DEF Saves, Under
  <1>5. \A j \in DOMAIN calls :
          /\ calls'[j].op # "create" => calls'[j].id \in DOMAIN entries
          /\ calls'[j].dialog = "edit" => part = "members" /\ calls'[j].op = "update"
          /\ calls'[j].op \in {"archive", "restore"} => part = "members"
          /\ calls'[j].op = "create" => calls'[j].from \in DOMAIN made
    BY <1>2 DEF ListsInv, NumbersInv, PartsInv, MadeInv
  <1> QED
    BY <1>1, <1>2, <1>3, <1>4, <1>5

LEMMA ListRefuseInv ==
    ASSUME ListsInv, NEW i \in Under, Refuse(i) \/ ReplyLost(i)
    PROVE  ListsInv'
  <1>1. calls' = [calls EXCEPT ![i].stage = "failed"] /\ UNCHANGED part
    BY DEF Refuse, ReplyLost
  <1>2. /\ calls' \in Seq(ListCall)
        /\ i \in DOMAIN calls /\ DOMAIN calls' = DOMAIN calls
        /\ calls'[i].stage = "failed"
        /\ Saves' = Saves
        /\ Saves \subseteq DOMAIN calls
        /\ \A j \in DOMAIN calls :
             /\ j # i => calls'[j] = calls[j]
             /\ calls'[j].op = calls[j].op /\ calls'[j].id = calls[j].id
             /\ calls'[j].dialog = calls[j].dialog /\ calls'[j].from = calls[j].from
             /\ calls'[j].val = calls[j].val
             /\ calls'[j].op # "create" => calls'[j].id \in DOMAIN entries
             /\ calls'[j].dialog = "edit" => part = "members" /\ calls'[j].op = "update"
             /\ calls'[j].op \in {"archive", "restore"} => part = "members"
             /\ calls'[j].op = "create" => calls'[j].from \in DOMAIN made
    BY <1>1, CallMoved
  <1>3. UNCHANGED <<part, entries, list, reads, form, asked, made, version, seen, crossed>>
    BY DEF Refuse, ReplyLost
  <1>4. (missed' = missed /\ calls[i].stage = "sent") \/ missed' = TRUE
    BY DEF Refuse, ReplyLost
  <1>5. FormReads' = FormReads /\ Reading' = Reading /\ Served' = Served
    BY <1>3 DEF FormReads, Reading, Served
  <1>6. ListsTypeOK'
    BY <1>2, <1>3, <1>4 DEF ListsInv, ListsTypeOK
  <1>7. NumbersInv' /\ PartsInv'
    BY <1>2, <1>3 DEF ListsInv, NumbersInv, PartsInv
  <1>8. SavingInv'
    BY <1>2, <1>3, <1>5, SavingStays DEF ListsInv
  <1>9. MadeInv'
    <2>1. \A j \in DOMAIN calls' : calls'[j].op = "create" => calls'[j].from \in DOMAIN made
      BY <1>2
    <2>2. CASE missed'
      BY <1>3, <2>1, <2>2 DEF ListsInv, MadeInv
    <2>3. CASE ~missed'
      <3>1. calls[i].stage = "sent" /\ ~missed
        BY <1>4, <2>3
      <3>2. \A j \in Saves : /\ calls'[j].stage # "ok" => calls[j].stage # "ok"
                             /\ calls[j].stage = "ok" => calls'[j].stage = "ok"
        BY <1>2, <3>1
      <3> QED
        BY <1>2, <1>3, <1>5, <2>1, <3>1, <3>2 DEF ListsInv, MadeInv
    <2> QED
      BY <2>2, <2>3
  <1>10. ListInv'
    <2>1. CASE missed' = missed /\ calls[i].stage = "sent"
      <3>1. OkCalls' = OkCalls /\ \A j \in OkCalls : calls'[j] = calls[j]
        BY <1>2, <2>1 DEF OkCalls
      <3> QED
        BY <1>3, <2>1, <3>1, ListStays DEF ListsInv
    <2>2. CASE missed' = TRUE
      <3>1. \A j \in DOMAIN calls' : calls'[j].stage = "ok" /\ Correcting(calls'[j]) => entries[calls'[j].id] = Gone
        BY <1>2 DEF ListsInv, ListInv, Correcting
      <3> QED
        BY <1>3, <1>5, <2>2, <3>1 DEF ListsInv, ListInv, Correcting
    <2> QED
      BY <1>4, <2>1, <2>2
  <1> QED
    BY <1>6, <1>7, <1>8, <1>9, <1>10 DEF ListsInv

\* What a request does to the entries: it adds one, or changes its own.
LEMMA PerformedEntries ==
    ASSUME ListsInv, NEW i \in Under, Perform(i)
    PROVE  /\ entries' \in Seq(ListEntry)
           /\ Len(entries) \in Nat /\ Len(entries') \in Nat /\ Len(entries') >= Len(entries)
           /\ DOMAIN entries = 1 .. Len(entries) /\ DOMAIN entries' = 1 .. Len(entries')
           /\ \A k \in DOMAIN entries : calls[i].op = "create" \/ k # calls[i].id => entries'[k] = entries[k]
           /\ calls[i].op = "delete" => entries'[calls[i].id] = Gone /\ Len(entries') = Len(entries)
  <1> DEFINE c == calls[i]
  <1>1. i \in DOMAIN calls /\ c \in ListCall
    BY ListElements DEF Under, ListsInv
  <1>2. entries \in Seq(ListEntry) /\ DOMAIN entries = 1 .. Len(entries) /\ Len(entries) \in Nat
    BY LenProperties DEF ListsInv, ListsTypeOK
  <1>3. c.op # "create" => c.id \in DOMAIN entries
    BY <1>1 DEF ListsInv, NumbersInv
  <1>4. c.op # "create" => entries[c.id] \in ListEntry
    BY <1>3, ListElements DEF ListsInv
  <1>5. c.op \in {"create", "update", "delete", "archive", "restore"} /\ c.val \in ListVal
    BY <1>1 DEF ListCall
  <1>6. entries' = Performed(c)
    BY DEF Perform
  <1> HIDE DEF c
  <1>7. CASE c.op = "create"
    <2>1. entries' = Append(entries, Entry(c.val)) /\ Entry(c.val) \in ListEntry
      BY <1>5, <1>6, <1>7, ListConstants DEF Performed
    <2>2. /\ entries' \in Seq(ListEntry) /\ Len(entries') = Len(entries) + 1
          /\ \A j \in 1 .. Len(entries) : entries'[j] = entries[j]
      BY <1>2, <2>1, AppendProperties
    <2> QED
      BY <1>2, <1>7, <2>2, LenProperties DEF c
  <1>8. CASE c.op # "create"
    <2>1. PICK x \in ListEntry : entries' = [entries EXCEPT ![c.id] = x] /\ (c.op = "delete" => x = Gone)
      <3>1. CASE c.op = "update"
        <4>1. [entries[c.id] EXCEPT !.val = c.val] \in ListEntry
          BY <1>4, <1>5, <1>8 DEF ListEntry
        <4>2. entries' = [entries EXCEPT ![c.id] = [entries[c.id] EXCEPT !.val = c.val]]
          BY <1>3, <1>6, <3>1 DEF Performed
        <4> QED
          BY <3>1, <4>1, <4>2
      <3>2. CASE c.op = "delete"
        BY <1>6, <3>2, ListConstants DEF Performed
      <3>3. CASE c.op = "archive"
        <4>1. [entries[c.id] EXCEPT !.off = TRUE] \in ListEntry
          BY <1>4, <1>8 DEF ListEntry
        <4>2. entries' = [entries EXCEPT ![c.id] = [entries[c.id] EXCEPT !.off = TRUE]]
          BY <1>3, <1>6, <3>3 DEF Performed
        <4> QED
          BY <3>3, <4>1, <4>2
      <3>4. CASE c.op = "restore"
        <4>1. [entries[c.id] EXCEPT !.off = FALSE] \in ListEntry
          BY <1>4, <1>8 DEF ListEntry
        <4>2. entries' = [entries EXCEPT ![c.id] = [entries[c.id] EXCEPT !.off = FALSE]]
          BY <1>3, <1>6, <3>4 DEF Performed
        <4> QED
          BY <3>4, <4>1, <4>2
      <3> QED
        BY <1>5, <1>8, <3>1, <3>2, <3>3, <3>4
    <2>2. c.id \in 1 .. Len(entries)
      BY <1>2, <1>3, <1>8
    <2>3. /\ entries' \in Seq(ListEntry) /\ Len(entries') = Len(entries)
          /\ \A j \in 1 .. Len(entries) : entries'[j] = IF j = c.id THEN x ELSE entries[j]
      BY <1>2, <2>1, <2>2, ExceptSeq
    <2> QED
      BY <1>2, <1>8, <2>1, <2>2, <2>3, LenProperties DEF c
  <1> QED
    BY <1>7, <1>8

LEMMA ListPerformInv ==
    ASSUME ListsInv, NEW i \in Under, Perform(i)
    PROVE  ListsInv'
  <1> DEFINE c == calls[i]
  <1>1. /\ calls' = [calls EXCEPT ![i].stage = "ok"]
        /\ UNCHANGED <<part, list, reads, form, asked, seen, crossed, missed>>
        /\ version' = version + 1
        /\ c.stage = "sent"
        /\ c.op # "create" => entries[c.id] # Gone
        /\ made' = IF c.op = "create" THEN [made EXCEPT ![c.from] = @ + 1] ELSE made
    BY DEF Perform
  <1>2. /\ calls' \in Seq(ListCall)
        /\ i \in DOMAIN calls /\ DOMAIN calls' = DOMAIN calls
        /\ calls'[i].stage = "ok"
        /\ Saves' = Saves
        /\ Saves \subseteq DOMAIN calls
        /\ \A j \in DOMAIN calls :
             /\ j # i => calls'[j] = calls[j]
             /\ calls'[j].op = calls[j].op /\ calls'[j].id = calls[j].id
             /\ calls'[j].dialog = calls[j].dialog /\ calls'[j].from = calls[j].from
             /\ calls'[j].val = calls[j].val
             /\ calls'[j].op # "create" => calls'[j].id \in DOMAIN entries
             /\ calls'[j].dialog = "edit" => part = "members" /\ calls'[j].op = "update"
             /\ calls'[j].op \in {"archive", "restore"} => part = "members"
             /\ calls'[j].op = "create" => calls'[j].from \in DOMAIN made
    BY <1>1, CallMoved
  <1>3. /\ entries' \in Seq(ListEntry)
        /\ Len(entries) \in Nat /\ Len(entries') \in Nat /\ Len(entries') >= Len(entries)
        /\ DOMAIN entries = 1 .. Len(entries) /\ DOMAIN entries' = 1 .. Len(entries')
        /\ \A k \in DOMAIN entries : c.op = "create" \/ k # c.id => entries'[k] = entries[k]
        /\ c.op = "delete" => entries'[c.id] = Gone /\ Len(entries') = Len(entries)
    BY PerformedEntries
  <1>4. version \in Nat /\ version' \in Nat /\ seen \in 0 .. version'
    <2>1. version \in Nat /\ seen \in 0 .. version
      BY DEF ListsInv, ListsTypeOK
    <2>2. version' = version + 1
      BY <1>1
    <2> QED
      BY <2>1, <2>2
  <1>5. FormReads' = FormReads /\ Reading' = Reading /\ Served' = Served
    BY <1>1 DEF FormReads, Reading, Served
  <1>6. /\ made \in Seq(Nat) /\ made' \in Seq(Nat) /\ DOMAIN made' = DOMAIN made
        /\ c.op = "create" => /\ c.from \in DOMAIN made /\ made'[c.from] = made[c.from] + 1
                              /\ \A k \in DOMAIN made : k # c.from => made'[k] = made[k]
        /\ c.op # "create" => made' = made
    <2>1. made \in Seq(Nat) /\ DOMAIN made = 1 .. Len(made)
      BY LenProperties DEF ListsInv, ListsTypeOK
    <2>2. CASE c.op = "create"
      <3>1. c.from \in DOMAIN made
        BY <1>2, <2>2
      <3>2. made[c.from] + 1 \in Nat
        BY <3>1, ListElements DEF ListsInv
      <3>3. made' = [made EXCEPT ![c.from] = made[c.from] + 1]
        BY <1>1, <2>2, <3>1
      <3>4. made' \in Seq(Nat)
        BY <2>1, <3>1, <3>2, <3>3, ExceptSeq
      <3> QED
        BY <2>1, <2>2, <3>1, <3>3, <3>4
    <2>3. CASE c.op # "create"
      BY <1>1, <2>1, <2>3
    <2> QED
      BY <2>2, <2>3
  <1>7. ListsTypeOK'
    BY <1>1, <1>2, <1>3, <1>4, <1>6, ZenonT(30) DEF ListsInv, ListsTypeOK
  <1>8. NumbersInv'
    <2>0. \A m \in Nat : m <= Len(entries) => m <= Len(entries')
      <3>1. Len(entries) \in Nat /\ Len(entries') \in Nat /\ Len(entries') >= Len(entries)
        BY <1>3
      <3> QED
        BY <3>1, SMTT(30)
    <2>1. Len(list) <= Len(entries')
      BY <2>0, LenProperties DEF ListsInv, ListsTypeOK, NumbersInv
    <2>2. \A r \in DOMAIN reads : Len(reads[r].answer) <= Len(entries') /\ reads[r].version <= version'
      <3>1. \A r \in DOMAIN reads : Len(reads[r].answer) \in Nat /\ reads[r].version \in Nat
        <4>1. \A r \in DOMAIN reads : reads[r].answer \in Seq(ListEntry) /\ reads[r].version \in Nat
          BY ListElements DEF ListsInv, ListRead
        <4> QED
          BY <4>1, LenProperties
      <3> QED
        BY <1>1, <1>4, <2>0, <3>1, SMTT(30) DEF ListsInv, NumbersInv
    <2>3. \A d \in Dialogs : form[d].target <= Len(entries')
      <3>1. \A d \in Dialogs : form[d].target \in Nat
        <4>1. form \in [Dialogs -> ListForm]
          BY DEF ListsInv, ListsTypeOK
        <4> QED
          BY <4>1 DEF ListForm
      <3> QED
        BY <2>0, <3>1 DEF ListsInv, NumbersInv
    <2>4. DOMAIN entries \subseteq DOMAIN entries'
      <3>1. Len(entries) \in Nat /\ Len(entries') \in Nat /\ Len(entries') >= Len(entries)
        BY <1>3
      <3>2. 1 .. Len(entries) \subseteq 1 .. Len(entries')
        BY <3>1
      <3> QED
        BY <1>3, <3>2
    <2> QED
      BY <1>1, <1>2, <2>1, <2>2, <2>3, <2>4 DEF ListsInv, NumbersInv
  <1>9. PartsInv'
    BY <1>1, <1>2 DEF ListsInv, PartsInv
  <1>10. SavingInv'
    BY <1>1, <1>2, <1>5, SavingStays DEF ListsInv
  <1>11. MadeInv'
    <2>1. \A j \in DOMAIN calls' : calls'[j].op = "create" => calls'[j].from \in DOMAIN made'
      BY <1>2, <1>6
    <2>2. \A d \in Dialogs : form'[d].open => form'[d].number \in DOMAIN made'
      BY <1>1, <1>6 DEF ListsInv, MadeInv
    <2>3. CASE missed \/ c.op # "create"
      <3>1. c.op # "create" => made' = made /\ \A j \in Saves : calls'[j].op = "create" => calls'[j] = calls[j]
        BY <1>2, <1>6
      <3> QED
        BY <1>1, <1>2, <1>5, <2>1, <2>2, <2>3, <3>1 DEF ListsInv, MadeInv
    <2>4. CASE ~missed /\ c.op = "create"
      <3>1. i \in Saves
        BY <1>1, <1>2, <2>4 DEF Saves, Under
      <3>2. made[c.from] = 0
        BY <1>1, <2>4, <3>1 DEF ListsInv, MadeInv
      <3>3. \A k \in DOMAIN made' : made'[k] <= 1
        BY <1>6, <2>4, <3>2 DEF ListsInv, MadeInv
      \* It is the only save of the form that creates.
      <3>4. \A j \in Saves : j # i => calls[j].op # "create"
        <4>1. \A j \in Saves : calls[j].op = "create" => calls[j].dialog = "main"
          BY <1>2, ListElements DEF ListsInv, PartsInv, ListCall, Dialogs
        <4> QED
          BY <2>4, <3>1, <4>1 DEF ListsInv, SavingInv
      <3>5. \A j \in Saves : calls'[j].op = "create" /\ calls'[j].stage # "ok" => made'[calls'[j].from] = 0
        BY <1>2, <3>4
      <3>6. form["main"].open /\ ~form["main"].done =>
               \/ made'[form["main"].number] = 0
               \/ \E j \in Saves : /\ calls'[j].op = "create" /\ calls'[j].stage = "ok"
                                   /\ calls'[j].from = form["main"].number
               \/ part = "shortcuts" /\ FormReads # {}
        <4>1. CASE form["main"].number = c.from
          BY <1>2, <2>4, <3>1, <4>1
        <4>2. CASE form["main"].number # c.from
          <5>1. form["main"].open => form["main"].number \in DOMAIN made
            BY DEF ListsInv, MadeInv, Dialogs
          <5>2. \A j \in Saves : ~(calls[j].op = "create" /\ calls[j].stage = "ok")
            BY <1>1, <3>4
          <5> QED
            BY <1>6, <2>4, <4>2, <5>1, <5>2 DEF ListsInv, MadeInv
        <4> QED
          BY <4>1, <4>2
      <3> QED
        BY <1>1, <1>2, <1>5, <2>1, <2>2, <3>3, <3>5, <3>6 DEF MadeInv
    <2> QED
      BY <2>3, <2>4
  <1>12. ListInv'
    <2>1. \A j \in DOMAIN calls' : calls'[j].stage = "ok" /\ Correcting(calls'[j]) => entries'[calls'[j].id] = Gone
      <3> SUFFICES ASSUME NEW j \in DOMAIN calls, calls'[j].stage = "ok", Correcting(calls'[j])
                   PROVE  entries'[calls'[j].id] = Gone
        BY <1>2, SMTT(30)
      <3>1. CASE j = i
        BY <1>2, <1>3, <3>1, ZenonT(30) DEF Correcting
      <3>2. CASE j # i
        <4>1. entries[calls[j].id] = Gone /\ calls[j].id \in DOMAIN entries
          BY <1>2, <3>2 DEF ListsInv, ListInv, NumbersInv, Correcting
        <4>2. c.op = "create" \/ calls[j].id # c.id
          BY <1>1, <4>1
        <4> QED
          BY <1>2, <1>3, <3>2, <4>1, <4>2
      <3> QED
        BY <3>1, <3>2
    <2>2. \A r \in Served : reads[r].version # version'
      <3>1. \A r \in Served : reads[r].version \in Nat /\ reads[r].version <= version
        BY ListElements DEF ListsInv, NumbersInv, Served, ListRead
      <3> QED
        BY <1>1, <1>4, <3>1
    <2>3. Settling => Settling'
      <3>1. CASE ~Correcting(c)
        <4>1. i \in DOMAIN calls' /\ calls'[i].stage = "ok" /\ ~Correcting(calls'[i])
          BY <1>2, <3>1 DEF Correcting
        <4> QED
          BY <1>1, <4>1 DEF Settling, ReadComes, Correcting
      <3>2. CASE Correcting(c)
        <4>1. c.op = "delete" /\ part # "members"
          BY <3>2 DEF Correcting
        <4>2. \A k : TakenOut(k) => TakenOut(k)'
          BY <1>1, <1>2 DEF TakenOut, Correcting
        <4>3. \A k : k = c.id => TakenOut(k)'
          BY <1>1, <1>2, <3>2 DEF TakenOut, Correcting
        <4>4. ReadComes => ReadComes'
          BY <1>1, <1>2 DEF ReadComes, Correcting
        <4>5. DOMAIN entries' = DOMAIN entries /\ Len(entries') = Len(entries)
          BY <1>3, <4>1
        <4>6. \A x : Good(x) => /\ Len(x) = Len(entries')
                                /\ \A k \in DOMAIN entries' : x[k] = entries'[k] \/ TakenOut(k)'
          <5> SUFFICES ASSUME NEW x, Good(x)
                       PROVE  /\ Len(x) = Len(entries')
                              /\ \A k \in DOMAIN entries' : x[k] = entries'[k] \/ TakenOut(k)'
            OBVIOUS
          <5>1. Len(x) = Len(entries')
            BY <4>5 DEF Good
          <5>2. ASSUME NEW k \in DOMAIN entries' PROVE x[k] = entries'[k] \/ TakenOut(k)'
            <6>1. CASE k = c.id
              BY <4>3, <6>1
            <6>2. CASE k # c.id
              <7>1. k \in DOMAIN entries /\ entries'[k] = entries[k]
                BY <1>3, <4>5, <6>2
              <7>2. x[k] = entries[k] \/ TakenOut(k)
                BY <7>1 DEF Good
              <7> QED
                BY <4>2, <7>1, <7>2
            <6> QED
              BY <6>1, <6>2
          <5> QED
            BY <5>1, <5>2
        <4>7. Good(list) => Good(list)'
          BY <1>1, <4>6 DEF Good
        <4>8. \A q \in DOMAIN reads : Good(reads[q].answer) => Good(reads[q].answer)'
          BY <1>1, <4>6 DEF Good
        <4> QED
          BY <1>1, <1>5, <4>4, <4>7, <4>8 DEF Settling, Served
      <3> QED
        BY <3>1, <3>2
    <2> QED
      BY <1>1, <1>5, <2>1, <2>2, <2>3 DEF ListsInv, ListInv, Correcting
  <1> QED
    BY <1>7, <1>8, <1>9, <1>10, <1>11, <1>12 DEF ListsInv

(***************************************************************************)
(* Replies to a form.                                                      *)
(***************************************************************************)
LEMMA ReadNumbers ==
    ASSUME ListsInv, NEW then \in {"nothing", "form", "asked"}, reads' = WithRead(then),
           UNCHANGED <<entries, version>>
    PROVE  /\ reads' \in Seq(ListRead)
           /\ \A r \in DOMAIN reads' : Len(reads'[r].answer) <= Len(entries') /\ reads'[r].version <= version'
           /\ \A r \in DOMAIN reads' : (r \in DOMAIN reads /\ reads'[r].then = reads[r].then) \/ reads'[r].then = then
           /\ part = "shortcuts" => FormReads' = IF then = "form" THEN FormReads \cup {Len(reads) + 1} ELSE FormReads
  <1>1. /\ reads' \in Seq(ListRead)
        /\ DOMAIN reads' = DOMAIN reads \cup {Len(reads) + 1}
        /\ Len(reads) + 1 \notin DOMAIN reads
        /\ reads'[Len(reads) + 1] = Read(then)
        /\ \A r \in DOMAIN reads :
             /\ part # "members" => reads'[r] = reads[r]
             /\ reads'[r].answer = reads[r].answer /\ reads'[r].version = reads[r].version
             /\ reads'[r].then = reads[r].then
    BY ReadAdded DEF ListsInv, ListsTypeOK
  <1>2. Len(entries) \in Nat /\ version \in Nat
    BY LenProperties DEF ListsInv, ListsTypeOK
  <1>3. Read(then).answer = <<>> /\ Read(then).version = 0 /\ Read(then).stage = "sent" /\ Read(then).then = then
    BY DEF Read
  <1>4. Len(<<>>) <= Len(entries) /\ 0 <= version
    BY <1>2
  <1>5. \A r \in DOMAIN reads' : Len(reads'[r].answer) <= Len(entries') /\ reads'[r].version <= version'
    BY <1>1, <1>3, <1>4 DEF ListsInv, NumbersInv
  <1>6. part = "shortcuts" => FormReads' = IF then = "form" THEN FormReads \cup {Len(reads) + 1} ELSE FormReads
    BY <1>1, <1>3 DEF FormReads, Reading
  <1>7. \A r \in DOMAIN reads' : (r \in DOMAIN reads /\ reads'[r].then = reads[r].then) \/ reads'[r].then = then
    BY <1>1, <1>3
  <1> QED
    BY <1>1, <1>5, <1>6, <1>7

\* A request that is over.
LEMMA CallEnds ==
    ASSUME ListsInv, NEW i \in Under, calls' = [calls EXCEPT ![i] = Over(@)], UNCHANGED part
    PROVE  /\ calls' \in Seq(ListCall)
           /\ i \in DOMAIN calls /\ DOMAIN calls' = DOMAIN calls
           /\ calls'[i].stage = "over"
           /\ Saves' = Saves \ {i}
           /\ OkCalls' = OkCalls \ {i}
           /\ Saves \subseteq DOMAIN calls
           /\ \A j \in DOMAIN calls :
                /\ j # i => calls'[j] = calls[j]
                /\ calls'[j].op = calls[j].op /\ calls'[j].id = calls[j].id
                /\ calls'[j].dialog = calls[j].dialog /\ calls'[j].from = calls[j].from
                /\ calls'[j].op # "create" => calls'[j].id \in DOMAIN entries
                /\ calls'[j].dialog = "edit" => part = "members" /\ calls'[j].op = "update"
                /\ calls'[j].op \in {"archive", "restore"} => part = "members"
                /\ calls'[j].op = "create" => calls'[j].from \in DOMAIN made
  <1>1. calls' = [calls EXCEPT ![i].stage = "over"]
    BY DEF Over
  <1>2. /\ calls' \in Seq(ListCall)
        /\ i \in DOMAIN calls /\ DOMAIN calls' = DOMAIN calls
        /\ calls'[i].stage = "over"
        /\ Saves' = Saves \ {i}
        /\ Saves \subseteq DOMAIN calls
        /\ \A j \in DOMAIN calls :
             /\ j # i => calls'[j] = calls[j]
             /\ calls'[j].op = calls[j].op /\ calls'[j].id = calls[j].id
             /\ calls'[j].dialog = calls[j].dialog /\ calls'[j].from = calls[j].from
             /\ calls'[j].op # "create" => calls'[j].id \in DOMAIN entries
             /\ calls'[j].dialog = "edit" => part = "members" /\ calls'[j].op = "update"
             /\ calls'[j].op \in {"archive", "restore"} => part = "members"
             /\ calls'[j].op = "create" => calls'[j].from \in DOMAIN made
    BY <1>1, CallMoved
  <1>3. OkCalls' = OkCalls \ {i}
    BY <1>2 DEF OkCalls
  <1> QED
    BY <1>2, <1>3

LEMMA ListNotSavedInv ==
    ASSUME ListsInv, NEW i \in Under, FormNotSaved(i)
    PROVE  ListsInv'
  <1> DEFINE d == calls[i].dialog
  <1>1. /\ calls[i].stage = "failed" /\ calls[i].op \in {"create", "update"}
        /\ form' = [form EXCEPT ![d].saving = FALSE]
        /\ calls' = [calls EXCEPT ![i] = Over(@)]
        /\ UNCHANGED <<part, entries, list, reads, asked, made, version, seen, crossed, missed>>
    BY DEF FormNotSaved
  <1>2. /\ calls' \in Seq(ListCall)
        /\ i \in DOMAIN calls /\ DOMAIN calls' = DOMAIN calls
        /\ calls'[i].stage = "over"
        /\ Saves' = Saves \ {i}
        /\ OkCalls' = OkCalls \ {i}
        /\ Saves \subseteq DOMAIN calls
        /\ \A j \in DOMAIN calls :
             /\ j # i => calls'[j] = calls[j]
             /\ calls'[j].op = calls[j].op /\ calls'[j].id = calls[j].id
             /\ calls'[j].dialog = calls[j].dialog /\ calls'[j].from = calls[j].from
             /\ calls'[j].op # "create" => calls'[j].id \in DOMAIN entries
             /\ calls'[j].dialog = "edit" => part = "members" /\ calls'[j].op = "update"
             /\ calls'[j].op \in {"archive", "restore"} => part = "members"
             /\ calls'[j].op = "create" => calls'[j].from \in DOMAIN made
    BY <1>1, CallEnds
  <1>3. d \in Dialogs /\ i \in Saves /\ i \notin OkCalls
    BY <1>1, <1>2, ListElements DEF ListsInv, ListCall, Saves, OkCalls
  <1>4. /\ form' \in [Dialogs -> ListForm]
        /\ \A e \in Dialogs : /\ e # d => form'[e] = form[e]
                              /\ form'[e].open = form[e].open /\ form'[e].target = form[e].target
                              /\ form'[e].number = form[e].number /\ form'[e].done = form[e].done
    <2>1. form \in [Dialogs -> ListForm]
      BY DEF ListsInv, ListsTypeOK
    <2> QED
      BY <1>1, <1>3, <2>1, ZenonT(30) DEF ListForm
  <1> HIDE DEF d
  <1>5. ListsTypeOK'
    BY <1>1, <1>2, <1>4 DEF ListsInv, ListsTypeOK
  <1>6. NumbersInv' /\ PartsInv'
    BY <1>1, <1>2, <1>4 DEF ListsInv, NumbersInv, PartsInv, Dialogs
  <1>7. FormReads' = FormReads /\ (part = "shortcuts" => FormReads = {})
    <2>1. FormReads' = FormReads
      BY <1>1 DEF FormReads, Reading
    <2> QED
      BY <1>3, <2>1 DEF ListsInv, SavingInv
  <1>8. SavingInv'
    <2>1. \A j \in Saves' : calls'[j].dialog = calls[j].dialog /\ calls[j].dialog \in Dialogs /\ calls[j].dialog # d
      BY <1>2, <1>3, ListElements DEF ListsInv, SavingInv, ListCall, d
    <2>2. \A j \in Saves' : form'[calls'[j].dialog].saving
      BY <1>2, <1>4, <2>1 DEF ListsInv, SavingInv
    <2>3. \A j, k \in Saves' : calls'[j].dialog = calls'[k].dialog => j = k
      BY <1>2, <2>1 DEF ListsInv, SavingInv
    <2> QED
      BY <1>1, <1>7, <2>2, <2>3 DEF SavingInv
  <1>9. MadeInv'
    <2>1. \A j \in Saves : calls[j].stage = "ok" => j \in Saves'
      BY <1>1, <1>2
    <2>2. \A j \in Saves' : j \in Saves /\ calls'[j] = calls[j]
      BY <1>2
    <2>3. \A e \in Dialogs : form'[e].open => form'[e].number \in DOMAIN made
      BY <1>4 DEF ListsInv, MadeInv
    <2>4. ~missed => \A j \in Saves' : calls'[j].op = "create" /\ calls'[j].stage # "ok" => made[calls'[j].from] = 0
      BY <2>2 DEF ListsInv, MadeInv
    <2>5. ~missed /\ form'["main"].open /\ ~form'["main"].done =>
               \/ made[form'["main"].number] = 0
               \/ \E j \in Saves' : /\ calls'[j].op = "create" /\ calls'[j].stage = "ok"
                                    /\ calls'[j].from = form'["main"].number
               \/ part = "shortcuts" /\ FormReads # {}
      BY <1>4, <2>1, <2>2 DEF ListsInv, MadeInv, Dialogs
    <2> QED
      BY <1>1, <1>2, <1>7, <2>3, <2>4, <2>5 DEF ListsInv, MadeInv
  <1>10. ListInv'
    <2>1. OkCalls' = OkCalls /\ \A j \in OkCalls : calls'[j] = calls[j]
      BY <1>2, <1>3 DEF OkCalls
    <2> QED
      BY <1>1, <2>1, ListStays DEF ListsInv
  <1> QED
    BY <1>5, <1>6, <1>8, <1>9, <1>10 DEF ListsInv

\* What becomes of the form that was saved.
LEMMA SavedForm ==
    ASSUME ListsInv, NEW i \in Under, FormSaved(i)
    PROVE  /\ calls[i].dialog \in Dialogs
           /\ part # "members" => calls[i].dialog = "main"
           /\ form' \in [Dialogs -> ListForm]
           /\ \A e \in Dialogs :
                /\ e # calls[i].dialog => form'[e] = form[e]
                /\ form'[e].target \in {0, form[e].target} /\ form'[e].number = form[e].number
                /\ form'[e].open => form[e].open /\ form'[e].target = form[e].target
                /\ form'[e].done => form[e].done \/ (part = "tokens" /\ e = "main")
           /\ part # "shortcuts" => ~form'[calls[i].dialog].open \/ form'[calls[i].dialog].done
           /\ part = "shortcuts" => form' = form
           /\ asked' \in {asked, NotAsked}
           /\ \E then \in {"nothing", "form"} :
                /\ reads' = WithRead(then)
                /\ part = "shortcuts" => then = "form"
                /\ then = "form" => part \in {"webhooks", "providers", "shortcuts"}
  <1> DEFINE d == calls[i].dialog
  <1>1. form \in [Dialogs -> ListForm]
    BY DEF ListsInv, ListsTypeOK
  <1>2. d \in Dialogs /\ (part # "members" => d = "main")
    BY ListElements DEF ListsInv, ListCall, Under, PartsInv, Dialogs
  <1>3. form[d] \in ListForm /\ form["main"] \in ListForm
    BY <1>1, <1>2 DEF Dialogs
  <1>4. part \in AllLists /\ calls[i].op \in {"create", "update"}
    BY DEF FormSaved, ListsInv, ListsTypeOK
  <1>5. CASE part = "webhooks"
    <2>1. form' = [form EXCEPT !["main"] = [Closed(@) EXCEPT !.saving = FALSE]] /\ reads' = WithRead("form") /\ asked' = asked
      BY <1>5 DEF FormSaved, WebhookSaved
    <2> QED
      BY <1>1, <1>2, <1>3, <1>5, <2>1 DEF Closed, ListForm
  <1>6. CASE part = "tokens"
    <2>1. form' = [form EXCEPT !["main"].saving = FALSE, !["main"].done = TRUE] /\ reads' = WithRead("nothing") /\ asked' = asked
      BY <1>6 DEF FormSaved, TokenSaved
    <2> QED
      BY <1>1, <1>2, <1>3, <1>6, <2>1 DEF ListForm
  <1>7. CASE part = "members"
    <2>1. form' = [form EXCEPT ![d] = [Closed(@) EXCEPT !.saving = FALSE]] /\ reads' = WithRead("nothing") /\ asked' = Released
      BY <1>7 DEF FormSaved, MemberSaved
    <2>2. Released \in {asked, NotAsked}
      BY DEF Released
    <2> QED
      BY <1>1, <1>2, <1>3, <1>7, <2>1, <2>2 DEF Closed, ListForm
  <1>8. CASE part = "providers"
    <2>1. form' = [form EXCEPT !["main"] = [Reset(@) EXCEPT !.saving = FALSE]] /\ reads' = WithRead("form") /\ asked' = asked
      BY <1>8 DEF FormSaved, ProviderSaved
    <2>2. [Reset(form["main"]) EXCEPT !.saving = FALSE] \in ListForm
      BY <1>3, ListConstants DEF Reset, ListForm
    <2> QED
      BY <1>1, <1>2, <1>3, <1>8, <2>1, <2>2 DEF Reset, ListForm
  <1>9. CASE part = "shortcuts"
    <2>1. form' = form /\ reads' = WithRead("form") /\ asked' = asked
      BY <1>9 DEF FormSaved, ShortcutSaved
    <2> QED
      BY <1>1, <1>2, <1>9, <2>1
  <1> QED
    BY <1>4, <1>5, <1>6, <1>7, <1>8, <1>9 DEF AllLists

LEMMA ListSavedInv ==
    ASSUME ListsInv, NEW i \in Under, FormSaved(i)
    PROVE  ListsInv'
  <1> DEFINE d == calls[i].dialog
  <1>1. /\ calls[i].stage = "ok" /\ calls[i].op \in {"create", "update"}
        /\ calls' = [calls EXCEPT ![i] = Over(@)]
        /\ UNCHANGED <<part, entries, list, made, version, seen, crossed, missed>>
    BY DEF FormSaved
  <1>2. /\ calls' \in Seq(ListCall)
        /\ i \in DOMAIN calls /\ DOMAIN calls' = DOMAIN calls
        /\ calls'[i].stage = "over"
        /\ Saves' = Saves \ {i}
        /\ OkCalls' = OkCalls \ {i}
        /\ Saves \subseteq DOMAIN calls
        /\ \A j \in DOMAIN calls :
             /\ j # i => calls'[j] = calls[j]
             /\ calls'[j].op = calls[j].op /\ calls'[j].id = calls[j].id
             /\ calls'[j].dialog = calls[j].dialog /\ calls'[j].from = calls[j].from
             /\ calls'[j].op # "create" => calls'[j].id \in DOMAIN entries
             /\ calls'[j].dialog = "edit" => part = "members" /\ calls'[j].op = "update"
             /\ calls'[j].op \in {"archive", "restore"} => part = "members"
             /\ calls'[j].op = "create" => calls'[j].from \in DOMAIN made
    BY <1>1, CallEnds
  <1>3. /\ d \in Dialogs
        /\ part # "members" => d = "main"
        /\ form' \in [Dialogs -> ListForm]
        /\ \A e \in Dialogs :
             /\ e # d => form'[e] = form[e]
             /\ form'[e].target \in {0, form[e].target} /\ form'[e].number = form[e].number
             /\ form'[e].open => form[e].open /\ form'[e].target = form[e].target
             /\ form'[e].done => form[e].done \/ (part = "tokens" /\ e = "main")
        /\ part # "shortcuts" => ~form'[d].open \/ form'[d].done
        /\ part = "shortcuts" => form' = form
        /\ asked' \in {asked, NotAsked}
    BY SavedForm
  <1>4. PICK then \in {"nothing", "form"} : /\ reads' = WithRead(then)
                                            /\ part = "shortcuts" => then = "form"
                                            /\ then = "form" => part \in {"webhooks", "providers", "shortcuts"}
    BY SavedForm
  <1>5. i \in Saves /\ d = calls[i].dialog
    BY <1>1, <1>2 DEF Saves
  <1> HIDE DEF d
  <1>6. /\ reads' \in Seq(ListRead)
        /\ \A r \in DOMAIN reads' : Len(reads'[r].answer) <= Len(entries') /\ reads'[r].version <= version'
        /\ part = "shortcuts" => FormReads' = FormReads \cup {Len(reads) + 1}
        /\ \A r \in DOMAIN reads' : (r \in DOMAIN reads /\ reads'[r].then = reads[r].then) \/ reads'[r].then = then
    BY <1>1, <1>4, ReadNumbers
  <1>7. ListsTypeOK'
    BY <1>1, <1>2, <1>3, <1>6 DEF ListsInv, ListsTypeOK
  <1>8. NumbersInv'
    <2>1. Len(entries) \in Nat
      BY LenProperties DEF ListsInv, ListsTypeOK
    <2>2. \A e \in Dialogs : form'[e].target <= Len(entries)
      BY <1>3, <2>1 DEF ListsInv, NumbersInv
    <2> QED
      BY <1>1, <1>2, <1>3, <1>6, <2>2 DEF ListsInv, NumbersInv
  <1>9. PartsInv'
    <2>1. \A r \in DOMAIN reads' : reads'[r].then = "form" => part \in {"webhooks", "providers", "shortcuts"}
      BY <1>4, <1>6 DEF ListsInv, PartsInv
    <2> QED
      BY <1>1, <1>2, <1>3, <2>1 DEF ListsInv, PartsInv, Dialogs
  \* No other save of this form is under way, nor for a shortcut the read after one.
  <1>10. \A j \in Saves' : /\ j \in Saves /\ calls'[j] = calls[j]
                           /\ calls[j].dialog \in Dialogs /\ calls[j].dialog # d
    BY <1>2, <1>5, ListElements DEF ListsInv, SavingInv, ListCall
  <1>11. part = "shortcuts" => FormReads = {} /\ Saves' = {} /\ form["main"].saving
    <2>1. part = "shortcuts" => \A j \in Saves : calls[j].dialog = "main"
      BY <1>2, ListElements DEF ListsInv, PartsInv, ListCall, Dialogs
    <2> QED
      BY <1>3, <1>5, <1>10, <2>1 DEF ListsInv, SavingInv
  <1>12. SavingInv'
    <2>1. \A j \in Saves' : form'[calls'[j].dialog].saving
      BY <1>3, <1>10 DEF ListsInv, SavingInv
    <2>2. \A j, k \in Saves' : calls'[j].dialog = calls'[k].dialog => j = k
      BY <1>10 DEF ListsInv, SavingInv
    <2>3. part = "shortcuts" => FormReads' = {Len(reads) + 1} /\ form'["main"].saving
      BY <1>3, <1>6, <1>11
    <2> QED
      BY <1>1, <1>11, <2>1, <2>2, <2>3 DEF SavingInv
  <1>13. MadeInv'
    <2>1. \A e \in Dialogs : form'[e].open => form'[e].number \in DOMAIN made
      BY <1>3 DEF ListsInv, MadeInv
    <2>2. ~missed => \A j \in Saves' : calls'[j].op = "create" /\ calls'[j].stage # "ok" => made[calls'[j].from] = 0
      BY <1>10 DEF ListsInv, MadeInv
    <2>3. ASSUME ~missed, form'["main"].open, ~form'["main"].done
          PROVE  \/ made[form'["main"].number] = 0
                 \/ \E j \in Saves' : /\ calls'[j].op = "create" /\ calls'[j].stage = "ok"
                                      /\ calls'[j].from = form'["main"].number
                 \/ part = "shortcuts" /\ FormReads' # {}
      <3>1. CASE part = "shortcuts"
        BY <1>6, <3>1
      <3>2. CASE part # "shortcuts"
        <4>1. d = "edit" /\ form'["main"] = form["main"]
          BY <1>3, <2>3, <3>2 DEF Dialogs
        <4>2. calls[i].op = "update"
          BY <1>2, <1>5, <4>1
        <4>3. \A j \in Saves : calls[j].op = "create" => j \in Saves'
          BY <1>2, <4>2
        <4> QED
          BY <1>10, <2>3, <3>2, <4>1, <4>3 DEF ListsInv, MadeInv
      <3> QED
        BY <3>1, <3>2
    <2> QED
      BY <1>1, <1>2, <2>1, <2>2, <2>3 DEF ListsInv, MadeInv
  <1>14. ListInv'
    <2>1. OkCalls' \subseteq OkCalls /\ \A j \in OkCalls' : calls'[j] = calls[j]
      BY <1>2 DEF OkCalls
    <2>2. reads \in Seq(ListRead)
      BY DEF ListsInv, ListsTypeOK
    <2> QED
      BY <1>1, <1>4, <2>1, <2>2, ReadAgain DEF ListsInv
  <1> QED
    BY <1>7, <1>8, <1>9, <1>12, <1>13, <1>14 DEF ListsInv

(***************************************************************************)
(* Replies to a confirmation.                                              *)
(***************************************************************************)
LEMMA ListNotChangedInv ==
    ASSUME ListsInv, NEW i \in Under, EntryNotChanged(i)
    PROVE  ListsInv'
  <1>1. /\ calls[i].stage = "failed" /\ calls[i].op \in {"delete", "archive", "restore"}
        /\ calls' = [calls EXCEPT ![i] = Over(@)]
        /\ reads' = IF part = "providers" THEN WithRead("asked") ELSE reads
        /\ UNCHANGED <<part, entries, list, form, made, version, seen, crossed, missed>>
    BY DEF EntryNotChanged
  <1>2. /\ calls' \in Seq(ListCall)
        /\ i \in DOMAIN calls /\ DOMAIN calls' = DOMAIN calls
        /\ calls'[i].stage = "over"
        /\ Saves' = Saves \ {i}
        /\ OkCalls' = OkCalls \ {i}
        /\ Saves \subseteq DOMAIN calls
        /\ \A j \in DOMAIN calls :
             /\ j # i => calls'[j] = calls[j]
             /\ calls'[j].op = calls[j].op /\ calls'[j].id = calls[j].id
             /\ calls'[j].dialog = calls[j].dialog /\ calls'[j].from = calls[j].from
             /\ calls'[j].op # "create" => calls'[j].id \in DOMAIN entries
             /\ calls'[j].dialog = "edit" => part = "members" /\ calls'[j].op = "update"
             /\ calls'[j].op \in {"archive", "restore"} => part = "members"
             /\ calls'[j].op = "create" => calls'[j].from \in DOMAIN made
    BY <1>1, CallEnds
  <1>3. \/ asked' \in {asked, NotAsked}
        \/ asked # NotAsked /\ asked' \in ListAsked /\ asked'.id = asked.id /\ asked'.op = asked.op
    <2>1. \/ asked' \in {asked, NotAsked}
          \/ Mine(i) /\ asked' = [asked EXCEPT !.busy = FALSE, !.call = 0]
      BY DEF EntryNotChanged
    <2>2. Mine(i) => asked # NotAsked /\ asked \in ListAsked
      BY DEF Mine, NotAsked, ListsInv, ListsTypeOK
    <2>3. asked \in ListAsked => /\ [asked EXCEPT !.busy = FALSE, !.call = 0] \in ListAsked
                                 /\ [asked EXCEPT !.busy = FALSE, !.call = 0].id = asked.id
                                 /\ [asked EXCEPT !.busy = FALSE, !.call = 0].op = asked.op
      BY DEF ListAsked
    <2> QED
      BY <2>1, <2>2, <2>3
  <1>4. Saves' = Saves /\ OkCalls' = OkCalls
    BY <1>1, <1>2 DEF Saves, OkCalls
  <1>5. \A j \in Saves \cup OkCalls : calls'[j] = calls[j]
    BY <1>1, <1>2 DEF Saves, OkCalls
  <1>6. /\ reads' \in Seq(ListRead)
        /\ \A r \in DOMAIN reads' : Len(reads'[r].answer) <= Len(entries') /\ reads'[r].version <= version'
        /\ part = "shortcuts" => FormReads' = FormReads
        /\ \A r \in DOMAIN reads' : (r \in DOMAIN reads /\ reads'[r].then = reads[r].then) \/ reads'[r].then = "asked"
    <2>1. CASE part = "providers"
      BY <1>1, <2>1, ReadNumbers
    <2>2. CASE part # "providers"
      BY <1>1, <2>2 DEF ListsInv, ListsTypeOK, NumbersInv, FormReads, Reading
    <2> QED
      BY <2>1, <2>2
  <1>7. ListsTypeOK'
    BY <1>1, <1>2, <1>3, <1>6 DEF ListsInv, ListsTypeOK
  <1>8. NumbersInv' /\ PartsInv'
    BY <1>1, <1>2, <1>3, <1>6 DEF ListsInv, NumbersInv, PartsInv
  <1>9. SavingInv' /\ MadeInv'
    BY <1>1, <1>2, <1>4, <1>5, <1>6, FormsStay DEF ListsInv
  <1>10. ListInv'
    <2>1. CASE part = "providers"
      <3>1. reads' = WithRead("asked") /\ reads \in Seq(ListRead)
        BY <1>1, <2>1 DEF ListsInv, ListsTypeOK
      <3> QED
        BY <1>1, <1>4, <1>5, <3>1, ReadAgain DEF ListsInv
    <2>2. CASE part # "providers"
      BY <1>1, <1>4, <1>5, <2>2, ListStays DEF ListsInv
    <2> QED
      BY <2>1, <2>2
  <1> QED
    BY <1>7, <1>8, <1>9, <1>10 DEF ListsInv

\* A row that is taken out of the list is gone, and the others stay.
LEMMA RemovedRow ==
    ASSUME ListsInv, NEW i \in DOMAIN calls
    PROVE  /\ Removed(calls[i]) \in Seq(ListEntry)
           /\ Len(Removed(calls[i])) = Len(list)
           /\ \A k \in DOMAIN list : Removed(calls[i])[k] = IF k = calls[i].id THEN Gone ELSE list[k]
  <1>1. list \in Seq(ListEntry) /\ DOMAIN list = 1 .. Len(list)
    BY LenProperties DEF ListsInv, ListsTypeOK
  <1>2. CASE Present(calls[i].id)
    <2>1. calls[i].id \in 1 .. Len(list) /\ Removed(calls[i]) = [list EXCEPT ![calls[i].id] = Gone]
      BY <1>1, <1>2 DEF Removed, Present
    <2> QED
      BY <1>1, <2>1, ListConstants, ExceptSeq
  <1>3. CASE ~Present(calls[i].id)
    <2>1. Removed(calls[i]) = list
      BY <1>3 DEF Removed
    <2> QED
      BY <1>1, <1>3, <2>1 DEF Present
  <1> QED
    BY <1>2, <1>3

\* A deletion that is taken out leaves a list that was good a good one.
LEMMA ListTakenOutInv ==
    ASSUME ListsInv, NEW i \in Under, EntryChanged(i), part \in {"webhooks", "tokens"}
    PROVE  ListInv'
  <1>1. /\ calls[i].stage = "ok" /\ calls[i].op \in {"delete", "archive", "restore"}
        /\ calls' = [calls EXCEPT ![i] = Over(@)]
        /\ UNCHANGED <<part, entries, form, made, version, crossed, missed>>
        /\ list' = Removed(calls[i]) /\ reads' = reads
        /\ seen' = IF version > seen THEN version ELSE seen
    BY DEF EntryChanged, WebhookDeleted
  <1>2. /\ calls' \in Seq(ListCall)
        /\ i \in DOMAIN calls /\ DOMAIN calls' = DOMAIN calls
        /\ calls'[i].stage = "over"
        /\ Saves' = Saves \ {i}
        /\ OkCalls' = OkCalls \ {i}
        /\ Saves \subseteq DOMAIN calls
        /\ \A j \in DOMAIN calls :
             /\ j # i => calls'[j] = calls[j]
             /\ calls'[j].op = calls[j].op /\ calls'[j].id = calls[j].id
             /\ calls'[j].dialog = calls[j].dialog /\ calls'[j].from = calls[j].from
             /\ calls'[j].op # "create" => calls'[j].id \in DOMAIN entries
             /\ calls'[j].dialog = "edit" => part = "members" /\ calls'[j].op = "update"
             /\ calls'[j].op \in {"archive", "restore"} => part = "members"
             /\ calls'[j].op = "create" => calls'[j].from \in DOMAIN made
    BY <1>1, CallEnds
  <1>3. calls[i].op = "delete" /\ part # "members" /\ Correcting(calls[i])
    BY <1>1, <1>2 DEF ListsInv, PartsInv, Correcting
  <1>4. version \in Nat /\ seen' = version /\ seen <= version
    BY <1>1 DEF ListsInv, ListsTypeOK
  <1>5. entries[calls[i].id] = Gone /\ calls[i].id \in DOMAIN entries
    BY <1>1, <1>2, <1>3 DEF ListsInv, ListInv
  <1>6. Served' = Served /\ Reading' = Reading
    BY <1>1 DEF Served, Reading
  <1>7. \A r \in Served : reads[r].version \in Nat /\ (reads[r].version = version \/ reads[r].version < version)
    BY <1>4, ListElements DEF ListsInv, NumbersInv, Served, ListRead
  <1>8. \A r \in Served : reads[r].version = version => Good(reads[r].answer)'
    BY <1>1 DEF ListsInv, ListInv, Good
  <1>9. ReadComes => ReadComes'
    BY <1>1, <1>2, <1>3 DEF ReadComes, Correcting
  <1>10. Good(list) => Good(list)'
    <2> SUFFICES ASSUME Good(list) PROVE Good(list)'
      OBVIOUS
    <2>1. Len(list) = Len(entries) /\ DOMAIN list = DOMAIN entries
      BY LenProperties DEF ListsInv, ListsTypeOK, Good
    <2>2. Len(list') = Len(list) /\ \A k \in DOMAIN list : list'[k] = IF k = calls[i].id THEN Gone ELSE list[k]
      BY <1>1, <1>2, RemovedRow
    <2>3. \A k \in DOMAIN entries : k # calls[i].id => (TakenOut(k) => TakenOut(k)')
      BY <1>1, <1>2 DEF TakenOut, Correcting
    <2>4. \A k \in DOMAIN entries : list'[k] = entries[k] \/ TakenOut(k)'
      BY <1>5, <2>1, <2>2, <2>3 DEF Good
    <2> QED
      BY <1>1, <2>1, <2>2, <2>4 DEF Good
  <1>11. Settling => Settling'
    <2> SUFFICES ASSUME Settling PROVE Settling'
      OBVIOUS
    <2>1. CASE \E r \in Served : reads[r].version < version
      BY <1>1, <1>4, <1>6, <2>1 DEF Settling
    <2>2. CASE \A r \in Served : ~(reads[r].version < version)
      <3>1. \A r \in Served : Good(reads[r].answer)'
        BY <1>7, <1>8, <2>2
      <3>2. CASE ReadComes
        BY <1>9, <3>2 DEF Settling
      <3>3. CASE Served # {}
        <4>1. PICK r \in Served : TRUE
          BY <3>3
        <4>2. \A q \in Served' : reads'[q].version >= reads'[r].version => Good(reads[q].answer)'
          BY <1>6, <3>1
        <4> QED
          BY <1>6, <4>1, <4>2 DEF Settling
      <3>4. CASE ~ReadComes /\ Served = {}
        <4>1. Good(list)
          BY <3>4 DEF Settling
        <4> QED
          BY <1>6, <1>10, <3>4, <4>1 DEF Settling
      <3> QED
        BY <3>2, <3>3, <3>4
    <2> QED
      BY <2>1, <2>2
  <1>12. \A j \in DOMAIN calls' : calls'[j].stage = "ok" /\ Correcting(calls'[j]) => entries[calls'[j].id] = Gone
    BY <1>2 DEF ListsInv, ListInv, Correcting
  <1> QED
    BY <1>1, <1>3, <1>6, <1>11, <1>12 DEF ListsInv, ListInv, Correcting

LEMMA ListChangedInv ==
    ASSUME ListsInv, NEW i \in Under, EntryChanged(i)
    PROVE  ListsInv'
  <1>1. /\ calls[i].stage = "ok" /\ calls[i].op \in {"delete", "archive", "restore"}
        /\ calls' = [calls EXCEPT ![i] = Over(@)]
        /\ UNCHANGED <<part, entries, form, made, version, crossed, missed>>
    BY DEF EntryChanged
  <1>2. /\ calls' \in Seq(ListCall)
        /\ i \in DOMAIN calls /\ DOMAIN calls' = DOMAIN calls
        /\ calls'[i].stage = "over"
        /\ Saves' = Saves \ {i}
        /\ OkCalls' = OkCalls \ {i}
        /\ Saves \subseteq DOMAIN calls
        /\ \A j \in DOMAIN calls :
             /\ j # i => calls'[j] = calls[j]
             /\ calls'[j].op = calls[j].op /\ calls'[j].id = calls[j].id
             /\ calls'[j].dialog = calls[j].dialog /\ calls'[j].from = calls[j].from
             /\ calls'[j].op # "create" => calls'[j].id \in DOMAIN entries
             /\ calls'[j].dialog = "edit" => part = "members" /\ calls'[j].op = "update"
             /\ calls'[j].op \in {"archive", "restore"} => part = "members"
             /\ calls'[j].op = "create" => calls'[j].from \in DOMAIN made
    BY <1>1, CallEnds
  <1>3. Saves' = Saves /\ \A j \in Saves : calls'[j] = calls[j]
    BY <1>1, <1>2 DEF Saves
  <1>4. OkCalls' \subseteq OkCalls /\ \A j \in OkCalls' : calls'[j] = calls[j]
    BY <1>2 DEF OkCalls
  <1>5. reads \in Seq(ListRead) /\ part \in AllLists
    BY DEF ListsInv, ListsTypeOK
  <1>6. CASE part \in {"webhooks", "tokens"}
    <2>1. /\ list' = Removed(calls[i]) /\ reads' = reads
          /\ seen' = IF version > seen THEN version ELSE seen
          /\ asked' \in {asked, NotAsked}
      BY <1>6 DEF EntryChanged, WebhookDeleted
    <2>2. list' \in Seq(ListEntry) /\ Len(list') = Len(list)
      BY <1>2, <2>1, RemovedRow
    <2>3. seen' \in 0 .. version
      BY <2>1 DEF ListsInv, ListsTypeOK
    <2>4. ListsTypeOK'
      BY <1>1, <1>2, <2>1, <2>2, <2>3 DEF ListsInv, ListsTypeOK
    <2>5. NumbersInv' /\ PartsInv'
      BY <1>1, <1>2, <2>1, <2>2 DEF ListsInv, NumbersInv, PartsInv
    <2>6. FormReads' = FormReads
      BY <2>1 DEF FormReads, Reading
    <2>7. SavingInv' /\ MadeInv'
      BY <1>1, <1>2, <1>3, <2>6, FormsStay DEF ListsInv
    <2> QED
      BY <1>6, <2>4, <2>5, <2>7, ListTakenOutInv DEF ListsInv
  <1>7. CASE part \in {"members", "providers", "shortcuts"}
    <2>1. PICK then \in {"nothing", "asked"} : reads' = WithRead(then)
      BY <1>7 DEF EntryChanged, MemberChanged, ProviderDeleted
    <2>2. asked' \in {asked, NotAsked}
      BY <1>7 DEF EntryChanged, MemberChanged, ProviderDeleted, Released
    <2>3. list' = list /\ seen' = seen
      BY <1>7 DEF EntryChanged, MemberChanged, ProviderDeleted
    <2>4. /\ reads' \in Seq(ListRead)
          /\ \A r \in DOMAIN reads' : Len(reads'[r].answer) <= Len(entries') /\ reads'[r].version <= version'
          /\ part = "shortcuts" => FormReads' = FormReads
          /\ \A r \in DOMAIN reads' : (r \in DOMAIN reads /\ reads'[r].then = reads[r].then) \/ reads'[r].then = then
      BY <1>1, <2>1, ReadNumbers
    <2>5. ListsTypeOK'
      BY <1>1, <1>2, <2>2, <2>3, <2>4 DEF ListsInv, ListsTypeOK
    <2>6. NumbersInv' /\ PartsInv'
      BY <1>1, <1>2, <2>2, <2>3, <2>4 DEF ListsInv, NumbersInv, PartsInv
    <2>7. SavingInv' /\ MadeInv'
      BY <1>1, <1>2, <1>3, <2>4, FormsStay DEF ListsInv
    <2>8. ListInv'
      BY <1>1, <1>4, <1>5, <2>1, <2>3, ReadAgain DEF ListsInv
    <2> QED
      BY <2>5, <2>6, <2>7, <2>8 DEF ListsInv
  <1> QED
    BY <1>5, <1>6, <1>7 DEF AllLists

(***************************************************************************)
(* The list is read and shown.                                             *)
(***************************************************************************)
LEMMA ListServedInv ==
    ASSUME ListsInv, NEW r \in Reading, ListServed(r)
    PROVE  ListsInv'
  <1>1. /\ reads[r].stage = "sent" /\ r \in DOMAIN reads
        /\ reads' = [reads EXCEPT ![r].stage = "served", ![r].answer = entries, ![r].version = version]
        /\ UNCHANGED <<part, entries, list, form, calls, asked, made, version, seen, crossed, missed>>
    BY DEF ListServed, Reading
  <1>2. /\ reads' \in Seq(ListRead) /\ DOMAIN reads' = DOMAIN reads
        /\ reads'[r].stage = "served" /\ reads'[r].answer = entries /\ reads'[r].version = version
        /\ \A q \in DOMAIN reads : q # r => reads'[q] = reads[q]
        /\ \A q \in DOMAIN reads : reads'[q].then = reads[q].then
    <2>1. /\ reads \in Seq(ListRead) /\ DOMAIN reads = 1 .. Len(reads)
          /\ r \in 1 .. Len(reads) /\ reads[r] \in ListRead
      BY <1>1, ListElements, LenProperties DEF ListsInv, ListsTypeOK
    <2> DEFINE x == [reads[r] EXCEPT !.stage = "served", !.answer = entries, !.version = version]
    <2>2. x \in ListRead /\ x.stage = "served" /\ x.answer = entries /\ x.version = version /\ x.then = reads[r].then
      BY <2>1 DEF ListRead, ListsInv, ListsTypeOK
    <2>3. reads' = [reads EXCEPT ![r] = x]
      BY <1>1, <2>1
    <2> HIDE DEF x
    <2>4. reads' \in Seq(ListRead) /\ DOMAIN reads' = DOMAIN reads /\ reads'[r] = x
      BY <2>1, <2>2, <2>3, ExceptSeq
    <2>5. \A q \in DOMAIN reads : q # r => reads'[q] = reads[q]
      BY <1>1, <2>1, <2>3
    <2> QED
      BY <2>2, <2>4, <2>5
  <1>3. version \in Nat /\ seen <= version /\ Len(entries) \in Nat
    BY LenProperties DEF ListsInv, ListsTypeOK
  <1>4. ListsTypeOK'
    BY <1>1, <1>2 DEF ListsInv, ListsTypeOK
  <1>5. NumbersInv' /\ PartsInv'
    <2>1. \A q \in DOMAIN reads' : Len(reads'[q].answer) <= Len(entries) /\ reads'[q].version <= version
      BY <1>2, <1>3 DEF ListsInv, NumbersInv
    <2>2. NumbersInv'
      BY <1>1, <2>1 DEF ListsInv, NumbersInv
    <2> QED
      BY <1>1, <1>2, <2>2 DEF ListsInv, PartsInv
  <1>6. /\ FormReads' = FormReads /\ Reading' = Reading /\ Served' = Served \cup {r}
        /\ \A q \in Served : reads'[q] = reads[q]
    BY <1>1, <1>2 DEF FormReads, Reading, Served
  <1>7. Saves' = Saves
    BY <1>1 DEF Saves, Under
  <1>8. SavingInv' /\ MadeInv'
    BY <1>1, <1>6, <1>7, FormsStay DEF ListsInv, MadeInv
  <1>9. ListInv'
    <2>1. \A q \in Served' : reads'[q].version = version => reads'[q].answer = entries
      BY <1>2, <1>6 DEF ListsInv, ListInv
    <2>2. \A q \in Served' : reads'[q].version >= version => reads'[q].version = version
      <3>1. \A q \in Served' : q \in DOMAIN reads'
        BY <1>2 DEF Served
      <3>2. \A q \in DOMAIN reads' : reads'[q].version \in Nat /\ reads'[q].version <= version
        <4>1. \A q \in DOMAIN reads' : reads'[q] \in ListRead
          BY <1>4, ElementOfSeq, LenProperties DEF ListsTypeOK
        <4>2. \A q \in DOMAIN reads' : reads'[q].version <= version
          BY <1>1, <1>5 DEF NumbersInv
        <4> QED
          BY <4>1, <4>2 DEF ListRead
      <3> QED
        BY <1>3, <3>1, <3>2
    <2>3. \A q \in Served' : reads'[q].version >= reads'[r].version => Len(reads'[q].answer) = Len(entries) /\ reads'[q].answer = entries
      BY <1>2, <2>1, <2>2
    <2>4. Settling'
      BY <1>1, <1>6, <2>3 DEF Settling, Good
    <2>5. \A j \in DOMAIN calls : calls[j].stage = "ok" /\ Correcting(calls[j]) => entries[calls[j].id] = Gone
      BY DEF ListsInv, ListInv
    <2>6. part = "members" => \A q \in Served' : reads'[q].version >= seen
      BY <1>2, <1>3, <1>6 DEF ListsInv, ListInv
    <2> QED
      BY <1>1, <1>6, <2>1, <2>4, <2>5, <2>6 DEF ListsInv, ListInv, Correcting
  <1> QED
    BY <1>4, <1>5, <1>8, <1>9 DEF ListsInv

\* What the handler that awaited the list does to its form.
LEMMA FormAfterRead ==
    ASSUME ListsInv, NEW r \in DOMAIN reads
    PROVE  LET f == FormAfter(reads[r].then) IN
           /\ f \in [Dialogs -> ListForm]
           /\ \A e \in Dialogs :
                /\ f[e].done = form[e].done /\ f[e].number = form[e].number
                /\ f[e].target \in {0, form[e].target}
                /\ f[e].open => form[e].open /\ f[e].target = form[e].target
                /\ f[e].saving = form[e].saving \/ (part = "shortcuts" /\ reads[r].then = "form")
           /\ part = "shortcuts" /\ reads[r].then = "form" => ~f["main"].open
  <1> DEFINE f == FormAfter(reads[r].then)
  <1>1. form \in [Dialogs -> ListForm] /\ "main" \in Dialogs /\ form["main"] \in ListForm
    BY DEF ListsInv, ListsTypeOK, Dialogs
  <1>2. reads[r].then = "form" => part \in {"webhooks", "providers", "shortcuts"}
    BY DEF ListsInv, PartsInv
  <1>3. Reset(form["main"]) \in ListForm /\ Closed(form["main"]) \in ListForm
    BY <1>1, ListConstants DEF Reset, Closed, ListForm
  <1>4. CASE reads[r].then # "form"
    <2>1. f = form
      BY <1>4 DEF FormAfter
    <2> QED
      BY <1>1, <1>4, <2>1
  <1>5. CASE reads[r].then = "form" /\ part = "webhooks"
    <2>1. f = [form EXCEPT !["main"] = Closed(form["main"])]
      BY <1>1, <1>5 DEF FormAfter
    <2>2. Closed(form["main"]).saving = form["main"].saving /\ Closed(form["main"]).done = form["main"].done
          /\ Closed(form["main"]).number = form["main"].number /\ Closed(form["main"]).target = form["main"].target
          /\ ~Closed(form["main"]).open
      BY <1>1 DEF Closed, ListForm
    <2> QED
      BY <1>1, <1>3, <1>5, <2>1, <2>2
  <1>6. CASE reads[r].then = "form" /\ part = "providers"
    <2>1. f = [form EXCEPT !["main"] = Reset(form["main"])]
      BY <1>1, <1>6 DEF FormAfter
    <2>2. Reset(form["main"]).saving = form["main"].saving /\ Reset(form["main"]).done = form["main"].done
          /\ Reset(form["main"]).number = form["main"].number /\ Reset(form["main"]).target = 0
          /\ ~Reset(form["main"]).open
      BY <1>1 DEF Reset, ListForm
    <2> QED
      BY <1>1, <1>3, <1>6, <2>1, <2>2
  <1>7. CASE reads[r].then = "form" /\ part = "shortcuts"
    <2> DEFINE x == [Reset(form["main"]) EXCEPT !.saving = FALSE]
    <2>1. f = [form EXCEPT !["main"] = x]
      BY <1>1, <1>7 DEF FormAfter
    <2>2. x \in ListForm /\ x.done = form["main"].done /\ x.number = form["main"].number /\ x.target = 0 /\ ~x.open
      BY <1>1, ListConstants DEF Reset, ListForm
    <2> HIDE DEF x
    <2> QED
      BY <1>1, <1>7, <2>1, <2>2
  <1> QED
    BY <1>2, <1>4, <1>5, <1>6, <1>7

LEMMA ListReplyInv ==
    ASSUME ListsInv, NEW r \in Reading, ListReply(r)
    PROVE  ListsInv'
  <1> DEFINE f == FormAfter(reads[r].then)
  <1>1. /\ reads[r].stage = "served" /\ r \in DOMAIN reads
        /\ reads' = [reads EXCEPT ![r] = Over(@)]
        /\ list' = reads[r].answer
        /\ crossed' = (crossed \/ reads[r].version < seen)
        /\ seen' = IF reads[r].version > seen THEN reads[r].version ELSE seen
        /\ form' = f /\ asked' \in {asked, NotAsked}
        /\ UNCHANGED <<part, entries, calls, made, version, missed>>
    BY DEF ListReply, Reading, AskedAfter
  <1>2. /\ reads' \in Seq(ListRead) /\ DOMAIN reads' = DOMAIN reads
        /\ reads'[r].stage = "over"
        /\ \A q \in DOMAIN reads :
             /\ q # r => reads'[q] = reads[q]
             /\ reads'[q].answer = reads[q].answer /\ reads'[q].version = reads[q].version
             /\ reads'[q].then = reads[q].then
    BY <1>1, ReadEnds DEF ListsInv, ListsTypeOK
  <1>3. /\ f \in [Dialogs -> ListForm]
        /\ \A e \in Dialogs :
             /\ f[e].done = form[e].done /\ f[e].number = form[e].number
             /\ f[e].target \in {0, form[e].target}
             /\ f[e].open => form[e].open /\ f[e].target = form[e].target
             /\ f[e].saving = form[e].saving \/ (part = "shortcuts" /\ reads[r].then = "form")
        /\ part = "shortcuts" /\ reads[r].then = "form" => ~f["main"].open
    BY <1>1, FormAfterRead
  <1> HIDE DEF f
  <1>4. reads[r].answer \in Seq(ListEntry) /\ reads[r].version \in Nat /\ reads[r].version <= version
    BY <1>1, ListElements DEF ListsInv, ListRead, NumbersInv
  <1>5. seen \in Nat /\ version \in Nat /\ seen <= version /\ Len(entries) \in Nat
    BY LenProperties DEF ListsInv, ListsTypeOK
  <1>6. ListsTypeOK'
    <2>1. seen' \in 0 .. version /\ crossed' \in BOOLEAN
      BY <1>1, <1>4, <1>5
    <2> QED
      BY <1>1, <1>2, <1>3, <1>4, <2>1 DEF ListsInv, ListsTypeOK
  <1>7. NumbersInv'
    <2>1. \A e \in Dialogs : form'[e].target <= Len(entries)
      BY <1>1, <1>3, <1>5 DEF ListsInv, NumbersInv
    <2>2. Len(list') <= Len(entries)
      BY <1>1 DEF ListsInv, NumbersInv
    <2> QED
      BY <1>1, <1>2, <2>1, <2>2 DEF ListsInv, NumbersInv
  <1>8. PartsInv'
    BY <1>1, <1>2, <1>3 DEF ListsInv, PartsInv, Dialogs
  <1>9. /\ Reading' = Reading \ {r} /\ Served' = Served \ {r} /\ r \in Served
        /\ FormReads' = FormReads \ {r} /\ Saves' = Saves /\ OkCalls' = OkCalls
        /\ \A q \in Served' : q \in Served /\ reads'[q] = reads[q]
    BY <1>1, <1>2 DEF Reading, Served, FormReads, Saves, Under, OkCalls
  <1>10. part = "shortcuts" => IF reads[r].then = "form" THEN Saves = {} /\ FormReads' = {} ELSE FormReads' = FormReads
    <2>1. reads[r].then = "form" => r \in FormReads
      BY <1>1 DEF FormReads, Reading
    <2>2. reads[r].then # "form" => r \notin FormReads
      BY DEF FormReads
    <2> QED
      BY <1>9, <2>1, <2>2 DEF ListsInv, SavingInv
  <1>11. SavingInv'
    <2>1. \A i \in Saves : calls[i].dialog \in Dialogs
      BY ListElements DEF ListsInv, Saves, Under, ListCall
    <2>2. \A i \in Saves : form'[calls[i].dialog].saving
      BY <1>1, <1>3, <1>10, <2>1 DEF ListsInv, SavingInv
    <2>3. part = "shortcuts" => /\ \A p, q \in FormReads' : p = q
                                /\ FormReads' # {} => form'["main"].saving /\ Saves = {}
      BY <1>1, <1>3, <1>9, <1>10 DEF ListsInv, SavingInv, Dialogs
    <2> QED
      BY <1>1, <1>9, <2>2, <2>3 DEF ListsInv, SavingInv
  <1>12. MadeInv'
    <2>1. \A e \in Dialogs : form'[e].open => form'[e].number \in DOMAIN made
      BY <1>1, <1>3 DEF ListsInv, MadeInv
    <2>2. form'["main"].open /\ ~form'["main"].done =>
            /\ form["main"].open /\ ~form["main"].done /\ form'["main"].number = form["main"].number
            /\ part = "shortcuts" => FormReads' = FormReads
      BY <1>1, <1>3, <1>10 DEF Dialogs
    <2> QED
      BY <1>1, <1>9, <2>1, <2>2 DEF ListsInv, MadeInv
  <1>13. ListInv'
    <2>1. \A k : TakenOut(k)' <=> TakenOut(k)
      BY <1>1 DEF TakenOut, Correcting
    <2>2. Good(reads[r].answer) => Good(list)'
      BY <1>1, <2>1 DEF Good
    <2>3. \A q \in Served' : Good(reads[q].answer) <=> Good(reads[q].answer)'
      BY <1>1, <1>2, <1>9, <2>1 DEF Good
    <2>4. ReadComes => ReadComes'
      BY <1>1, <1>2 DEF ReadComes, Correcting
    <2>5. \A q \in Served : reads[q].version \in Nat
      BY ListElements DEF ListsInv, Served, ListRead
    <2>6. Settling => crossed' \/ Settling'
      <3> SUFFICES ASSUME Settling, ~(reads[r].version < seen) PROVE Settling'
        BY <1>1
      <3>1. seen' = reads[r].version
        BY <1>1, <1>4, <1>5
      <3>2. CASE ReadComes
        BY <2>4, <3>2 DEF Settling
      <3>3. CASE \E q \in Served' : reads[q].version < reads[r].version
        BY <1>9, <3>1, <3>3 DEF Settling
      <3>4. CASE ~ReadComes /\ \A q \in Served' : ~(reads[q].version < reads[r].version)
        <4>1. \A q \in Served' : ~(reads[q].version < seen)
          BY <1>4, <1>5, <1>9, <2>5, <3>4
        <4>2. ~\E q \in Served : reads[q].version < seen
          BY <1>9, <4>1
        <4>3. CASE \E p \in Served : \A q \in Served : reads[q].version >= reads[p].version => Good(reads[q].answer)
          <5>1. PICK p \in Served : \A q \in Served : reads[q].version >= reads[p].version => Good(reads[q].answer)
            BY <4>3
          <5>2. CASE p = r
            <6>1. Good(reads[r].answer) /\ \A q \in Served' : Good(reads[q].answer)
              BY <1>4, <1>9, <2>5, <3>4, <5>1, <5>2
            <6> QED
              BY <1>9, <2>2, <2>3, <6>1 DEF Settling
          <5>3. CASE p # r
            <6>1. p \in Served' /\ \A q \in Served' : reads'[q].version >= reads'[p].version => Good(reads[q].answer)'
              BY <1>9, <2>3, <5>1, <5>3
            <6> QED
              BY <1>9, <6>1 DEF Settling
          <5> QED
            BY <5>2, <5>3
        <4>4. CASE Good(list) /\ \A q \in Served : Good(reads[q].answer)
          BY <1>9, <2>2, <2>3, <4>4 DEF Settling
        <4> QED
          BY <3>4, <4>2, <4>3, <4>4 DEF Settling
      <3> QED
        BY <3>2, <3>3, <3>4
    <2>7. part = "members" => ~(reads[r].version < seen) /\ Served' = {}
      <3>1. Served \subseteq Reading
        BY DEF Served, Reading
      <3> QED
        BY <1>4, <1>5, <1>9, <3>1 DEF ListsInv, ListInv
    <2>8. part = "members" => ~crossed' /\ \A q \in Served' : reads'[q].version >= seen'
      BY <1>1, <2>7 DEF ListsInv, ListInv
    <2>9. crossed => crossed'
      BY <1>1
    <2>10. \A j \in DOMAIN calls : calls[j].stage = "ok" /\ Correcting(calls[j]) => entries[calls[j].id] = Gone
      BY DEF ListsInv, ListInv
    <2>11. missed \/ crossed' \/ Settling'
      BY <2>6, <2>9 DEF ListsInv, ListInv
    <2>12. \A q \in Served' : reads'[q].version = version => reads'[q].answer = entries
      BY <1>9 DEF ListsInv, ListInv
    <2>13. part = "members" => \A p, q \in Reading' : p = q
      BY <1>9 DEF ListsInv, ListInv
    <2> QED
      BY <1>1, <2>8, <2>10, <2>11, <2>12, <2>13 DEF ListInv, Correcting
  <1> QED
    BY <1>6, <1>7, <1>8, <1>11, <1>12, <1>13 DEF ListsInv

LEMMA ListFailsInv ==
    ASSUME ListsInv, NEW r \in Reading, ListFails(r)
    PROVE  ListsInv'
  <1>1. /\ r \in DOMAIN reads
        /\ reads' = [reads EXCEPT ![r] = Over(@)]
        /\ missed' = TRUE
        /\ asked' \in {asked, NotAsked}
        /\ UNCHANGED <<part, entries, list, calls, made, version, seen, crossed>>
    BY DEF ListFails, Reading, AskedAfter
  <1>2. /\ reads' \in Seq(ListRead) /\ DOMAIN reads' = DOMAIN reads
        /\ reads'[r].stage = "over"
        /\ \A q \in DOMAIN reads :
             /\ q # r => reads'[q] = reads[q]
             /\ reads'[q].answer = reads[q].answer /\ reads'[q].version = reads[q].version
             /\ reads'[q].then = reads[q].then
    BY <1>1, ReadEnds DEF ListsInv, ListsTypeOK
  <1>3. /\ form' \in [Dialogs -> ListForm]
        /\ \A e \in Dialogs :
             /\ form'[e].done = form[e].done /\ form'[e].number = form[e].number
             /\ form'[e].target \in {0, form[e].target}
             /\ form'[e].open => form[e].open /\ form'[e].target = form[e].target
             /\ form'[e].saving = form[e].saving \/ (part = "shortcuts" /\ reads[r].then = "form")
    <2>1. form \in [Dialogs -> ListForm] /\ "main" \in Dialogs /\ form["main"] \in ListForm
      BY DEF ListsInv, ListsTypeOK, Dialogs
    <2>2. CASE part = "providers"
      <3>1. form' = FormAfter(reads[r].then)
        BY <2>2 DEF ListFails
      <3> QED
        BY <1>1, <2>2, <3>1, FormAfterRead
    <2>3. CASE part = "shortcuts" /\ reads[r].then = "form"
      <3>1. form' = [form EXCEPT !["main"] = [form["main"] EXCEPT !.saving = FALSE]]
        BY <2>1, <2>3 DEF ListFails
      <3>2. [form["main"] EXCEPT !.saving = FALSE] \in ListForm
        BY <2>1 DEF ListForm
      <3> QED
        BY <2>1, <2>3, <3>1, <3>2 DEF ListForm
    <2>4. CASE part # "providers" /\ ~(part = "shortcuts" /\ reads[r].then = "form")
      <3>1. form' = form
        BY <2>4 DEF ListFails
      <3> QED
        BY <2>1, <3>1
    <2> QED
      BY <2>2, <2>3, <2>4
  <1>4. ListsTypeOK'
    BY <1>1, <1>2, <1>3 DEF ListsInv, ListsTypeOK
  <1>5. NumbersInv'
    <2>1. Len(entries) \in Nat
      BY LenProperties DEF ListsInv, ListsTypeOK
    <2>2. \A e \in Dialogs : form'[e].target <= Len(entries)
      BY <1>3, <2>1 DEF ListsInv, NumbersInv
    <2> QED
      BY <1>1, <1>2, <2>2 DEF ListsInv, NumbersInv
  <1>6. PartsInv'
    BY <1>1, <1>2, <1>3 DEF ListsInv, PartsInv, Dialogs
  <1>7. /\ Reading' = Reading \ {r} /\ Served' = Served \ {r}
        /\ FormReads' = FormReads \ {r} /\ Saves' = Saves
        /\ \A q \in Served' : q \in Served /\ reads'[q] = reads[q]
    BY <1>1, <1>2 DEF Reading, Served, FormReads, Saves, Under
  <1>8. SavingInv'
    <2>1. \A i \in Saves : calls[i].dialog \in Dialogs
      BY ListElements DEF ListsInv, Saves, Under, ListCall
    <2>2. part = "shortcuts" /\ reads[r].then = "form" => Saves = {} /\ FormReads' = {}
      <3>1. reads[r].then = "form" => r \in FormReads
        BY DEF FormReads
      <3> QED
        BY <1>7, <3>1 DEF ListsInv, SavingInv
    <2>3. \A i \in Saves : form'[calls[i].dialog].saving
      BY <1>3, <2>1, <2>2 DEF ListsInv, SavingInv
    <2>4. part = "shortcuts" => /\ \A p, q \in FormReads' : p = q
                                /\ FormReads' # {} => form'["main"].saving /\ Saves = {}
      BY <1>3, <1>7, <2>2 DEF ListsInv, SavingInv, Dialogs
    <2> QED
      BY <1>1, <1>7, <2>3, <2>4 DEF ListsInv, SavingInv
  <1>9. MadeInv'
    <2>1. \A e \in Dialogs : form'[e].open => form'[e].number \in DOMAIN made
      BY <1>3 DEF ListsInv, MadeInv
    <2> QED
      BY <1>1, <2>1 DEF ListsInv, MadeInv
  <1>10. ListInv'
    BY <1>1, <1>7 DEF ListsInv, ListInv, Correcting
  <1> QED
    BY <1>4, <1>5, <1>6, <1>8, <1>9, <1>10 DEF ListsInv
-----------------------------------------------------------------------------
LEMMA ListsStepInv == ListsInv /\ [ListsNext]_listVars => ListsInv'
  <1> SUFFICES ASSUME ListsInv, [ListsNext]_listVars PROVE ListsInv'
    OBVIOUS
  <1>1. CASE UNCHANGED listVars
    BY <1>1 DEF listVars, ListsInv, ListsTypeOK, NumbersInv, PartsInv, SavingInv, MadeInv, ListInv,
                Saves, FormReads, Under, Reading, Served, Settling, ReadComes, Good, TakenOut, Correcting
  <1>2. CASE OpenForm(0) \/ \E i \in DOMAIN list : OpenForm(i)
    <2>1. \A i \in DOMAIN list : i \in Nat
      BY LenProperties DEF ListsInv, ListsTypeOK
    <2> QED
      BY <1>2, <2>1, ListOpenInv
  <1>3. CASE \E d \in Dialogs : SaveForm(d) \/ CloseForm(d) \/ \E v \in {1, 2} : Type(d, v)
    BY <1>3, ListSaveInv, ListTypeInv
  <1>4. CASE \E i \in DOMAIN list : RestoreUser(i) \/ \E op \in {"delete", "archive"} : Ask(op, i)
    BY <1>4, ListConfirmInv, ListAskInv
  <1>5. CASE CancelAsked \/ Confirm
    BY <1>5, ListConfirmInv, ListAskInv
  <1>6. CASE \E i \in Under : \/ Perform(i) \/ Refuse(i) \/ ReplyLost(i)
                              \/ FormSaved(i) \/ FormNotSaved(i) \/ EntryChanged(i) \/ EntryNotChanged(i)
    BY <1>6, ListPerformInv, ListRefuseInv, ListSavedInv, ListNotSavedInv, ListChangedInv, ListNotChangedInv
  <1>7. CASE \E r \in Reading : ListServed(r) \/ ListReply(r) \/ ListFails(r)
    BY <1>7, ListServedInv, ListReplyInv, ListFailsInv
  <1> QED
    BY <1>1, <1>2, <1>3, <1>4, <1>5, <1>6, <1>7 DEF ListsNext

(***************************************************************************)
(* When nothing is under way a section of the settings shows what is       *)
(* stored, and a form creates one entry, unless a reply or a list was      *)
(* lost, or answers crossed, which for the members cannot be: for any      *)
(* number of dialogs, requests and mishaps.                                *)
(***************************************************************************)
THEOREM ListsSettleAlways == ListsSpec => []ListsSettle
  <1>1. ListsInv => ListIsStored
    <2> SUFFICES ASSUME ListsInv, Under = {}, Reading = {}, ~missed
                 PROVE  (list = entries \/ crossed) /\ (part = "members" => ~crossed)
      BY DEF ListIsStored
    <2>1. ~ReadComes /\ Served = {} /\ \A k : ~TakenOut(k)
      BY DEF ReadComes, Served, TakenOut, Under, Reading
    <2>2. crossed \/ Good(list)
      BY <2>1 DEF ListsInv, ListInv, Settling
    <2>3. Good(list) => list = entries
      <3> SUFFICES ASSUME Good(list) PROVE list = entries
        OBVIOUS
      <3>1. list \in Seq(ListEntry) /\ entries \in Seq(ListEntry) /\ DOMAIN entries = 1 .. Len(entries)
        BY LenProperties DEF ListsInv, ListsTypeOK
      <3>2. Len(list) = Len(entries) /\ \A k \in 1 .. Len(list) : list[k] = entries[k]
        BY <2>1, <3>1 DEF Good
      <3> QED
        BY <3>1, <3>2, SeqEqual
    <2> QED
      BY <2>2, <2>3 DEF ListsInv, ListInv
  <1>2. ListsInv => OneEntryPerForm
    <2> SUFFICES ASSUME ListsInv, ~missed, NEW k \in DOMAIN made PROVE ~(made[k] > 1)
      BY DEF OneEntryPerForm
    <2>1. made[k] \in Nat
      BY ListElements DEF ListsInv
    <2> QED
      BY <2>1 DEF ListsInv, MadeInv
  <1>3. ListsInv => ListsSettle
    BY <1>1, <1>2 DEF ListsSettle
  <1> QED
    BY <1>3, ListsInitInv, ListsStepInv, PTL DEF ListsSpec

----------------------------------------------------------------------------
(* The export of memos.                                                    *)

RowType == [state : {"none", "gone"} \cup NoteStates, time : Nat]
Rowset == [Notes -> RowType]
ListingType == [asking : BOOLEAN, memos : Seq(Notes), token : Nat, tokens : SUBSET Nat]

ExportType ==
  /\ notes \in Rowset /\ start \in Rowset
  /\ touched \subseteq Notes /\ moved \subseteq touched
  /\ own \in BOOLEAN /\ exporting \in BOOLEAN
  /\ own => listing \in [NoteStates -> ListingType]
  /\ own /\ saved # NotSaved => saved \in [NoteStates -> Seq(Notes)]
  /\ entered \in [NoteStates -> BOOLEAN] /\ left \in [NoteStates -> BOOLEAN]

(* The order of ListMemos as a set of pairs, and the memos before the page *)
(* that starts at an offset.                                               *)
InTime(rows) == {p \in Notes \X Notes : Earlier(rows, p[1], p[2])}
PlaceOf(rows, s, n) == Place(InTime(rows), Visible(rows, TRUE, s), n)
ReadIn(rows, token, s) == {n \in Visible(rows, TRUE, s) : PlaceOf(rows, s, n) < token}

\* The export's order, by creation time and then by name, is a strict total order.
LEMMA EarlierOrders ==
  ASSUME NEW rows \in Rowset
  PROVE  /\ \A S \in SUBSET Notes : IsOrder(InTime(rows), S) /\ IsFiniteSet(S)
         /\ \A m, n \in Notes : <<m, n>> \in InTime(rows) <=> Earlier(rows, m, n)
         /\ \A s : Visible(rows, TRUE, s) \in SUBSET Notes
<1>1. \A n \in Notes : n \in Nat /\ rows[n].time \in Nat  BY ExportAssumption DEF Rowset, RowType
<1>2. /\ \A n \in Notes : ~Earlier(rows, n, n)
      /\ \A m, n \in Notes : m = n \/ Earlier(rows, m, n) \/ Earlier(rows, n, m)
      /\ \A k, m, n \in Notes : Earlier(rows, k, m) /\ Earlier(rows, m, n) => Earlier(rows, k, n)
  BY <1>1 DEF Earlier
<1>3. \A m, n \in Notes : <<m, n>> \in InTime(rows) <=> Earlier(rows, m, n)  BY DEF InTime
<1>4. \A S \in SUBSET Notes : IsOrder(InTime(rows), S)  BY <1>2, <1>3 DEF IsOrder
<1>5. \A S \in SUBSET Notes : IsFiniteSet(S)  BY ExportAssumption, FS_Subset
<1>6. \A s : Visible(rows, TRUE, s) \in SUBSET Notes  BY DEF Visible, Rowset
<1>. QED  BY <1>3, <1>4, <1>5, <1>6

\* The rows the server lists are all the notes, each once, in that order.
LEMMA ListedSorts ==
  ASSUME NEW rows \in Rowset, NEW s
  PROVE  Sorted(InTime(rows), Visible(rows, TRUE, s), Listed(rows, TRUE, s))
<1>0. PICK S \in SUBSET Notes : S = Visible(rows, TRUE, s)  BY EarlierOrders
<1>1. PICK R : R = InTime(rows)  OBVIOUS
<1>2. IsFiniteSet(S) /\ IsOrder(R, S)  BY <1>1, EarlierOrders
<1>3. \A n \in S : {m \in S : Earlier(rows, m, n)} = Ahead(R, S, n)  BY <1>1, EarlierOrders DEF Ahead
<1>4. \A n \in S : Cardinality({m \in S : Earlier(rows, m, n)}) = Place(R, S, n)  BY <1>3 DEF Place
<1>. DEFINE at(i) == CHOOSE n \in S : Cardinality({m \in S : Earlier(rows, m, n)}) = i - 1
<1>5. PICK q : q = Listed(rows, TRUE, s)  OBVIOUS
<1>6. q = [i \in 1..Cardinality(S) |-> at(i)]  BY <1>0, <1>5 DEF Listed
<1>7. ASSUME NEW i \in 1..Cardinality(S)  PROVE at(i) \in S /\ Place(R, S, at(i)) = i - 1
  <2>1. Cardinality(S) \in Nat  BY <1>2, FS_CardinalityType
  <2>2. PICK k \in 0..(Cardinality(S) - 1) : k = i - 1  BY <2>1
  <2>3. \E n \in S : Place(R, S, n) = k  BY <1>2, PlaceTaken
  <2>4. \E n \in S : Cardinality({m \in S : Earlier(rows, m, n)}) = i - 1  BY <1>4, <2>2, <2>3
  <2>5. at(i) \in S /\ Cardinality({m \in S : Earlier(rows, m, at(i))}) = i - 1  BY <2>4
  <2>. HIDE DEF at
  <2>. QED  BY <2>5, <1>4
<1>8. Sorted(R, S, q)
  <2>. HIDE DEF at
  <2>1. q = [i \in 1..Cardinality(S) |-> q[i]]  BY <1>6
  <2>2. \A i \in 1..Cardinality(S) : q[i] \in S /\ Place(R, S, q[i]) = i - 1  BY <1>6, <1>7
  <2>. QED  BY <1>2, <2>1, <2>2, SortedByPlace
<1>. QED  BY <1>0, <1>1, <1>5, <1>8

\* The smaller of two numbers, as a comparison.
LEMMA MinIs == \A a, b \in Nat : Min({a, b}) = IF a <= b THEN a ELSE b
<1>. SUFFICES ASSUME NEW a \in Nat, NEW b \in Nat  PROVE Min({a, b}) = IF a <= b THEN a ELSE b  OBVIOUS
<1>1. \E x \in {a, b} : \A y \in {a, b} : x <= y  OBVIOUS
<1>2. Min({a, b}) \in {a, b} /\ \A y \in {a, b} : Min({a, b}) <= y  BY <1>1 DEF Min
<1>. QED  BY <1>2

(* The memos before the next page, and a page.                             *)
LEMMA ReadIs ==
  ASSUME ExportType, own, NEW rows \in Rowset, NEW s \in NoteStates
  PROVE  ReadBefore(rows, s) = IF listing[s].asking THEN ReadIn(rows, listing[s].token, s) ELSE {}
<1>0. listing[s] \in ListingType /\ listing[s].token \in Nat /\ own = TRUE  BY DEF ExportType, ListingType
<1>1. PICK S \in SUBSET Notes : S = Visible(rows, TRUE, s)  BY EarlierOrders
<1>2. PICK R : R = InTime(rows)  OBVIOUS
<1>3. PICK q : q = Listed(rows, TRUE, s)  OBVIOUS
<1>4. IsFiniteSet(S) /\ IsOrder(R, S) /\ Sorted(R, S, q)  BY <1>1, <1>2, <1>3, EarlierOrders, ListedSorts
<1>5. PICK token \in Nat : token = listing[s].token  BY <1>0
<1>6. PICK n \in Nat : n = Len(q) /\ n = Cardinality(S)  BY <1>4, FS_CardinalityType DEF Sorted
<1>7. PICK b \in Nat : b = Min({token, n}) /\ b = IF token <= n THEN token ELSE n  BY MinIs
<1>8. Range(SubSeq(q, 0 + 1, b)) = Covered(R, S, 0, b)
  <2>1. 0 \in Nat /\ b <= Len(q)  BY <1>6, <1>7
  <2>. QED  BY <1>4, <2>1, SortedSection
<1>9. \A x \in S : Place(R, S, x) \in Nat /\ Place(R, S, x) < n  BY <1>4, <1>6, PlaceType
<1>10. Range(SubSeq(q, 1, b)) = {x \in S : Place(R, S, x) < token}  BY <1>7, <1>8, <1>9 DEF Covered
<1>11. ToSet(SubSeq(q, 1, b)) = Range(SubSeq(q, 1, b))  BY DEF ToSet, Range
<1>12. ReadBefore(rows, s) = IF listing[s].asking THEN ToSet(SubSeq(q, 1, b)) ELSE {}
  BY <1>0, <1>3, <1>5, <1>6, <1>7 DEF ReadBefore
<1>. QED  BY <1>1, <1>2, <1>5, <1>10, <1>11, <1>12 DEF ReadIn, PlaceOf

\* What a page holds and which token comes with it.
LEMMA AnswerIs ==
  ASSUME NEW rows \in Rowset, NEW s, NEW offset \in Nat, NEW page, page = Answer(Listed(rows, TRUE, s), offset)
  PROVE  /\ page.memos \in Seq(Notes) /\ IsInjective(page.memos)
         /\ Range(page.memos) = ReadIn(rows, offset + ExportPage, s) \ ReadIn(rows, offset, s)
         /\ page.next \in {0, offset + ExportPage}
         /\ page.next = 0 => Visible(rows, TRUE, s) \subseteq ReadIn(rows, offset + ExportPage, s)
<1>1. PICK S \in SUBSET Notes : S = Visible(rows, TRUE, s)  BY EarlierOrders
<1>2. PICK R : R = InTime(rows)  OBVIOUS
<1>3. PICK q : q = Listed(rows, TRUE, s)  OBVIOUS
<1>4. IsFiniteSet(S) /\ IsOrder(R, S) /\ Sorted(R, S, q)  BY <1>1, <1>2, <1>3, EarlierOrders, ListedSorts
<1>5. PICK end \in Nat : end = offset + ExportPage  BY ExportAssumption
<1>6. PICK n \in Nat : n = Len(q) /\ n = Cardinality(S)  BY <1>4, FS_CardinalityType DEF Sorted
<1>7. PICK b \in Nat : b = Min({end, n}) /\ b = IF end <= n THEN end ELSE n  BY MinIs
<1>8. PICK piece : piece = SubSeq(q, offset + 1, b)  OBVIOUS
<1>9. page.memos = piece /\ page.next = IF n > end THEN end ELSE 0
  BY <1>3, <1>5, <1>6, <1>7, <1>8 DEF Answer
<1>10. /\ piece \in Seq(S) /\ Len(piece) = IF offset < b THEN b - offset ELSE 0
       /\ Range(piece) = {x \in S : offset <= Place(R, S, x) /\ Place(R, S, x) < b}
  <2>1. b <= Len(q)  BY <1>6, <1>7
  <2>2. /\ SubSeq(q, offset + 1, b) \in Seq(S)
        /\ Len(SubSeq(q, offset + 1, b)) = IF offset < b THEN b - offset ELSE 0
        /\ Range(SubSeq(q, offset + 1, b)) = Covered(R, S, offset, b)
    BY <1>4, <2>1, SortedSection
  <2>. QED  BY <1>8, <2>2 DEF Covered
<1>11. \A x \in S : Place(R, S, x) \in Nat /\ Place(R, S, x) < n  BY <1>4, <1>6, PlaceType
<1>12. Range(piece) = {x \in S : Place(R, S, x) < end} \ {x \in S : Place(R, S, x) < offset}
  BY <1>7, <1>10, <1>11
<1>13. IsInjective(piece)
  <2>1. q \in Seq(S) /\ IsInjective(q) /\ DOMAIN q = 1..n  BY <1>4, <1>6, SortedShows, LenProperties DEF Sorted
  <2>2. \A i \in (offset + 1)..b : q[i] \in S  BY <2>1, <1>6, <1>7, ElementOfSeq
  <2>3. \A i \in 1..(b - (offset + 1) + 1) : piece[i] = q[offset + 1 + i - 1]
    <3>1. offset + 1 \in Int /\ b \in Int  OBVIOUS
    <3>. QED  BY <1>8, <2>2, <3>1, SubSeqProperties
  <2>4. DOMAIN piece = 1..Len(piece)  BY <1>10, LenProperties
  <2>5. ASSUME NEW i \in 1..Len(piece)  PROVE piece[i] = q[offset + i] /\ offset + i \in 1..n
    <3>1. i \in 1..(b - (offset + 1) + 1) /\ offset + 1 + i - 1 = offset + i /\ offset + i \in 1..n  BY <1>7, <1>10
    <3>. QED  BY <3>1, <2>3
  <2>6. ASSUME NEW i \in 1..Len(piece), NEW j \in 1..Len(piece), piece[i] = piece[j]  PROVE i = j
    <3>1. offset + i = offset + j  BY <2>1, <2>5, <2>6 DEF IsInjective
    <3>. QED  BY <3>1
  <2>. QED  BY <2>4, <2>6 DEF IsInjective
<1>14. piece \in Seq(Notes)  BY <1>10
<1>15. ~(n > end) => S \subseteq {x \in S : Place(R, S, x) < end}  BY <1>11
<1>16. page.next \in {0, end} /\ (page.next = 0 => ~(n > end))
  <2>1. end # 0  BY <1>5, ExportAssumption
  <2>. QED  BY <2>1, <1>9
<1>. QED  BY <1>1, <1>2, <1>5, <1>9, <1>12, <1>13, <1>14, <1>15, <1>16 DEF ReadIn, PlaceOf

(* When one memo changes and does not go away from before the next page,   *)
(* no other memo comes to be there.                                        *)
LEMMA OthersStay ==
  ASSUME NEW rows \in Rowset, NEW after \in Rowset, NEW n \in Notes, \A k \in Notes \ {n} : after[k] = rows[k],
         NEW s, NEW token \in Nat,
         n \in ReadIn(rows, token, s) => n \in ReadIn(after, token, s)
  PROVE  \A m \in Notes \ {n} : m \in ReadIn(after, token, s) => m \in ReadIn(rows, token, s)
<1>. SUFFICES ASSUME NEW m \in Notes \ {n}, m \in ReadIn(after, token, s)  PROVE m \in ReadIn(rows, token, s)  OBVIOUS
<1>1. PICK V \in SUBSET Notes : V = Visible(rows, TRUE, s)  BY EarlierOrders
<1>2. PICK W \in SUBSET Notes : W = Visible(after, TRUE, s)  BY EarlierOrders
<1>3. PICK R : R = InTime(rows)  OBVIOUS
<1>4. PICK Q : Q = InTime(after)  OBVIOUS
<1>5. /\ IsFiniteSet(V) /\ IsFiniteSet(W) /\ IsOrder(R, Notes) /\ IsOrder(Q, Notes)
      /\ \A k, l \in Notes : (<<k, l>> \in R <=> Earlier(rows, k, l)) /\ (<<k, l>> \in Q <=> Earlier(after, k, l))
  <2>1. Notes \in SUBSET Notes  OBVIOUS
  <2>. QED  BY <2>1, <1>3, <1>4, EarlierOrders
<1>6. DOMAIN rows = Notes /\ DOMAIN after = Notes  BY DEF Rowset
<1>7. \A k \in Notes \ {n} : k \in V <=> k \in W  BY <1>1, <1>2, <1>6 DEF Visible
<1>8. \A k \in Notes \ {n} : <<k, m>> \in R <=> <<k, m>> \in Q  BY <1>5 DEF Earlier
<1>9. m \in W /\ Place(Q, W, m) < token /\ m \in V  BY <1>2, <1>4, <1>7 DEF ReadIn, PlaceOf
<1>10. PICK A : A = Ahead(R, V, m)  OBVIOUS
<1>11. PICK B : B = Ahead(Q, W, m)  OBVIOUS
<1>12. A \in SUBSET V /\ B \in SUBSET W  BY <1>10, <1>11 DEF Ahead
<1>13. IsFiniteSet(A) /\ IsFiniteSet(B)  BY <1>5, <1>12, FS_Subset
<1>14. A \ {n} = B \ {n}  BY <1>7, <1>8, <1>10, <1>11 DEF Ahead
<1>15. PICK c \in Nat : c = Cardinality(A \ {n}) /\ c = Cardinality(B \ {n})
  BY <1>13, <1>14, FS_RemoveElement, FS_CardinalityType
<1>16. PICK a \in Nat : a = Cardinality(A)  BY <1>13, FS_CardinalityType
<1>17. PICK b \in Nat : b = Cardinality(B)  BY <1>13, FS_CardinalityType
<1>18. c = IF n \in A THEN a - 1 ELSE a  BY <1>13, <1>15, <1>16, FS_RemoveElement
<1>19. c = IF n \in B THEN b - 1 ELSE b  BY <1>13, <1>15, <1>17, FS_RemoveElement
<1>20. b < token /\ Place(R, V, m) = a /\ Place(Q, W, m) = b  BY <1>9, <1>10, <1>11, <1>16, <1>17 DEF Place
<1>21. a < token
  <2>1. CASE n \notin A \/ n \in B  BY <2>1, <1>18, <1>19, <1>20
  <2>2. CASE n \in A /\ n \notin B
    <3>1. a = b + 1  BY <2>2, <1>18, <1>19
    <3>2. n \in V /\ <<n, m>> \in R  BY <2>2, <1>10 DEF Ahead
    <3>3. Place(R, V, n) < Place(R, V, m)  BY <3>2, <1>5, PlaceLess
    <3>4. Place(R, V, n) \in Nat  BY <1>5, PlaceType
    <3>5. Place(R, V, n) < token  BY <3>1, <3>3, <3>4, <1>20
    <3>6. n \in ReadIn(rows, token, s)  BY <3>2, <3>5, <1>1, <1>3 DEF ReadIn, PlaceOf
    <3>7. n \in W /\ Place(Q, W, n) < token  BY <3>6, <1>2, <1>4 DEF ReadIn, PlaceOf
    <3>8. <<n, m>> \notin Q  BY <2>2, <3>7, <1>11 DEF Ahead
    <3>9. <<m, n>> \in Q  BY <3>8, <1>5 DEF IsOrder
    <3>10. Place(Q, W, m) < Place(Q, W, n)  BY <3>9, <1>5, <1>9, PlaceLess
    <3>11. Place(Q, W, n) \in Nat  BY <1>5, PlaceType
    <3>. QED  BY <3>1, <3>7, <3>10, <3>11, <1>20
  <2>. QED  BY <2>1, <2>2
<1>. QED  BY <1>1, <1>3, <1>9, <1>20, <1>21 DEF ReadIn, PlaceOf

(* What a listing has collected so far, or a file in the end.              *)
Single(q, m) == \A i, j \in DOMAIN q : q[i] = m /\ q[j] = m => i = j
Home(m) == IF start[m] = NotYet THEN "NORMAL" ELSE start[m].state

Collected(s, q, asking) ==
  /\ \A m \in Range(q) : notes[m] # NotYet
  /\ \A m \in Range(q) \ moved : Home(m) = s
  /\ ~entered[s] => \A m \in Notes \ moved :
        /\ Single(q, m)
        /\ asking /\ m \in Range(q) => m \in ReadBefore(notes, s) \/ notes[m] = Deleted
  /\ ~left[s] => \A m \in Notes \ touched :
        start[m].state = s /\ (asking => m \in ReadBefore(notes, s)) => m \in Range(q)

(* What may have become of a memo that did not change its place.           *)
Stayed(m) ==
  \/ notes[m] = start[m] \/ notes[m] = Deleted
  \/ start[m] = NotYet /\ notes[m].state = "NORMAL"

ExportInv ==
  /\ ExportType
  /\ \A m \in Notes \ touched : notes[m] = start[m]
  /\ \A m \in Notes \ moved : Stayed(m)
  /\ exporting => saved = NotSaved
  /\ own /\ exporting => \A s \in NoteStates : Collected(s, listing[s].memos, listing[s].asking)
  /\ own /\ saved # NotSaved => \A s \in NoteStates : Collected(s, saved[s], FALSE)

\* Every row of the listing is a note of the table.
LEMMA RowsOfNotes ==
  /\ NotYet \in RowType /\ Deleted \in RowType
  /\ \A s \in NoteStates, t \in Seconds : [state |-> s, time |-> t] \in RowType
  /\ \A r \in RowType, s \in NoteStates : [r EXCEPT !.state = s] \in RowType /\ [r EXCEPT !.state = s].state = s
  /\ \A r \in RowType, t \in Seconds : [r EXCEPT !.time = t] \in RowType /\ [r EXCEPT !.time = t].state = r.state
  /\ NotYet.state = "none" /\ Deleted.state = "gone"
BY ExportAssumption DEF NotYet, Deleted, RowType, NoteStates

\* The export starts with nothing read.
LEMMA ExportInitOk == ExportInit => ExportInv
<1>. SUFFICES ASSUME ExportInit  PROVE ExportInv  OBVIOUS
<1>1. notes \in Rowset
  <2>1. {NotYet} \cup [state : NoteStates, time : Seconds] \subseteq RowType
    <3>1. \A r \in [state : NoteStates, time : Seconds] : r \in RowType  BY ExportAssumption DEF RowType
    <3>. QED  BY <3>1, RowsOfNotes
  <2>. QED  BY <2>1 DEF ExportInit, Rowset
<1>2. NoListing \in ListingType  BY DEF NoListing, ListingType
<1>3. ExportType  BY <1>1, <1>2 DEF ExportInit, ExportType, Quiet
<1>. QED  BY <1>3 DEF ExportInit, ExportInv, Stayed

(* What a listing has collected when the memos change meanwhile.           *)
LEMMA ShiftCollects ==
  ASSUME ExportInv, own, NEW n \in Notes, NEW row \in RowType, Shift(n, row), row # NotYet,
         NEW s \in NoteStates
  PROVE  Collected(s, listing[s].memos, listing[s].asking)'
<1>1. PICK rows : rows = [notes EXCEPT ![n] = row]  OBVIOUS
<1>2. PICK q : q = listing[s].memos  OBVIOUS
<1>3. PICK asking : asking = listing[s].asking  OBVIOUS
<1>4. /\ exporting /\ notes' = rows
      /\ touched' = touched \cup {n}
      /\ moved' = IF notes[n] = NotYet \/ row = Deleted THEN moved ELSE moved \cup {n}
      /\ entered'[s] = (entered[s] \/ (n \notin ReadBefore(notes, s) /\ n \in ReadBefore(rows, s)))
      /\ left'[s] = (left[s] \/ (n \in ReadBefore(notes, s) /\ n \notin ReadBefore(rows, s)))
      /\ own' = own /\ listing' = listing /\ start' = start
  BY <1>1 DEF Shift
<1>5. /\ ExportType /\ notes \in Rowset /\ rows \in Rowset
      /\ rows[n] = row /\ \A m \in Notes \ {n} : rows[m] = notes[m]
      /\ listing[s] \in ListingType
  BY <1>1 DEF ExportInv, ExportType, Rowset
<1>6. q \in Seq(Notes) /\ Range(q) \subseteq Notes
  BY <1>2, <1>5, ElementOfSeq, LenProperties DEF ListingType, Range
<1>7. Collected(s, q, asking)  BY <1>2, <1>3, <1>4 DEF ExportInv
<1>8. PICK X : X = ReadBefore(notes, s)  OBVIOUS
<1>9. PICK Y : Y = ReadBefore(rows, s)  OBVIOUS
<1>10. X = IF asking THEN ReadIn(notes, listing[s].token, s) ELSE {}  BY <1>3, <1>5, <1>8, ReadIs
<1>11. Y = IF asking THEN ReadIn(rows, listing[s].token, s) ELSE {}  BY <1>3, <1>5, <1>9, ReadIs
<1>12. PICK token \in Nat : token = listing[s].token  BY <1>5 DEF ListingType
<1>13. ASSUME NEW m \in Notes \ {n}
       PROVE  /\ (n \in X => n \in Y) /\ m \in Y => m \in X
              /\ (n \in Y => n \in X) /\ m \in X => m \in Y
  <2>1. CASE asking
    <3>1. X = ReadIn(notes, token, s) /\ Y = ReadIn(rows, token, s)  BY <2>1, <1>10, <1>11, <1>12
    <3>2. (n \in X => n \in Y) /\ m \in Y => m \in X
      <4>. SUFFICES ASSUME n \in ReadIn(notes, token, s) => n \in ReadIn(rows, token, s), m \in ReadIn(rows, token, s)
                    PROVE  m \in ReadIn(notes, token, s)
        BY <3>1
      <4>. QED  BY <1>5, OthersStay
    <3>3. (n \in Y => n \in X) /\ m \in X => m \in Y
      <4>. SUFFICES ASSUME n \in ReadIn(rows, token, s) => n \in ReadIn(notes, token, s), m \in ReadIn(notes, token, s)
                    PROVE  m \in ReadIn(rows, token, s)
        BY <3>1
      <4>1. \A k \in Notes \ {n} : notes[k] = rows[k]  BY <1>5
      <4>. QED  BY <4>1, <1>5, OthersStay
    <3>. QED  BY <3>2, <3>3
  <2>2. CASE ~asking  BY <2>2, <1>10, <1>11
  <2>. QED  BY <2>1, <2>2
<1>14. ReadBefore(notes, s)' = Y  BY <1>4, <1>9 DEF ReadBefore
<1>15. /\ \A m \in Range(q) : rows[m] # NotYet
       /\ \A m \in Range(q) \ moved' : Home(m) = s
  BY <1>4, <1>5, <1>6, <1>7 DEF Collected
<1>16. ASSUME ~entered'[s], NEW m \in Notes \ moved'
       PROVE  /\ Single(q, m)
              /\ asking /\ m \in Range(q) => m \in Y \/ rows[m] = Deleted
  <2>1. ~entered[s] /\ (n \in Y => n \in X) /\ m \notin moved  BY <1>16, <1>4, <1>8, <1>9
  <2>2. /\ Single(q, m)
        /\ asking /\ m \in Range(q) => m \in X \/ notes[m] = Deleted
    BY <2>1, <1>7, <1>8 DEF Collected
  <2>3. CASE m # n  BY <2>1, <2>2, <2>3, <1>5, <1>13
  <2>4. CASE m = n
    <3>1. m \in Range(q) => notes[n] # NotYet  BY <2>4, <1>7 DEF Collected
    <3>2. notes[n] # NotYet => row = Deleted  BY <2>4, <1>4, <1>16
    <3>. QED  BY <2>2, <2>4, <3>1, <3>2, <1>5
  <2>. QED  BY <2>3, <2>4
<1>17. ASSUME ~left'[s], NEW m \in Notes \ touched', start[m].state = s, asking => m \in Y
       PROVE  m \in Range(q)
  <2>1. ~left[s] /\ (n \in X => n \in Y) /\ m \notin touched /\ m # n  BY <1>17, <1>4, <1>8, <1>9
  <2>2. asking => m \in X  BY <2>1, <1>13, <1>17
  <2>. QED  BY <2>1, <2>2, <1>7, <1>8, <1>17 DEF Collected
<1>18. \A m : Home(m)' = Home(m)  BY <1>4 DEF Home
<1>19. Collected(s, q, asking)'
  BY <1>4, <1>14, <1>15, <1>16, <1>17, <1>18 DEF Collected
<1>. QED  BY <1>2, <1>3, <1>4, <1>19 DEF Collected, Home

\* A memo created, changed or deleted during an export keeps the invariant.
LEMMA ShiftKeeps ==
  ASSUME ExportInv, NEW n \in Notes, NEW row \in RowType, Shift(n, row), row # NotYet,
         \/ notes[n] = NotYet /\ row.state = "NORMAL"
         \/ row = Deleted
         \/ notes[n] # NotYet /\ row # Deleted
  PROVE  ExportInv'
<1>1. /\ exporting /\ notes' = [notes EXCEPT ![n] = row]
      /\ touched' = touched \cup {n}
      /\ moved' = IF notes[n] = NotYet \/ row = Deleted THEN moved ELSE moved \cup {n}
      /\ entered' \in [NoteStates -> BOOLEAN] /\ left' \in [NoteStates -> BOOLEAN]
      /\ own' = own /\ listing' = listing /\ start' = start /\ saved' = saved /\ exporting' = exporting
  <2>1. \A s \in NoteStates : entered[s] \in BOOLEAN /\ left[s] \in BOOLEAN  BY DEF ExportInv, ExportType
  <2>. QED  BY <2>1 DEF Shift
<1>2. saved = NotSaved /\ ExportType  BY <1>1 DEF ExportInv
<1>3. notes' \in Rowset /\ notes'[n] = row /\ \A m \in Notes \ {n} : notes'[m] = notes[m]
  BY <1>1, <1>2 DEF ExportType, Rowset
<1>4. ExportType'
  <2>1. touched' \subseteq Notes /\ moved' \subseteq touched'  BY <1>1, <1>2 DEF ExportType
  <2>. QED  BY <2>1, <1>1, <1>2, <1>3 DEF ExportType
<1>5. \A m \in Notes \ touched' : notes'[m] = start'[m]
  BY <1>1, <1>3 DEF ExportInv
<1>6. ASSUME NEW m \in Notes \ moved'  PROVE Stayed(m)'
  <2>1. m \notin moved  BY <1>1
  <2>2. Stayed(m)  BY <2>1 DEF ExportInv
  <2>3. CASE m # n  BY <2>2, <2>3, <1>1, <1>3 DEF Stayed
  <2>4. CASE m = n
    <3>1. row = Deleted => Stayed(m)'  BY <2>4, <1>3 DEF Stayed
    <3>2. CASE notes[n] = NotYet /\ row.state = "NORMAL"
      <4>1. start[n] = NotYet
        <5>1. notes[n] # Deleted /\ notes[n].state # "NORMAL"  BY <3>2 DEF NotYet, Deleted
        <5>. QED  BY <5>1, <2>2, <2>4, <3>2 DEF Stayed
      <4>. QED  BY <4>1, <3>2, <2>4, <1>1, <1>3 DEF Stayed
    <3>3. CASE notes[n] # NotYet /\ row # Deleted  BY <3>3, <2>4, <1>1
    <3>. QED  BY <3>1, <3>2, <3>3
  <2>. QED  BY <2>3, <2>4
<1>7. own' /\ exporting' => \A s \in NoteStates : Collected(s, listing[s].memos, listing[s].asking)'
  BY <1>1, ShiftCollects
<1>8. NoteStates' = NoteStates /\ (saved = NotSaved)'  BY <1>1, <1>2 DEF NotSaved
<1>. QED  BY <1>4, <1>5, <1>6, <1>7, <1>8 DEF ExportInv

\* What has been read of a list so far, of the next state as of this one.
LEMMA ReadIsNext ==
  (ExportType /\ own => \A rows \in Rowset, s \in NoteStates :
     ReadBefore(rows, s) = IF listing[s].asking THEN ReadIn(rows, listing[s].token, s) ELSE {})'
<1>1. ExportType /\ own => \A rows \in Rowset, s \in NoteStates :
        ReadBefore(rows, s) = IF listing[s].asking THEN ReadIn(rows, listing[s].token, s) ELSE {}
  BY ReadIs
<1>. QED  BY <1>1, PTL

(* A memo is once in two lists together when it is once in each and not in *)
(* both.                                                                   *)
LEMMA SingleConcat ==
  ASSUME NEW p \in Seq(Notes), NEW q \in Seq(Notes), NEW m, Single(p, m), Single(q, m),
         m \notin Range(p) \/ m \notin Range(q)
  PROVE  Single(p \o q, m)
<1>1. /\ p \o q \in Seq(Notes) /\ Len(p \o q) = Len(p) + Len(q)
      /\ \A i \in 1..(Len(p) + Len(q)) : (p \o q)[i] = IF i <= Len(p) THEN p[i] ELSE q[i - Len(p)]
  BY ConcatProperties
<1>2. /\ DOMAIN p = 1..Len(p) /\ DOMAIN q = 1..Len(q) /\ Len(p) \in Nat /\ Len(q) \in Nat
      /\ DOMAIN (p \o q) = 1..(Len(p) + Len(q))
  BY <1>1, LenProperties
<1>3. PICK pq : pq = p \o q  OBVIOUS
<1>4. \A i \in 1..(Len(p) + Len(q)) :
        \/ i \in DOMAIN p /\ pq[i] = p[i]
        \/ i > Len(p) /\ i - Len(p) \in DOMAIN q /\ pq[i] = q[i - Len(p)]
  BY <1>1, <1>2, <1>3
<1>5. \A i \in DOMAIN p : p[i] \in Range(p)  BY DEF Range
<1>6. \A i \in DOMAIN q : q[i] \in Range(q)  BY DEF Range
<1>. SUFFICES ASSUME NEW i \in 1..(Len(p) + Len(q)), NEW j \in 1..(Len(p) + Len(q)), pq[i] = m, pq[j] = m
              PROVE  i = j
  BY <1>2, <1>3 DEF Single
<1>7. CASE i \in DOMAIN p /\ pq[i] = p[i] /\ j \in DOMAIN p /\ pq[j] = p[j]  BY <1>7 DEF Single
<1>8. CASE /\ i > Len(p) /\ i - Len(p) \in DOMAIN q /\ pq[i] = q[i - Len(p)]
           /\ j > Len(p) /\ j - Len(p) \in DOMAIN q /\ pq[j] = q[j - Len(p)]
  <2>1. i - Len(p) = j - Len(p)  BY <1>8 DEF Single
  <2>. QED  BY <2>1, <1>2
<1>9. CASE (i \in DOMAIN p /\ pq[i] = p[i]) /\ (j - Len(p) \in DOMAIN q /\ pq[j] = q[j - Len(p)])
  BY <1>5, <1>6, <1>9
<1>10. CASE (j \in DOMAIN p /\ pq[j] = p[j]) /\ (i - Len(p) \in DOMAIN q /\ pq[i] = q[i - Len(p)])
  BY <1>5, <1>6, <1>10
<1>. QED  BY <1>4, <1>7, <1>8, <1>9, <1>10

\* A page read keeps the invariant.
LEMMA NextPageKeeps ==
  ASSUME ExportInv, NEW s \in NoteStates, NextPage(s)
  PROVE  ExportInv'
<1>1. PICK page : page = Answer(Listed(notes, own, s), listing[s].token)  OBVIOUS
<1>2. PICK l : l = [asking |-> page.next # 0, memos |-> listing[s].memos \o page.memos, token |-> page.next,
                    tokens |-> listing[s].tokens \cup {page.next}]
  OBVIOUS
<1>3. /\ exporting /\ listing[s].asking /\ listing' = [listing EXCEPT ![s] = l]
      /\ notes' = notes /\ own' = own /\ exporting' = exporting /\ saved' = saved /\ start' = start
      /\ touched' = touched /\ moved' = moved /\ entered' = entered /\ left' = left
  BY <1>1, <1>2 DEF NextPage
<1>4. saved = NotSaved /\ ExportType /\ notes \in Rowset  BY <1>3 DEF ExportInv, ExportType
<1>. SUFFICES ASSUME own  PROVE ExportType' /\ \A t \in NoteStates : Collected(t, listing[t].memos, listing[t].asking)'
  <2>1. ExportType' \/ own  BY <1>3, <1>4 DEF ExportType
  <2>2. \A m \in Notes \ touched' : notes'[m] = start'[m]  BY <1>3 DEF ExportInv
  <2>3. \A m \in Notes \ moved' : Stayed(m)'  BY <1>3 DEF ExportInv, Stayed
  <2>4. (saved = NotSaved)'  BY <1>3, <1>4 DEF NotSaved
  <2>. QED  BY <2>1, <2>2, <2>3, <2>4, <1>3 DEF ExportInv
<1>5. own = TRUE /\ own' = TRUE  BY <1>3, <1>4 DEF ExportType
<1>6. listing \in [NoteStates -> ListingType] /\ listing[s] \in ListingType  BY <1>4 DEF ExportType
<1>7. PICK token \in Nat : token = listing[s].token  BY <1>6 DEF ListingType
<1>8. PICK q \in Seq(Notes) : q = listing[s].memos  BY <1>6 DEF ListingType
<1>9. PICK X : X = ReadIn(notes, token, s)  OBVIOUS
<1>10. PICK Z : Z = ReadIn(notes, token + ExportPage, s)  OBVIOUS
<1>11. /\ page.memos \in Seq(Notes) /\ IsInjective(page.memos)
       /\ Range(page.memos) = Z \ X
       /\ page.next \in {0, token + ExportPage}
       /\ page.next = 0 => Visible(notes, TRUE, s) \subseteq Z
  <2>1. page = Answer(Listed(notes, TRUE, s), token)  BY <1>1, <1>5, <1>7
  <2>. QED  BY <2>1, <1>4, <1>9, <1>10, AnswerIs
<1>12. PICK p \in Seq(Notes) : p = page.memos  BY <1>11
<1>13. ExportPage \in Nat /\ page.next \in Nat  BY <1>11, ExportAssumption
<1>14. l \in ListingType
  <2>1. q \o p \in Seq(Notes)  BY ConcatProperties
  <2>2. listing[s].tokens \cup {page.next} \in SUBSET Nat  BY <1>6, <1>13 DEF ListingType
  <2>. QED  BY <2>1, <2>2, <1>2, <1>8, <1>12, <1>13 DEF ListingType
<1>15. listing' \in [NoteStates -> ListingType] /\ listing'[s] = l /\ \A t \in NoteStates \ {s} : listing'[t] = listing[t]
  BY <1>3, <1>6, <1>14
<1>16. ExportType'  BY <1>3, <1>4, <1>15 DEF ExportType
<1>17. ASSUME NEW t \in NoteStates \ {s}  PROVE Collected(t, listing[t].memos, listing[t].asking)'
  <2>1. Collected(t, listing[t].memos, listing[t].asking)  BY <1>3 DEF ExportInv
  <2>2. listing'[t] = listing[t]  BY <1>15
  <2>3. PICK k : k = listing[t]  OBVIOUS
  <2>4. ReadBefore(notes, t)' = ReadBefore(notes, t)  BY <2>2, <1>3 DEF ReadBefore
  <2>5. \A m : Home(m)' = Home(m)  BY <1>3 DEF Home
  <2>6. Collected(t, k.memos, k.asking)'  BY <2>1, <2>3, <2>4, <2>5, <1>3 DEF Collected
  <2>. QED  BY <2>2, <2>3, <2>6 DEF Collected, Home
<1>18. PICK W : W = ReadBefore(notes, s)'  OBVIOUS
<1>19. W = IF l.asking THEN Z ELSE {}
  <2>1. W = IF l.asking THEN ReadIn(notes, l.token, s) ELSE {}
    <3>1. ReadBefore(notes, s)' = IF listing'[s].asking THEN ReadIn(notes', listing'[s].token, s) ELSE {}
      <4>1. notes' \in Rowset'  BY <1>3, <1>4 DEF Rowset, RowType, NoteStates
      <4>2. own'  BY <1>5
      <4>. QED  BY <4>1, <4>2, <1>16, ReadIsNext
    <3>. QED  BY <3>1, <1>3, <1>15, <1>18
  <2>2. l.asking => l.token = token + ExportPage  BY <1>2, <1>11
  <2>. QED  BY <2>1, <2>2, <1>10
<1>20. ReadBefore(notes, s) = X  BY <1>3, <1>4, <1>7, <1>9, ReadIs
<1>21. Collected(s, q, TRUE)  
  <2>1. Collected(s, listing[s].memos, listing[s].asking)  BY <1>3 DEF ExportInv
  <2>2. listing[s].asking = TRUE  BY <1>3, <1>6 DEF ListingType
  <2>. QED  BY <2>1, <2>2, <1>8
<1>22. Range(q \o p) = Range(q) \cup (Z \ X) /\ X \subseteq Z
  <2>1. Range(q \o p) = Range(q) \cup Range(p)  BY ConcatShows
  <2>2. X \subseteq Z
    <3>1. \A n \in Visible(notes, TRUE, s) : PlaceOf(notes, s, n) \in Nat
      <4>1. Visible(notes, TRUE, s) \in SUBSET Notes  BY <1>4, EarlierOrders
      <4>2. IsFiniteSet(Visible(notes, TRUE, s))  BY <4>1, <1>4, EarlierOrders
      <4>. QED  BY <4>2, PlaceType DEF PlaceOf
    <3>2. \A a \in Nat : a < token => a < token + ExportPage  BY <1>13
    <3>3. \A n \in X : n \in Visible(notes, TRUE, s) /\ PlaceOf(notes, s, n) < token  BY <1>9 DEF ReadIn
    <3>4. \A n \in X : PlaceOf(notes, s, n) < token + ExportPage  BY <3>1, <3>2, <3>3
    <3>. QED  BY <3>3, <3>4, <1>10 DEF ReadIn
  <2>. QED  BY <2>1, <2>2, <1>11, <1>12
<1>23. \A m \in Z : m \in Notes /\ notes[m].state = s /\ s \in {"NORMAL", "ARCHIVED"}
  BY <1>4, <1>10 DEF ReadIn, Visible, Rowset, NoteStates
<1>24. \A m \in Z : notes[m] # NotYet /\ notes[m] # Deleted
  BY <1>23 DEF NotYet, Deleted
<1>25. \A m \in Z \ moved : Home(m) = s
  <2>. SUFFICES ASSUME NEW m \in Z \ moved  PROVE Home(m) = s  OBVIOUS
  <2>1. Stayed(m)  BY <1>23 DEF ExportInv
  <2>. QED  BY <2>1, <1>23, <1>24 DEF Stayed, Home
<1>26. ASSUME ~entered[s], NEW m \in Notes \ moved
       PROVE  Single(q \o p, m) /\ (l.asking /\ m \in Range(q \o p) => m \in W \/ notes[m] = Deleted)
  <2>1. Single(q, m) /\ (m \in Range(q) => m \in X \/ notes[m] = Deleted)  BY <1>20, <1>21, <1>26 DEF Collected
  <2>2. Single(p, m)  BY <1>11, <1>12 DEF Single, IsInjective
  <2>3. m \notin Range(q) \/ m \notin Range(p)  BY <2>1, <1>11, <1>12, <1>24
  <2>. QED  BY <2>1, <2>2, <2>3, <1>19, <1>22, SingleConcat
<1>27. ASSUME ~left[s], NEW m \in Notes \ touched, start[m].state = s, l.asking => m \in W
       PROVE  m \in Range(q \o p)
  <2>1. m \in Z
    <3>1. notes[m] = start[m]  BY DEF ExportInv
    <3>2. m \in Visible(notes, TRUE, s)  BY <3>1, <1>4, <1>27 DEF Visible, Rowset
    <3>. QED  BY <3>2, <1>2, <1>11, <1>19, <1>27
  <2>2. m \in X => m \in Range(q)  BY <1>20, <1>21, <1>27 DEF Collected
  <2>. QED  BY <2>1, <2>2, <1>22
<1>28. PICK both : both = q \o p  OBVIOUS
<1>29. PICK asking : asking = l.asking  OBVIOUS
<1>30. Collected(s, both, asking)'
  <2>1. \A m : Home(m)' = Home(m)  BY <1>3 DEF Home
  <2>2. \A m \in Range(both) : notes[m] # NotYet  BY <1>21, <1>22, <1>24, <1>28 DEF Collected
  <2>3. \A m \in Range(both) \ moved : Home(m) = s  BY <1>21, <1>22, <1>25, <1>28 DEF Collected
  <2>. QED  BY <2>1, <2>2, <2>3, <1>3, <1>18, <1>26, <1>27, <1>28, <1>29 DEF Collected
<1>31. Collected(s, listing[s].memos, listing[s].asking)'
  <2>0. l.memos = q \o p  BY <1>2, <1>8, <1>12
  <2>1. both = listing'[s].memos /\ asking = listing'[s].asking  BY <2>0, <1>15, <1>28, <1>29
  <2>. QED  BY <2>1, <1>30 DEF Collected, Home
<1>. QED  BY <1>16, <1>17, <1>31

\* A new export keeps the invariant.
LEMMA StartKeeps ==
  ASSUME ExportInv, handleExportMemos
  PROVE  ExportInv'
<1>1. /\ listing' = [s \in NoteStates |-> FirstAsked] /\ start' = notes /\ saved' = NotSaved
      /\ touched' = {} /\ moved' = {} /\ entered' = Quiet /\ left' = Quiet
      /\ notes' = notes /\ own' = own /\ exporting' = TRUE
  BY DEF handleExportMemos
<1>2. ExportType /\ notes \in Rowset  BY DEF ExportInv, ExportType
<1>3. FirstAsked.asking = TRUE /\ FirstAsked.memos = <<>> /\ FirstAsked.token = 0  BY DEF FirstAsked, NoListing
<1>4. FirstAsked \in ListingType
  <2>1. NoListing \in ListingType  BY DEF NoListing, ListingType
  <2>. QED  BY <2>1 DEF FirstAsked, ListingType
<1>5. ExportType'  BY <1>1, <1>2, <1>4 DEF ExportType, Quiet
<1>6. ASSUME own, NEW s \in NoteStates  PROVE Collected(s, listing[s].memos, listing[s].asking)'
  <2>1. listing'[s] = FirstAsked  BY <1>1
  <2>2. ReadBefore(notes, s)' = {}
    <3>1. notes' \in Rowset' /\ own'  BY <1>1, <1>2, <1>6 DEF Rowset, RowType, NoteStates
    <3>2. ReadBefore(notes, s)' = IF listing'[s].asking THEN ReadIn(notes', listing'[s].token, s) ELSE {}
      BY <3>1, <1>5, ReadIsNext
    <3>3. ReadBefore(notes, s)' = ReadIn(notes, 0, s)  BY <3>2, <2>1, <1>1, <1>3
    <3>4. \A n \in Visible(notes, TRUE, s) : PlaceOf(notes, s, n) \in Nat
      <4>1. Visible(notes, TRUE, s) \in SUBSET Notes  BY <1>2, EarlierOrders
      <4>2. IsFiniteSet(Visible(notes, TRUE, s))  BY <4>1, <1>2, EarlierOrders
      <4>. QED  BY <4>2, PlaceType DEF PlaceOf
    <3>5. ASSUME NEW n \in Visible(notes, TRUE, s)  PROVE ~(PlaceOf(notes, s, n) < 0)
      <4>1. PICK k \in Nat : k = PlaceOf(notes, s, n)  BY <3>4
      <4>2. ~(k < 0)  OBVIOUS
      <4>. QED  BY <4>1, <4>2
    <3>6. \A n : n \notin ReadIn(notes, 0, s)  BY <3>5 DEF ReadIn
    <3>. QED  BY <3>3, <3>6
  <2>3. PICK q : q = <<>>  OBVIOUS
  <2>4. Range(q) = {} /\ \A m : Single(q, m)  BY <2>3 DEF Range, Single
  <2>5. PICK asking : asking = TRUE  OBVIOUS
  <2>6. Collected(s, q, asking)'  BY <2>2, <2>4, <2>5 DEF Collected
  <2>. QED  BY <2>1, <2>3, <2>5, <2>6, <1>3 DEF Collected, Home
<1>7. \A m \in Notes : notes'[m] = start'[m] /\ Stayed(m)'  BY <1>1 DEF Stayed
<1>8. (saved = NotSaved)'  BY <1>1 DEF NotSaved
<1>9. own' => own  BY <1>1
<1>. QED  BY <1>1, <1>5, <1>6, <1>7, <1>8, <1>9 DEF ExportInv

(* The file has what the two listings have collected.                      *)
LEMMA SaveKeeps ==
  ASSUME ExportInv, SaveFile
  PROVE  ExportInv'
<1>1. /\ exporting /\ \A s \in NoteStates : ~listing[s].asking
      /\ saved' = [s \in NoteStates |-> listing[s].memos] /\ exporting' = FALSE
      /\ listing' = listing /\ start' = start /\ notes' = notes /\ own' = own
      /\ touched' = touched /\ moved' = moved /\ entered' = entered /\ left' = left
  BY DEF SaveFile
<1>2. ExportType  BY DEF ExportInv
<1>3. own => saved' \in [NoteStates -> Seq(Notes)]
  <2>1. own => \A s \in NoteStates : listing[s].memos \in Seq(Notes)  BY <1>2 DEF ExportType, ListingType
  <2>. QED  BY <2>1, <1>1
<1>4. ExportType'  BY <1>1, <1>2, <1>3 DEF ExportType
<1>5. ASSUME own, NEW s \in NoteStates  PROVE Collected(s, saved[s], FALSE)'
  <2>1. Collected(s, listing[s].memos, listing[s].asking)  BY <1>1, <1>5 DEF ExportInv
  <2>2. listing[s].asking = FALSE  BY <1>1, <1>2, <1>5 DEF ExportType, ListingType
  <2>3. PICK q : q = listing[s].memos  OBVIOUS
  <2>4. Collected(s, q, FALSE)  BY <2>1, <2>2, <2>3
  <2>5. PICK no : no = FALSE  OBVIOUS
  <2>6. Collected(s, q, no)'  BY <2>4, <2>5, <1>1 DEF Collected, Home
  <2>7. saved'[s] = q  BY <2>3, <1>1
  <2>. QED  BY <2>5, <2>6, <2>7 DEF Collected, Home
<1>6. \A m \in Notes \ touched' : notes'[m] = start'[m]  BY <1>1 DEF ExportInv
<1>7. \A m \in Notes \ moved' : Stayed(m)'  BY <1>1 DEF ExportInv, Stayed
<1>. QED  BY <1>1, <1>4, <1>5, <1>6, <1>7 DEF ExportInv

(* Steps after which no listing and no file is followed.                   *)
LEMMA EndKeeps ==
  ASSUME ExportInv, SwitchUser \/ \E s \in NoteStates : ExportFails(s)
  PROVE  ExportInv'
<1>1. /\ exporting
      /\ saved' = saved /\ start' = start /\ notes' = notes
      /\ touched' = touched /\ moved' = moved /\ entered' = entered /\ left' = left
      /\ \/ own' = FALSE /\ listing' = listing /\ exporting' = exporting
         \/ exporting' = FALSE /\ own' = own /\ listing' = [t \in NoteStates |-> NoListing]
  BY DEF SwitchUser, ExportFails
<1>2. ExportType /\ saved = NotSaved  BY <1>1 DEF ExportInv
<1>3. NoListing \in ListingType  BY DEF NoListing, ListingType
<1>4. ExportType'  BY <1>1, <1>2, <1>3 DEF ExportType
<1>5. (saved = NotSaved)'  BY <1>1, <1>2 DEF NotSaved
<1>6. \A m \in Notes \ touched' : notes'[m] = start'[m]  BY <1>1 DEF ExportInv
<1>7. \A m \in Notes \ moved' : Stayed(m)'  BY <1>1 DEF ExportInv, Stayed
<1>8. ~(own' /\ exporting')  BY <1>1
<1>. QED  BY <1>4, <1>5, <1>6, <1>7, <1>8 DEF ExportInv

(* One step of the export.                                                 *)
LEMMA ExportStep == ExportInv /\ [ExportNext]_exportVars => ExportInv'
<1>. SUFFICES ASSUME ExportInv, [ExportNext]_exportVars  PROVE ExportInv'  OBVIOUS
<1>0. notes \in Rowset /\ \A n \in Notes : notes[n] \in RowType  BY DEF ExportInv, ExportType, Rowset
<1>1. CASE UNCHANGED exportVars
  <2>1. ExportInv' <=> ExportInv
    BY <1>1 DEF exportVars, ExportInv, ExportType, Stayed, Collected, Home, ReadBefore, NotSaved
  <2>. QED  BY <2>1
<1>2. CASE handleExportMemos  BY <1>2, StartKeeps
<1>3. CASE SaveFile  BY <1>3, SaveKeeps
<1>4. CASE SwitchUser  BY <1>4, EndKeeps
<1>5. ASSUME NEW s \in NoteStates, NextPage(s)  PROVE ExportInv'  BY <1>5, NextPageKeeps
<1>6. ASSUME NEW s \in NoteStates, ExportFails(s)  PROVE ExportInv'  BY <1>6, EndKeeps
<1>7. ASSUME NEW n \in Notes, NoteDeleted(n)  PROVE ExportInv'
  <2>1. Shift(n, Deleted) /\ Deleted \in RowType /\ Deleted # NotYet
    BY <1>7, RowsOfNotes DEF NoteDeleted, NotYet, Deleted
  <2>2. PICK row : row = Deleted  OBVIOUS
  <2>3. Shift(n, row)  BY <2>1, <2>2
  <2>. QED  BY <2>1, <2>2, <2>3, ShiftKeeps
<1>8. ASSUME NEW n \in Notes, NEW s \in NoteStates, NoteMoved(n, s)  PROVE ExportInv'
  <2>1. PICK row : row = [notes[n] EXCEPT !.state = s]  OBVIOUS
  <2>2. Shift(n, row) /\ notes[n].state \in NoteStates  BY <2>1, <1>8 DEF NoteMoved
  <2>3. row \in RowType /\ row.state = s  BY <2>1, <1>0, RowsOfNotes
  <2>4. row # NotYet /\ row # Deleted /\ notes[n] # NotYet  BY <2>2, <2>3, RowsOfNotes DEF NoteStates
  <2>. QED  BY <2>2, <2>3, <2>4, ShiftKeeps
<1>9. ASSUME NEW n \in Notes, NEW t \in Seconds, NoteDated(n, t)  PROVE ExportInv'
  <2>1. PICK row : row = [notes[n] EXCEPT !.time = t]  OBVIOUS
  <2>2. Shift(n, row) /\ notes[n].state \in NoteStates  BY <2>1, <1>9 DEF NoteDated
  <2>3. row \in RowType /\ row.state = notes[n].state  BY <2>1, <1>0, RowsOfNotes
  <2>4. row # NotYet /\ row # Deleted /\ notes[n] # NotYet  BY <2>2, <2>3, RowsOfNotes DEF NoteStates
  <2>. QED  BY <2>2, <2>3, <2>4, ShiftKeeps
<1>10. ASSUME NEW n \in Notes, NEW t \in Seconds, NoteCreated(n, t)  PROVE ExportInv'
  <2>1. PICK row : row = [state |-> "NORMAL", time |-> t]  OBVIOUS
  <2>2. Shift(n, row) /\ notes[n] = NotYet  BY <2>1, <1>10 DEF NoteCreated
  <2>3. row \in RowType /\ row.state = "NORMAL"  BY <2>1, RowsOfNotes DEF NoteStates
  <2>4. row # NotYet  BY <2>3, RowsOfNotes
  <2>. QED  BY <2>2, <2>3, <2>4, ShiftKeeps
<1>. QED  BY <1>1, <1>2, <1>3, <1>4, <1>5, <1>6, <1>7, <1>8, <1>9, <1>10 DEF ExportNext

(* How often a list names a memo.                                          *)
LEMMA CopiesAre ==
  ASSUME NEW s, saved[s] \in Seq(Notes), NEW n
  PROVE  /\ n \notin Range(saved[s]) => Copies(n, s) = 0
         /\ n \in Range(saved[s]) => Copies(n, s) >= 1
         /\ Single(saved[s], n) => Copies(n, s) <= 1
<1>1. PICK q \in Seq(Notes) : q = saved[s]  OBVIOUS
<1>2. PICK D : D = {i \in DOMAIN q : q[i] = n}  OBVIOUS
<1>3. Copies(n, s) = Cardinality(D)  BY <1>1, <1>2 DEF Copies
<1>4. IsFiniteSet(D) /\ Cardinality(D) \in Nat
  <2>1. DOMAIN q = 1..Len(q) /\ Len(q) \in Nat /\ 1 \in Int  BY LenProperties
  <2>2. IsFiniteSet(1..Len(q))  BY <2>1, FS_Interval
  <2>3. D \in SUBSET (1..Len(q))  BY <2>1, <1>2
  <2>. QED  BY <2>2, <2>3, FS_Subset, FS_CardinalityType
<1>5. ASSUME n \notin Range(q)  PROVE Cardinality(D) = 0
  <2>1. D = {}  BY <1>2, <1>5 DEF Range
  <2>. QED  BY <2>1, FS_EmptySet
<1>6. ASSUME n \in Range(q)  PROVE Cardinality(D) >= 1
  <2>1. D # {}  BY <1>2, <1>6 DEF Range
  <2>. QED  BY <2>1, <1>4, FS_EmptySet
<1>7. ASSUME Single(q, n)  PROVE Cardinality(D) <= 1
  <2>1. CASE D = {}  BY <2>1, FS_EmptySet
  <2>2. CASE D # {}
    <3>1. PICK i : i \in D  BY <2>2
    <3>2. D = {i}  BY <3>1, <1>2, <1>7 DEF Single
    <3>3. Cardinality({i}) = 1  BY FS_Singleton
    <3>. QED  BY <3>2, <3>3
  <2>. QED  BY <2>1, <2>2
<1>. QED  BY <1>1, <1>3, <1>5, <1>6, <1>7

\* The invariant says what the exported file must hold.
LEMMA ExportTells == ExportInv => ExportFaithful
<1>. SUFFICES ASSUME ExportInv, saved # NotSaved, own
              PROVE  /\ \A n \in Notes \ touched, s \in NoteStates :
                          IF start[n].state # s THEN Copies(n, s) = 0
                          ELSE (entered[s] \/ Copies(n, s) <= 1) /\ (left[s] \/ Copies(n, s) >= 1)
                     /\ moved = {} /\ entered = Quiet => CanImport(saved)
  BY DEF ExportFaithful
<1>1. /\ ExportType /\ \A s \in NoteStates : Collected(s, saved[s], FALSE) /\ saved[s] \in Seq(Notes)
  BY DEF ExportInv, ExportType
<1>2. ASSUME NEW n \in Notes \ touched, NEW s \in NoteStates
      PROVE  /\ start[n].state # s => Copies(n, s) = 0
             /\ start[n].state = s => (entered[s] \/ Copies(n, s) <= 1) /\ (left[s] \/ Copies(n, s) >= 1)
  <2>1. Collected(s, saved[s], FALSE) /\ n \notin moved /\ notes[n] = start[n]
    BY <1>1 DEF ExportInv, ExportType
  <2>2. n \in Range(saved[s]) => start[n].state = s  BY <2>1 DEF Collected, Home
  <2>3. ~entered[s] => Single(saved[s], n)  BY <2>1 DEF Collected
  <2>4. ~left[s] /\ start[n].state = s => n \in Range(saved[s])  BY <2>1 DEF Collected
  <2>. QED  BY <2>2, <2>3, <2>4, <1>1, CopiesAre
<1>3. ASSUME moved = {}, entered = Quiet  PROVE CanImport(saved)
  <2>1. "NORMAL" \in NoteStates /\ "ARCHIVED" \in NoteStates  BY DEF NoteStates
  <2>2. PICK p \in Seq(Notes) : p = saved["NORMAL"]  BY <2>1, <1>1
  <2>3. PICK q \in Seq(Notes) : q = saved["ARCHIVED"]  BY <2>1, <1>1
  <2>4. \A m \in Range(p) : Home(m) = "NORMAL"  BY <2>1, <2>2, <1>1, <1>3 DEF Collected
  <2>5. \A m \in Range(q) : Home(m) = "ARCHIVED"  BY <2>1, <2>3, <1>1, <1>3 DEF Collected
  <2>6. Range(p) \cap Range(q) = {}  BY <2>4, <2>5
  <2>7. (\A m \in Notes : Single(p, m)) /\ (\A m \in Notes : Single(q, m))
    BY <2>1, <2>2, <2>3, <1>1, <1>3 DEF Collected, Quiet
  <2>8. (\A i \in DOMAIN p : p[i] \in Notes) /\ (\A i \in DOMAIN q : q[i] \in Notes)  BY ElementOfSeq, LenProperties
  <2>9. IsInjective(p) /\ IsInjective(q)  BY <2>7, <2>8 DEF IsInjective, Single
  <2>10. IsInjective(p \o q)  BY <2>6, <2>9, ConcatShows
  <2>. QED  BY <2>2, <2>3, <2>10 DEF CanImport, MemosOf
<1>. QED  BY <1>2, <1>3

(* An export that is reported as done holds every memo nobody touched      *)
(* meanwhile, once and under its state, unless another came to be among    *)
(* the pages read or left them; and the import accepts the file unless     *)
(* such a memo or one that changed its place intervened                    *)
(* (listAllMemosForState, createMemoExportFile).                           *)
THEOREM ExportsAreFaithful == ExportSpec => []ExportFaithful
<1>1. ExportInit => ExportInv  BY ExportInitOk
<1>2. ExportInv /\ [ExportNext]_exportVars => ExportInv'  BY ExportStep
<1>3. ExportInv => ExportFaithful  BY ExportTells
<1>. QED  BY <1>1, <1>2, <1>3, PTL DEF ExportSpec
=============================================================================
