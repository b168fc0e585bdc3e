------------------------------ MODULE MemoStore ------------------------------
(***************************************************************************)
(* The memo tables and the attachment files under concurrent requests:     *)
(* creating memos and comments, setting attachments and references,        *)
(* reactions, shares, messages to mentioned users, DeleteMemo, deleting    *)
(* attachments and users, and the import of an export, on SQLite.          *)
(*                                                                         *)
(* A request is a sequence of statements.  Each statement commits by       *)
(* itself; executing one may put further statements in front of the rest   *)
(* (what a loop over the list it read will do).  Statements of different   *)
(* requests interleave, any of them may fail, and the process may crash.   *)
(* The import holds the database's write lock from its first statement to  *)
(* its commit.  Ids are never used again (AUTOINCREMENT, random uids).     *)
(***************************************************************************)
EXTENDS Naturals, FiniteSets, SequencesExt

CONSTANTS
  Users, Memos, Atts,  \* ids
  Admins,              \* the users that are administrators
  Procs,               \* goroutines that serve requests
  Kinds,               \* the requests that are made
  MaxInitial,          \* bound on the memos there are to begin with
  MaxRequests,         \* bound on requests
  MaxRefs,             \* bound on the references a request names
  MaxErrors,           \* bound on failed statements and crashes
  None

VARIABLES
  db,        \* the tables
  files,     \* attachments whose content is in storage
  proc,      \* per goroutine: the statements its request still has to execute
  writer,    \* the goroutine that holds the write lock across statements
  requests,  \* number of requests so far
  errors,    \* number of failed statements and crashes so far
  used,      \* memo and attachment ids given out
  parentOf,  \* history: the memo a comment was made on
  late,      \* history: rows written while what they refer to was gone or going
  cut        \* history: memos and attachments whose removal or upload was cut short

storeVars == <<db, files, proc, writer, requests, errors, used, parentOf, late, cut>>

ASSUME StoreAssumption ==
  /\ IsFiniteSet(Users) /\ IsFiniteSet(Memos) /\ IsFiniteSet(Atts) /\ Memos \cap Atts = {}
  /\ Admins \subseteq Users
  /\ None \notin Users \cup Memos \cup Atts \cup Procs
  /\ MaxInitial \in Nat /\ MaxRequests \in Nat /\ MaxErrors \in Nat /\ MaxRefs \in Nat

NoAtt == [creator |-> None, memo |-> None]

Row(by, to, m, related) == [by |-> by, to |-> to, memo |-> m, related |-> related]

CanModify(u, creator) == u = creator \/ u \in Admins

\* The rows of an earlier life: memos, comments (their messages in the inbox
\* included) and attachments.
Holds(memo, parent, att) ==
  LET comments == {m \in Memos : parent[m] # None}
  IN /\ Cardinality({m \in Memos : memo[m] # None}) <= MaxInitial
     /\ \A m \in comments : memo[m] # None /\ memo[parent[m]] # None
     /\ \E age \in [Memos -> 1..Cardinality(Memos)] : \A m \in comments : age[m] < age[parent[m]]
     /\ \A a \in Atts : att[a].memo # None =>
          memo[att[a].memo] # None /\ CanModify(att[a].creator, memo[att[a].memo])
     /\ db = [users |-> Users,
              memo |-> memo,
              rel |-> {<<m, parent[m], "COMMENT">> : m \in comments},
              att |-> att,
              reaction |-> {}, share |-> {},
              inbox |-> {Row(memo[m], memo[parent[m]], m, parent[m]) :
                           m \in {c \in comments : memo[c] # memo[parent[c]]}}]
     /\ files = {a \in Atts : att[a] # NoAtt}
     /\ used = {m \in Memos : memo[m] # None} \cup files
     /\ parentOf = parent

StoreInit ==
  /\ \E memo \in [Memos -> Users \cup {None}], parent \in [Memos -> Memos \cup {None}],
        att \in [Atts -> {NoAtt} \cup [creator : Users, memo : Memos \cup {None}]] :
       Holds(memo, parent, att)
  /\ proc = [p \in Procs |-> <<>>]
  /\ writer = None
  /\ requests = 0
  /\ errors = 0
  /\ late = {}
  /\ cut = {}
-----------------------------------------------------------------------------
(* Reading the tables.                                                     *)

MemoExists(m) == db.memo[m] # None
AttExists(a) == db.att[a].creator # None
CommentsOf(m) == {r[1] : r \in {x \in db.rel : x[2] = m /\ x[3] = "COMMENT"}}
ParentOf(m) ==
  LET parents == {x \in Memos : <<m, x, "COMMENT">> \in db.rel /\ MemoExists(x)}
  IN IF parents = {} THEN None ELSE CHOOSE x \in parents : TRUE
AttsOf(m) == {a \in Atts : db.att[a].memo = m /\ AttExists(a)}

\* listDeleteUserMemoTree: the memos of u, and the comments below them.
MemoTree(u) ==
  LET closed(S) == \A m \in S : {c \in CommentsOf(m) : MemoExists(c)} \subseteq S
      own == {m \in Memos : db.memo[m] = u}
  IN {m \in Memos : \A S \in SUBSET Memos : own \subseteq S /\ closed(S) => m \in S}

\* listDeleteUserAttachments and listDeleteUserInboxIDs.
AttsOfUser(u, tree) == {a \in Atts : AttExists(a) /\ (db.att[a].creator = u \/ db.att[a].memo \in tree)}
TouchesUser(r, u, tree) == u \in {r.by, r.to} \/ {r.memo, r.related} \cap tree # {}

\* A statement of a removal of m is still to be executed.
Removing(m) == \E p \in Procs : \E i \in DOMAIN proc[p] :
                 proc[p][i][1] \in {"wipe", "unrelateTo", "listAtts", "memoRow"} /\ proc[p][i][2] = m

Going(m) == m # None /\ (~MemoExists(m) \/ Removing(m))

Pending(op, x) == \E p \in Procs : \E i \in DOMAIN proc[p] : proc[p][i][1] = op /\ proc[p][i][2] = x
-----------------------------------------------------------------------------
(* Executing statements.                                                   *)

At(p, op) == proc[p] # <<>> /\ Head(proc[p])[1] = op
Arg(p, i) == Head(proc[p])[i]
CanWrite(p) == writer \in {None, p}

\* The statement is done; more is what its handler does next.
Continue(p, more) == proc' = [proc EXCEPT ![p] = more \o Tail(@)]

\* What a request that ends here leaves half done.
Unfinished(p) ==
  {proc[p][i][2] : i \in {j \in DOMAIN proc[p] :
     proc[p][j][1] \in {"unrelateTo", "listAtts", "memoRow", "attRow", "attInsert", "file", "cleanup"}}}

\* The handler returns an error; an open transaction is rolled back.
Abort(p) ==
  /\ proc' = [proc EXCEPT ![p] = <<>>]
  /\ writer' = IF writer = p THEN None ELSE writer
  /\ cut' = cut \cup Unfinished(p)

Each(op, order) == [i \in DOMAIN order |-> <<op, order[i]>>]

\* A statement that reads and decides what to do.
Read(p, more) ==
  /\ Continue(p, more)
  /\ UNCHANGED <<db, files, writer, requests, errors, used, parentOf, late, cut>>

\* A statement that changes the tables.
Write(p, tables) ==
  /\ CanWrite(p)
  /\ db' = tables
  /\ Continue(p, <<>>)
  /\ UNCHANGED <<files, writer, requests, errors, used, cut>>

Refuse(p) ==
  /\ Abort(p)
  /\ UNCHANGED <<db, files, requests, errors, used, parentOf, late>>

NoHistory == UNCHANGED <<parentOf, late>>
-----------------------------------------------------------------------------
(* DeleteMemo and Store.DeleteMemo.                                        *)

ListNoComments(p) == At(p, "comments") /\ Read(p, <<<<"wipe", Arg(p, 2)>>>>)

\* The service lists the comments and deletes them before the memo.
ListComments(p) ==
  /\ At(p, "comments")
  /\ \E order \in SetToSeqs(CommentsOf(Arg(p, 2))) :
       Read(p, Each("wipe", order) \o <<<<"wipe", Arg(p, 2)>>>>)

\* Store.DeleteMemo, first statement; the others follow.
Wipe(p) ==
  /\ At(p, "wipe")
  /\ CanWrite(p)
  /\ LET m == Arg(p, 2) IN
       /\ db' = [db EXCEPT !.rel = {r \in @ : r[1] # m}]
       /\ Continue(p, <<<<"unrelateTo", m>>, <<"listAtts", m>>, <<"memoRow", m>>>>)
  /\ UNCHANGED <<files, writer, requests, errors, used, parentOf, late, cut>>

UnrelateNothing(p) == At(p, "unrelateTo") /\ Write(p, db) /\ NoHistory

UnrelateTo(p) ==
  /\ At(p, "unrelateTo")
  /\ Write(p, [db EXCEPT !.rel = {r \in @ : r[2] # Arg(p, 2)}])
  /\ NoHistory

ListAtts(p) ==
  /\ At(p, "listAtts")
  /\ \E order \in SetToSeqs(AttsOf(Arg(p, 2))) : Read(p, Each("drop", order))

DropMemo(p) ==
  /\ At(p, "memoRow")
  /\ Write(p, [db EXCEPT !.memo[Arg(p, 2)] = None])
  /\ NoHistory
-----------------------------------------------------------------------------
(* Attachments.                                                            *)

\* SaveAttachmentBlob, then the row.
WriteFile(p) ==
  /\ At(p, "upload")
  /\ files' = files \cup {Arg(p, 2)}
  /\ Continue(p, <<>>)
  /\ UNCHANGED <<db, writer, requests, errors, used, parentOf, late, cut>>

InsertAtt(p) ==
  LET a == Arg(p, 2) u == Arg(p, 3) m == Arg(p, 4)
  IN /\ At(p, "attInsert")
     /\ Write(p, [db EXCEPT !.att[a] = [creator |-> u, memo |-> m]])
     /\ late' = late \cup (IF u \notin db.users \/ Going(m) THEN {<<"att", a>>} ELSE {})
     /\ UNCHANGED parentOf

DropForgetsRow(p) ==
  /\ At(p, "drop")
  /\ IF AttExists(Arg(p, 2)) THEN Read(p, <<<<"file", Arg(p, 2)>>>>) ELSE Refuse(p)

\* Store.DeleteAttachment: an attachment that is gone is an error.
Drop(p) ==
  /\ At(p, "drop")
  /\ IF AttExists(Arg(p, 2))
       THEN Read(p, <<<<"file", Arg(p, 2)>>, <<"attRow", Arg(p, 2)>>>>)
       ELSE Refuse(p)

\* deleteAttachmentStorageImpl; a file that is missing is no error.
DropFile(p) ==
  /\ At(p, "file") \/ At(p, "cleanup")
  /\ files' = files \ {Arg(p, 2)}
  /\ Continue(p, <<>>)
  /\ UNCHANGED <<db, writer, requests, errors, used, parentOf, late, cut>>

DropAttRow(p) ==
  /\ At(p, "attRow")
  /\ Write(p, [db EXCEPT !.att[Arg(p, 2)] = NoAtt])
  /\ NoHistory

\* Store.DeleteAttachments: the rows in one transaction, then the files.
DropAttRows(p) ==
  /\ At(p, "attRows")
  /\ CanWrite(p)
  /\ db' = [db EXCEPT !.att = [a \in Atts |-> IF a \in Arg(p, 2) THEN NoAtt ELSE db.att[a]]]
  /\ \E order \in SetToSeqs(Arg(p, 2)) : Continue(p, Each("file", order))
  /\ UNCHANGED <<files, writer, requests, errors, used, parentOf, late, cut>>

\* setMemoAttachmentsInternal: check the request, delete what it leaves out,
\* attach what it names.  Another user's attachment cannot be removed.
SetAtts(p) ==
  LET m == Arg(p, 2) u == Arg(p, 3) wanted == Arg(p, 4)
      mayUse(a) == CanModify(u, db.att[a].creator)
      attach(order) == [i \in DOMAIN order |-> <<"attach", order[i], m>>]
  IN /\ At(p, "setAtts")
     /\ IF \A a \in wanted : AttExists(a) /\ mayUse(a)
          THEN \E old \in SetToSeqs(AttsOf(m) \ wanted), new \in SetToSeqs(wanted) :
                 Read(p, [i \in DOMAIN old |-> <<IF mayUse(old[i]) THEN "drop" ELSE "deny", old[i]>>]
                         \o attach(new))
          ELSE Refuse(p)

Deny(p) == At(p, "deny") /\ Refuse(p)

\* UpdateAttachment of memo_id; a row that is gone stays gone.
Attach(p) ==
  LET a == Arg(p, 2) m == Arg(p, 3)
  IN /\ At(p, "attach")
     /\ Write(p, IF AttExists(a) THEN [db EXCEPT !.att[a].memo = m] ELSE db)
     /\ late' = late \cup (IF AttExists(a) /\ Going(m) THEN {<<"att", a>>} ELSE {})
     /\ UNCHANGED parentOf
-----------------------------------------------------------------------------
(* Rows of memos, relations, reactions, shares and the inbox.              *)

InsertMemo(p) ==
  LET m == Arg(p, 2) u == Arg(p, 3)
  IN /\ At(p, "insert")
     /\ Write(p, [db EXCEPT !.memo[m] = u])
     /\ late' = late \cup (IF u \notin db.users THEN {<<"memo", m>>} ELSE {})
     /\ UNCHANGED parentOf

\* UpsertMemoRelation.
Relate(p) ==
  LET r == <<Arg(p, 2), Arg(p, 3), Arg(p, 4)>>
  IN /\ At(p, "relate")
     /\ Write(p, [db EXCEPT !.rel = @ \cup {r}])
     /\ late' = late \cup (IF Going(r[1]) \/ Going(r[2]) THEN {<<"rel", r>>} ELSE {})
     /\ parentOf' = IF r[3] = "COMMENT" THEN [parentOf EXCEPT ![r[1]] = r[2]] ELSE parentOf

\* setMemoRelationsInternal deletes the references before it adds the new ones.
ClearRefs(p) ==
  /\ At(p, "clearRefs")
  /\ Write(p, [db EXCEPT !.rel = {r \in @ : r[1] # Arg(p, 2) \/ r[3] # "REFERENCE"}])
  /\ NoHistory

\* ... and looks every related memo up; one that is gone ends the request.
Lookup(p) ==
  /\ At(p, "lookup")
  /\ IF MemoExists(Arg(p, 3))
       THEN Read(p, <<<<"relate", Arg(p, 2), Arg(p, 3), "REFERENCE">>>>)
       ELSE Refuse(p)

\* UpsertReaction, CreateMemoShare and CreateInbox.
AddRow(p) ==
  LET row == Arg(p, 3)
  IN /\ At(p, "row")
     /\ Write(p, CASE Arg(p, 2) = "reaction" -> [db EXCEPT !.reaction = @ \cup {row}]
                   [] Arg(p, 2) = "share" -> [db EXCEPT !.share = @ \cup {row}]
                   [] OTHER -> [db EXCEPT !.inbox = @ \cup {row}])
     /\ late' = late \cup (IF row.by \in db.users /\ row.to \in db.users THEN {} ELSE {<<"row", row>>})
     /\ UNCHANGED parentOf

DropRow(p) ==
  LET row == Arg(p, 2)
  IN /\ At(p, "unrow")
     /\ Write(p, [db EXCEPT !.reaction = @ \ {row}, !.share = @ \ {row}, !.inbox = @ \ {row}])
     /\ NoHistory

\* Users who get no message about being mentioned: the author, and the owner
\* of the parent memo, who is told of the comment anyway.
shouldSkipMentionInbox(target, u, parent) ==
  target = u \/ (parent # None /\ target = db.memo[parent] /\ u # db.memo[parent])

\* dispatchMemoMentionNotifications: the users named in the text that exist.
Notify(p, m, u, parent) ==
  \E named \in SUBSET {v \in db.users : ~shouldSkipMentionInbox(v, u, parent)} :
    \E order \in SetToSeqs(named) :
      Read(p, [i \in DOMAIN order |-> <<"row", "inbox", Row(u, order[i], m, parent)>>])

Mention(p) == At(p, "mention") /\ Notify(p, Arg(p, 2), Arg(p, 3), Arg(p, 4))

\* buildUpdatedMemoState reads the memo and its parent again after an update.
Rebuild(p) ==
  LET m == Arg(p, 2)
  IN /\ At(p, "rebuild")
     /\ IF MemoExists(m) THEN Notify(p, m, db.memo[m], ParentOf(m)) ELSE Refuse(p)
-----------------------------------------------------------------------------
(* The transactions.                                                       *)

\* DeleteUser of the driver: collect the targets, delete everything that
\* belongs to the user or to the memo tree, commit.  The service then removes
\* the files of the attachments that are gone.
DeleteUserTx(p) ==
  LET u == Arg(p, 2)
      tree == MemoTree(u)
      atts == AttsOfUser(u, tree)
  IN /\ At(p, "deleteUser")
     /\ CanWrite(p)
     /\ db' = [users |-> db.users \ {u},
               memo |-> [m \in Memos |-> IF m \in tree THEN None ELSE db.memo[m]],
               rel |-> {r \in db.rel : r[1] \notin tree /\ r[2] \notin tree},
               att |-> [a \in Atts |-> IF a \in atts THEN NoAtt ELSE db.att[a]],
               reaction |-> {r \in db.reaction : r.by # u /\ r.memo \notin tree},
               share |-> {r \in db.share : r.by # u /\ r.memo \notin tree},
               inbox |-> {r \in db.inbox : ~TouchesUser(r, u, tree)}]
     /\ \E order \in SetToSeqs(atts) : Continue(p, Each("cleanup", order))
     /\ UNCHANGED <<files, writer, requests, errors, used, parentOf, late, cut>>

ImportCheckFirst(u, batch) == <<<<"empty", u>>, <<"lock", u>>, <<"load", u, batch>>>>

\* ImportMemosAtomically: the update of the user row takes the write lock.
ImportOps(u, batch) == <<<<"lock", u>>, <<"empty", u>>, <<"load", u, batch>>>>

Lock(p) ==
  /\ At(p, "lock")
  /\ IF Arg(p, 2) \in db.users
       THEN /\ writer = None
            /\ writer' = p
            /\ Continue(p, <<>>)
            /\ UNCHANGED cut
       ELSE Abort(p)
  /\ UNCHANGED <<db, files, requests, errors, used, parentOf, late>>

CheckEmpty(p) ==
  /\ At(p, "empty")
  /\ IF \A m \in Memos : db.memo[m] # Arg(p, 2) THEN Read(p, <<>>) ELSE Refuse(p)

LoadBatch(p) ==
  /\ At(p, "load")
  /\ CanWrite(p)
  /\ db' = [db EXCEPT !.memo = [m \in Memos |-> IF m \in Arg(p, 3) THEN Arg(p, 2) ELSE db.memo[m]]]
  /\ writer' = None
  /\ Continue(p, <<>>)
  /\ UNCHANGED <<files, requests, errors, used, parentOf, late, cut>>
-----------------------------------------------------------------------------
(* Failures.                                                               *)

StatementFails(p) ==
  /\ proc[p] # <<>> /\ ~At(p, "cleanup")
  /\ errors < MaxErrors
  /\ errors' = errors + 1
  /\ Abort(p)
  /\ UNCHANGED <<db, files, requests, used, parentOf, late>>

\* An error of the storage is only logged, for an S3 object or after DeleteUser;
\* for a local file it ends the request (StatementFails).
StorageFails(p) ==
  /\ At(p, "file") \/ At(p, "cleanup")
  /\ errors < MaxErrors
  /\ errors' = errors + 1
  /\ Continue(p, <<>>)
  /\ cut' = cut \cup {Arg(p, 2)}
  /\ UNCHANGED <<db, files, writer, requests, used, parentOf, late>>

Crash ==
  /\ errors < MaxErrors
  /\ errors' = errors + 1
  /\ proc' = [p \in Procs |-> <<>>]
  /\ writer' = None
  /\ cut' = cut \cup UNION {Unfinished(p) : p \in Procs}
  /\ UNCHANGED <<db, files, requests, used, parentOf, late>>
-----------------------------------------------------------------------------
(* Requests: the checks of the handlers and the statements they lead to.   *)

Free(p) == proc[p] = <<>> /\ requests < MaxRequests

Start(p, kind, ids, ops) ==
  /\ kind \in Kinds
  /\ Free(p)
  /\ ids \cap used = {}
  /\ proc' = [proc EXCEPT ![p] = ops]
  /\ requests' = requests + 1
  /\ used' = used \cup ids
  /\ UNCHANGED <<db, files, writer, errors, parentOf, late, cut>>

RefSets == {refs \in SUBSET (Memos \cap used) : Cardinality(refs) <= MaxRefs}

SetRefs(m, order) == <<<<"clearRefs", m>>>> \o [i \in DOMAIN order |-> <<"lookup", m, order[i]>>]

CreateMemo(p, u, m, atts, refs) ==
  \E order \in SetToSeqs(refs) :
    Start(p, "CreateMemo", {m},
          <<<<"insert", m, u>>>>
          \o (IF atts = {} THEN <<>> ELSE <<<<"setAtts", m, u, atts>>>>)
          \o (IF refs = {} THEN <<>> ELSE SetRefs(m, order))
          \o <<<<"mention", m, u, None>>>>)

\* An update mask with one path: attachments, relations, or the text, after
\* which the memo is read again and the users it names are told.
UpdateMemo(p, u, m, change) ==
  /\ MemoExists(m) /\ CanModify(u, db.memo[m])
  /\ Start(p, "UpdateMemo", {}, change)

\* A comment on a memo of another user also leaves a message in the inbox.
CreateMemoComment(p, u, c, parent) ==
  /\ MemoExists(parent)
  /\ Start(p, "CreateMemoComment", {c},
           <<<<"insert", c, u>>, <<"relate", c, parent, "COMMENT">>>>
           \o (IF db.memo[parent] = u THEN <<>>
               ELSE <<<<"row", "inbox", Row(u, db.memo[parent], c, parent)>>>>)
           \o <<<<"mention", c, u, parent>>>>)

Changes(u, m) ==
  {<<<<"rebuild", m>>>>}
    \cup {<<<<"setAtts", m, u, atts>>>> : atts \in SUBSET Atts}
    \cup {SetRefs(m, SetToSeq(refs \ {m})) : refs \in RefSets}

SetMemoAttachments(p, u, m, atts) ==
  /\ MemoExists(m) /\ CanModify(u, db.memo[m])
  /\ Start(p, "SetMemoAttachments", {}, <<<<"setAtts", m, u, atts>>>>)

SetMemoRelations(p, u, m, refs) ==
  /\ MemoExists(m) /\ CanModify(u, db.memo[m])
  /\ \E order \in SetToSeqs(refs \ {m}) : Start(p, "SetMemoRelations", {}, SetRefs(m, order))

DeleteMemo(p, u, m) ==
  /\ MemoExists(m) /\ CanModify(u, db.memo[m])
  /\ Start(p, "DeleteMemo", {}, <<<<"comments", m>>>>)

CreateAttachment(p, u, a, m) ==
  /\ m # None => MemoExists(m) /\ CanModify(u, db.memo[m])
  /\ Start(p, "CreateAttachment", {a}, <<<<"upload", a>>, <<"attInsert", a, u, m>>>>)

DeleteAttachment(p, u, a) ==
  /\ db.att[a].creator = u
  /\ Start(p, "DeleteAttachment", {}, <<<<"drop", a>>>>)

BatchDeleteAttachments(p, u, atts) ==
  /\ atts # {}
  /\ \A a \in atts : AttExists(a) /\ CanModify(u, db.att[a].creator)
  /\ Start(p, "BatchDeleteAttachments", {}, <<<<"attRows", atts>>>>)

UpsertMemoReaction(p, u, m) ==
  /\ MemoExists(m)
  /\ Start(p, "UpsertMemoReaction", {}, <<<<"row", "reaction", Row(u, u, m, None)>>>>)

DeleteMemoReaction(p, u, r) ==
  /\ r \in db.reaction /\ CanModify(u, r.by)
  /\ Start(p, "DeleteMemoReaction", {}, <<<<"unrow", r>>>>)

CreateMemoShare(p, u, m) ==
  /\ MemoExists(m) /\ CanModify(u, db.memo[m])
  /\ Start(p, "CreateMemoShare", {}, <<<<"row", "share", Row(u, u, m, m)>>>>)

DeleteMemoShare(p, u, r) ==
  /\ r \in db.share /\ MemoExists(r.memo) /\ CanModify(u, db.memo[r.memo])
  /\ Start(p, "DeleteMemoShare", {}, <<<<"unrow", r>>>>)

DeleteUserNotification(p, u, r) ==
  /\ r \in db.inbox /\ r.to = u
  /\ Start(p, "DeleteUserNotification", {}, <<<<"unrow", r>>>>)

DeleteUser(p, u, target) ==
  /\ target \in db.users /\ CanModify(u, target)
  /\ Start(p, "DeleteUser", {}, <<<<"deleteUser", target>>>>)

ImportMemoExport(p, u, batch) ==
  /\ batch # {}
  /\ Start(p, "ImportMemoExport", batch, ImportOps(u, batch))

Request(p, u) ==
  \/ \E m \in Memos \ used, atts \in SUBSET Atts, refs \in RefSets :
       CreateMemo(p, u, m, atts, refs)
  \/ \E m \in Memos \cap used :
       \/ DeleteMemo(p, u, m)
       \/ UpsertMemoReaction(p, u, m)
       \/ CreateMemoShare(p, u, m)
       \/ \E c \in Memos \ used : CreateMemoComment(p, u, c, m)
       \/ \E atts \in SUBSET Atts : SetMemoAttachments(p, u, m, atts)
       \/ \E refs \in RefSets : SetMemoRelations(p, u, m, refs)
       \/ \E change \in Changes(u, m) : UpdateMemo(p, u, m, change)
  \/ \E a \in Atts : \/ \E m \in (Memos \cap used) \cup {None} : CreateAttachment(p, u, a, m)
                     \/ DeleteAttachment(p, u, a)
  \/ \E atts \in SUBSET Atts : BatchDeleteAttachments(p, u, atts)
  \/ \E r \in db.reaction : DeleteMemoReaction(p, u, r)
  \/ \E r \in db.share : DeleteMemoShare(p, u, r)
  \/ \E r \in db.inbox : DeleteUserNotification(p, u, r)
  \/ \E target \in Users : DeleteUser(p, u, target)
  \/ \E batch \in SUBSET (Memos \ used) : ImportMemoExport(p, u, batch)

Statement(p) ==
  \/ ListComments(p) \/ Wipe(p) \/ UnrelateTo(p) \/ ListAtts(p) \/ DropMemo(p)
  \/ WriteFile(p) \/ InsertAtt(p) \/ Drop(p) \/ DropFile(p) \/ DropAttRow(p)
  \/ DropAttRows(p) \/ SetAtts(p) \/ Deny(p) \/ Attach(p)
  \/ InsertMemo(p) \/ Relate(p) \/ ClearRefs(p) \/ Lookup(p) \/ AddRow(p) \/ DropRow(p) \/ Rebuild(p) \/ Mention(p)
  \/ DeleteUserTx(p) \/ Lock(p) \/ CheckEmpty(p) \/ LoadBatch(p)

StoreNext ==
  \/ \E p \in Procs : Free(p) /\ \E u \in db.users : Request(p, u)
  \/ \E p \in Procs : Statement(p) \/ StatementFails(p) \/ StorageFails(p)
  \/ Crash

StoreSpec == StoreInit /\ [][StoreNext]_storeVars
-----------------------------------------------------------------------------
(* Properties.                                                             *)

\* Deleting memos, attachments and users leaves no relation, attachment, memo,
\* reaction, share or message that points to something that is gone, wherever
\* a request was cut short, except for rows that a request under way wrote
\* after (or while) their target was removed, and except for what DeleteMemo
\* leaves behind: reactions, shares and messages of a memo.
NoDanglingRow ==
  /\ \A r \in db.rel : (MemoExists(r[1]) /\ MemoExists(r[2])) \/ <<"rel", r>> \in late
  /\ \A a \in Atts : AttExists(a) =>
       \/ db.att[a].creator \in db.users /\ (db.att[a].memo = None \/ MemoExists(db.att[a].memo))
       \/ <<"att", a>> \in late
  /\ \A m \in Memos : MemoExists(m) => db.memo[m] \in db.users \/ <<"memo", m>> \in late
  /\ \A r \in db.reaction \cup db.share \cup db.inbox :
       {r.by, r.to} \subseteq db.users \/ <<"row", r>> \in late

\* A comment never turns into a memo of the timeline: as long as its row is
\* there it is tied to its parent, unless its own deletion is under way or was
\* cut short, it was written while the parent was being deleted, or it
\* answers another comment (DeleteMemo does not go down to replies).
CommentStaysComment ==
  \A c \in Memos : MemoExists(c) /\ parentOf[c] # None =>
    LET r == <<c, parentOf[c], "COMMENT">>
    IN r \in db.rel \/ <<"rel", r>> \in late \/ Removing(c) \/ c \in cut \/ parentOf[parentOf[c]] # None

\* Attachment rows and stored content agree.  An attachment that is listed can
\* be read, unless its deletion is between the file and the row or was cut
\* short there; and no content is left without a row, unless an upload or a
\* removal is under way or was cut short.
RowsMatchContent ==
  /\ \A a \in Atts : AttExists(a) => a \in files \/ Pending("attRow", a) \/ a \in cut
  /\ \A a \in files : \/ AttExists(a)
                      \/ \E op \in {"attInsert", "file", "cleanup"} : Pending(op, a)
                      \/ a \in cut

\* An export is imported into an empty account and as a whole: a step that
\* adds several memos to an account finds none there.
ImportIntoEmpty ==
  [][\A u \in Users :
       LET mine(tables) == {m \in Memos : tables[m] = u}
       IN Cardinality(mine(db'.memo) \ mine(db.memo)) > 1 => mine(db.memo) = {}]_storeVars
==============================================================================
