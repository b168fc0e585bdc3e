-------------------------------- MODULE MemoApi --------------------------------
(***************************************************************************)
(* The part of the memo service that the editor's save path talks to:      *)
(* CreateMemo, CreateMemoComment, GetMemo and UpdateMemo of                *)
(* server/router/api/v1/memo_service.go.  A memo is the row the server     *)
(* keeps for one client-chosen id (the unique "uid" column); its text      *)
(* stands for everything the editor sends with it.                         *)
(*                                                                         *)
(* A handler is one step here: it reads and writes the table and leaves    *)
(* its reply.  None of them runs in a transaction, so a handler may fail   *)
(* after the row is in the table; that is the "rejected" outcome that      *)
(* leaves a row behind.                                                    *)
(***************************************************************************)
EXTENDS Naturals

CONSTANTS RequestIds,   \* the ids generateUUID can return
          Texts,        \* the non-blank contents a user can type
          Blank,        \* blank content
          NoId,         \* requestId === undefined
          MaxNotes      \* bound on the number of notes composed in a behaviour

ASSUME MemoApiAssumption ==
    /\ NoId \notin RequestIds
    /\ Blank \notin Texts
    /\ MaxNotes \in Nat \ {0}

(***************************************************************************)
(* A note is one thing the user set out to write: it starts with an empty  *)
(* editor and ends when a save of it is confirmed.  The code has no such   *)
(* number; it is carried along only to say which memos came from one note. *)
(***************************************************************************)
Notes == 1 .. MaxNotes
NoNote == 0

VARIABLE memos          \* the memo table: request id -> row, or NoMemo

Memo == [text: Texts, note: Notes, linked: BOOLEAN]
NoMemo == [text |-> Blank, note |-> NoNote, linked |-> FALSE]

Exists(r) == memos[r] # NoMemo

MemoTypeOK == memos \in [RequestIds -> Memo \cup {NoMemo}]

MemoInit == memos = [r \in RequestIds |-> NoMemo]

(***************************************************************************)
(* What travels between the browser and the server.  A request names the   *)
(* memo by the client's id; a reply carries the text only for GetMemo.     *)
(***************************************************************************)
Ops == {"create", "comment", "get", "update"}
Outcomes == {"ok", "exists", "rejected", "memo"}

Request == [phase: {"request"}, op: Ops, rid: RequestIds, text: Texts, note: Notes]
Reply == [phase: {"reply"}, op: Outcomes, rid: RequestIds, text: Texts, note: Notes]
Quiet == [phase |-> "quiet", op |-> "none", rid |-> NoId, text |-> Blank, note |-> NoNote]

--------------------------------------------------------------------------------

(***************************************************************************)
(* CreateMemo inserts the row under the client's id.  It refuses before    *)
(* the insert (authentication, id syntax, content too long), answers       *)
(* AlreadyExists on the unique constraint, and after the insert still has  *)
(* attachments, relations and the conversion of the reply to fail on.      *)
(***************************************************************************)
CreateMemo(q, outcome) ==
    \/ /\ outcome = "rejected"
       /\ UNCHANGED memos
    \/ /\ Exists(q.rid)
       /\ outcome = "exists"
       /\ UNCHANGED memos
    \/ /\ ~Exists(q.rid)
       /\ outcome \in {"ok", "rejected"}
       /\ memos' = [memos EXCEPT ![q.rid] =
                       [text |-> q.text, note |-> q.note, linked |-> FALSE]]

\* Mutant: AlreadyExists is passed on although the relation may be missing.
CommentReportsExists(q, outcome) ==
    \/ /\ Exists(q.rid)
       /\ outcome = "exists"
       /\ UNCHANGED memos
    \/ /\ ~Exists(q.rid)
       /\ \E linked \in BOOLEAN :
             /\ outcome = IF linked THEN "ok" ELSE "rejected"
             /\ memos' = [memos EXCEPT ![q.rid] =
                             [text |-> q.text, note |-> q.note, linked |-> linked]]

(***************************************************************************)
(* CreateMemoComment calls CreateMemo and then stores the relation to the  *)
(* parent.  Every error of CreateMemo, AlreadyExists included, becomes     *)
(* Internal.  The relation may fail after the row is stored, and so may    *)
(* the inbox message after the relation.                                   *)
(***************************************************************************)
CreateMemoComment(q, outcome) ==
    \/ /\ outcome = "rejected"
       /\ UNCHANGED memos
    \/ /\ ~Exists(q.rid)
       /\ \E linked \in BOOLEAN :
             /\ outcome \in IF linked THEN {"ok", "rejected"} ELSE {"rejected"}
             /\ memos' = [memos EXCEPT ![q.rid] =
                             [text |-> q.text, note |-> q.note, linked |-> linked]]

(***************************************************************************)
(* UpdateMemo replaces the content of an existing memo; there is no        *)
(* revision to compare, the last writer wins.                              *)
(***************************************************************************)
UpdateMemo(q, outcome) ==
    \/ /\ outcome = "rejected"
       /\ UNCHANGED memos
    \/ /\ Exists(q.rid)
       /\ outcome \in {"ok", "rejected"}
       /\ memos' = [memos EXCEPT ![q.rid].text = q.text]

(***************************************************************************)
(* GetMemo reads the row; the save path only asks for memos of the user.   *)
(***************************************************************************)
GetMemo(q, outcome) ==
    /\ UNCHANGED memos
    /\ \/ outcome = "rejected"
       \/ Exists(q.rid) /\ outcome = "memo"

(***************************************************************************)
(* The server runs one handler for request q with this outcome, and the    *)
(* reply that leaves the server.                                           *)
(***************************************************************************)
Handle(q, outcome) ==
    \/ q.op = "create"  /\ CreateMemo(q, outcome)
    \/ q.op = "comment" /\ CreateMemoComment(q, outcome)
    \/ q.op = "update"  /\ UpdateMemo(q, outcome)
    \/ q.op = "get"     /\ GetMemo(q, outcome)

ReplyTo(q, outcome) ==
    [phase |-> "reply", op |-> outcome, rid |-> q.rid, note |-> q.note,
     text |-> IF outcome = "memo" THEN memos[q.rid].text ELSE q.text]
================================================================================
