----------------------------- MODULE NoteLinks ------------------------------
(***************************************************************************)
(* The links of a note to other notes: the search dialog that adds one,    *)
(* the list that removes one, and the save that sends the whole list.  The *)
(* list the editor starts from holds every relation of the note, in both   *)
(* directions and of both types; the server keeps of what it is sent the   *)
(* references to other notes and leaves all other rows alone.              *)
(*                                                                         *)
(* A relation is [memo, related, type]; memo is NewMemo for one made in    *)
(* the editor.  Rows are the rows of memo_relation.  No note is deleted.   *)
(***************************************************************************)
EXTENDS Naturals, Sequences, FiniteSets, ArrayOps

CONSTANTS
  Memos,        \* notes that can be linked, Own among them
  Own,          \* the note in the editor, once it is stored
  NewMemo,      \* stands for "no memo name"
  Hits,         \* search text -> the notes it finds
  MaxSearches,  \* bound on searches sent
  MaxTouched,   \* bound on links added and removed
  MaxSaved      \* bound on saves

VARIABLES
  rows,          \* the stored relations
  memoName,      \* the note in the editor, NewMemo before the first save
  parent,        \* the note it comments on, NewMemo if none
  relations,     \* state.metadata.relations
  linkDialog,    \* linkDialogOpen
  searchText, searchTimer,
  searches,      \* the searches under way, by text
  fetchedMemos,  \* the last answer
  sent, touched, saved,
  linked         \* history: the notes the user has linked

linkVars == <<rows, memoName, parent, relations, linkDialog, searchText, searchTimer, searches,
              fetchedMemos, sent, touched, saved, linked>>

Texts == DOMAIN Hits

ASSUME LinksAssumption ==
  /\ Own \in Memos /\ NewMemo \notin Memos
  /\ "" \in Texts /\ \A t \in Texts : Hits[t] \subseteq Memos
  /\ MaxSearches \in Nat /\ MaxTouched \in Nat /\ MaxSaved \in Nat

Relation(memo, related, type) == [memo |-> memo, related |-> related, type |-> type]
References(rs) == {r.related : r \in {q \in rs : q.memo = Own /\ q.type = "REFERENCE"}}
-----------------------------------------------------------------------------
(* The server.                                                             *)

\* setMemoRelationsInternal: the references are replaced by the ones sent, except
\* comments and references of the note to itself.
SetMemoRelations(rs, list) ==
  {r \in rs : r.memo # Own \/ r.type # "REFERENCE"}
  \union {Relation(Own, list[i].related, "REFERENCE") :
            i \in {j \in DOMAIN list : list[j].related # Own /\ list[j].type # "COMMENT"}}

\* Rows come back in the order of their index, comments first, and outgoing ones
\* before incoming ones.
LoadRelations(rs) ==
  LET Rows(memo, type) == SetToSeq({r \in rs : (r.memo = Own) = memo /\ r.type = type})
  IN Rows(TRUE, "COMMENT") \o Rows(TRUE, "REFERENCE") \o Rows(FALSE, "COMMENT") \o Rows(FALSE, "REFERENCE")
-----------------------------------------------------------------------------
(* The search dialog.                                                      *)

\* Opening it empties the search, and either starts the timer.
OpenLinks ==
  /\ ~linkDialog /\ touched < MaxTouched
  /\ linkDialog' = TRUE
  /\ searchText' = "" /\ searchTimer' = TRUE
  /\ UNCHANGED <<rows, memoName, parent, relations, searches, fetchedMemos, sent, touched, saved,
                 linked>>

\* The effect runs on closing too, to no avail.
CloseLinks ==
  /\ linkDialog
  /\ linkDialog' = FALSE
  /\ searchTimer' = FALSE
  /\ UNCHANGED <<rows, memoName, parent, relations, searchText, searches, fetchedMemos, sent, touched,
                 saved, linked>>

TypeSearch(t) ==
  /\ linkDialog /\ t # searchText
  /\ searchText' = t /\ searchTimer' = TRUE
  /\ UNCHANGED <<rows, memoName, parent, relations, linkDialog, searches, fetchedMemos, sent, touched,
                 saved, linked>>

SearchSent ==
  /\ searchTimer /\ sent < MaxSearches
  /\ sent' = sent + 1
  /\ searchTimer' = FALSE
  /\ searches' = Append(searches, searchText)
  /\ UNCHANGED <<rows, memoName, parent, relations, linkDialog, searchText, fetchedMemos, touched,
                 saved, linked>>

\* Answers carry no number: the last to arrive is shown.  A failed search changes
\* nothing.
SearchAnswered(i) ==
  /\ \/ fetchedMemos' = Hits[searches[i]] \ (IF memoName = NewMemo THEN {Own} ELSE {})
     \/ UNCHANGED fetchedMemos
  /\ searches' = RemoveAt(searches, i)
  /\ UNCHANGED <<rows, memoName, parent, relations, linkDialog, searchText, searchTimer, sent, touched,
                 saved, linked>>
-----------------------------------------------------------------------------
(* Adding and removing a link.                                             *)

Listed == {m \in fetchedMemos : m # memoName}
IsAlreadyLinked(m) == \E i \in DOMAIN relations : relations[i].related = m

UniqByMemo(list) == UniqBy(list, [i \in DOMAIN list |-> list[i].memo])
\* uniqBy on the related memo keeps the first of each.
UniqByRelated(list) == UniqBy(list, [i \in DOMAIN list |-> list[i].related])

\* Selecting a note adds the link and closes the dialog.
AddLink(m) ==
  /\ linkDialog /\ m \in Listed /\ ~IsAlreadyLinked(m)
  /\ touched < MaxTouched
  /\ touched' = touched + 1
  /\ relations' = UniqByRelated(Append(relations, Relation(NewMemo, m, "REFERENCE")))
  /\ linkDialog' = FALSE /\ searchTimer' = FALSE
  /\ linked' = linked \union {m}
  /\ UNCHANGED <<rows, memoName, parent, searchText, searches, fetchedMemos, sent, saved>>

\* getEditorReferenceRelations
EditorReferences ==
  {i \in DOMAIN relations : relations[i].type = "REFERENCE"
                            /\ (memoName = NewMemo \/ relations[i].memo \in {NewMemo, memoName})}

\* handleDeleteRelation drops every relation to that note.
RemoveLink(i) ==
  /\ ~linkDialog /\ touched < MaxTouched
  /\ touched' = touched + 1
  /\ relations' = FilterBy(relations, {r \in ToSet(relations) : r.related # relations[i].related})
  /\ linked' = linked \ {relations[i].related}
  /\ UNCHANGED <<rows, memoName, parent, linkDialog, searchText, searchTimer, searches, fetchedMemos,
                 sent, saved>>
-----------------------------------------------------------------------------
(* Saving, and other notes.                                                *)

\* The note is created with its links, and a comment then gets its row; or it is
\* updated if the list changed.  The editor that is opened on it next loads them.
SaveLinks ==
  /\ ~linkDialog /\ saved < MaxSaved
  /\ saved' = saved + 1
  /\ LET comment == IF memoName = NewMemo /\ parent # NewMemo THEN {Relation(Own, parent, "COMMENT")} ELSE {}
     IN rows' = SetMemoRelations(rows, relations) \union comment
  /\ memoName' = Own
  /\ relations' = LoadRelations(rows')
  /\ UNCHANGED <<parent, linkDialog, searchText, searchTimer, searches, fetchedMemos, sent, touched,
                 linked>>

\* Another note links this one, or comments on it.
OthersLink(m, type) ==
  /\ memoName = Own /\ Relation(m, Own, type) \notin rows
  /\ m # Own /\ (type = "COMMENT" => m # parent)
  /\ rows' = rows \union {Relation(m, Own, type)}
  /\ UNCHANGED <<memoName, parent, relations, linkDialog, searchText, searchTimer, searches,
                 fetchedMemos, sent, touched, saved, linked>>
-----------------------------------------------------------------------------
LinksInit ==
  /\ rows = {}
  /\ memoName = NewMemo
  /\ parent \in {NewMemo} \union (Memos \ {Own})
  /\ relations = <<>>
  /\ linkDialog = FALSE /\ searchText = "" /\ searchTimer = FALSE
  /\ searches = <<>> /\ fetchedMemos = {}
  /\ sent = 0 /\ touched = 0 /\ saved = 0
  /\ linked = {}

LinksNext ==
  \/ OpenLinks \/ CloseLinks \/ SearchSent
  \/ \E t \in Texts : TypeSearch(t)
  \/ \E i \in DOMAIN searches : SearchAnswered(i)
  \/ \E m \in Memos : AddLink(m) \/ \E type \in {"REFERENCE", "COMMENT"} : OthersLink(m, type)
  \/ \E i \in EditorReferences : RemoveLink(i)
  \/ SaveLinks

LinksSpec == LinksInit /\ [][LinksNext]_linkVars
-----------------------------------------------------------------------------
(***************************************************************************)
(* A save stores the links the user made and did not remove, and none of   *)
(* the note to itself; relations of other notes to this one are neither    *)
(* lost nor turned round, although the editor sends them along.  The       *)
(* exception is a comment that links the note it comments on: it has two   *)
(* relations to that note, and adding a further link drops the second, the *)
(* reference, from the list that is sent.                                  *)
(***************************************************************************)
SavesChosenLinks ==
  [][saved' > saved => /\ References(rows') \subseteq linked
                       /\ linked \subseteq References(rows') \union {parent}
                       /\ Own \notin References(rows')
                       /\ {r \in rows' : r.memo # Own} = {r \in rows : r.memo # Own}]_linkVars
=============================================================================
