------------------------------- MODULE MemoList -------------------------------
(***************************************************************************)
(* The list of memos a page shows: ListMemos runs the query with the       *)
(* filters of FilterEngine and answers one page and a page token, and      *)
(* useInfiniteMemos keeps the pages it has loaded.  A token is an offset,  *)
(* so memos created or deleted between two requests shift the pages.       *)
(* The condition on visibility is one of the filters; comments and memos   *)
(* in another state are not in the table.                                  *)
(***************************************************************************)
EXTENDS FilterEngine

CONSTANTS
  Limits,      \* page sizes
  ListLeaves,  \* bound on the filters that are used for a list
  MaxChanges   \* bound on memos created and deleted

VARIABLES
  db,          \* ids of the memos in the table
  query,       \* page size and parsed order_by of the list, or no list yet
  shown,       \* the pages of the query, and what changed since the first one
  refetch,     \* the pages loaded again so far, likewise
  changes      \* number of changes so far

listVars == <<db, query, shown, refetch, changes>>

ASSUME ListAssumption ==
  /\ Limits \subseteq Nat \ {0}
  /\ ListLeaves \in Nat /\ MaxChanges \in Nat
  /\ Ids \subseteq Nat /\ IsFiniteSet(Ids)
  /\ \A r \in Ids : RowOf[r].created_ts \in Nat

NoQuery == [limit |-> 0, pinned |-> FALSE, asc |-> FALSE]
Nothing == [pages |-> <<>>, ins |-> {}, del |-> FALSE]

ListInit ==
  /\ FilterInit
  /\ db = {}
  /\ query = NoQuery
  /\ shown = Nothing
  /\ refetch = Nothing
  /\ changes = 0
-----------------------------------------------------------------------------
(* ListMemos.                                                              *)

\* ORDER BY pinned, created_ts and, as a tie-breaker, the id.
Before(r, s) ==
  LET a == RowOf[r] b == RowOf[s] IN
  IF query.pinned /\ a.pinned # b.pinned THEN a.pinned
  ELSE IF a.created_ts # b.created_ts THEN (a.created_ts < b.created_ts) = query.asc
  ELSE r > s

Selected == {r \in db : where.sql[r] = "T"}

\* Rows in that order: at each place the one that as many rows come before.
Ordered(rows) ==
  [i \in 1..Cardinality(rows) |-> CHOOSE r \in rows : Cardinality({s \in rows : Before(s, r)}) = i - 1]

NextOffsetSkips(offset) == offset + query.limit + 1

NextOffset(offset) == offset + query.limit

\* One page: limit + 1 rows are read to know whether there is another page;
\* a memo without its creator is skipped.
ListMemos(offset) ==
  LET all == Ordered(Selected)
      found == SubSeq(all, offset + 1, Min({offset + query.limit + 1, Len(all)}))
      more == Len(found) = query.limit + 1
      answered == SubSeq(found, 1, IF more THEN query.limit ELSE Len(found))
  IN [rows |-> Ordered({r \in Range(answered) : RowOf[r].known}),
      next |-> IF more THEN NextOffset(offset) ELSE 0]
-----------------------------------------------------------------------------
(* useInfiniteMemos.                                                       *)

HasNext(l) == l.pages # <<>> /\ Last(l.pages).next # 0
Load(l, offset) == [l EXCEPT !.pages = Append(@, ListMemos(offset))]

\* The list is opened, on whatever memos were created before.
Open(memos, limit, byPinned, asc) ==
  /\ phase = "appended"
  /\ ~dropped
  /\ leaves <= ListLeaves
  /\ query = NoQuery
  /\ query' = [limit |-> limit, pinned |-> byPinned, asc |-> asc]
  /\ db' = memos
  /\ UNCHANGED <<filterVars, shown, refetch, changes>>

FetchFirst ==
  /\ query # NoQuery
  /\ shown = Nothing
  /\ shown' = Load(Nothing, 0)
  /\ UNCHANGED <<filterVars, db, query, refetch, changes>>

\* fetchNextPage near the bottom of the page; it cancels a refetch.
FetchNextPage ==
  /\ HasNext(shown)
  /\ shown' = Load(shown, Last(shown.pages).next)
  /\ refetch' = Nothing
  /\ UNCHANGED <<filterVars, db, query, changes>>

\* The query is invalidated: its pages are loaded again, one after the other.
StartRefetch ==
  /\ shown.pages # <<>>
  /\ refetch = Nothing
  /\ refetch' = Load(Nothing, 0)
  /\ UNCHANGED <<filterVars, db, query, shown, changes>>

RefetchNext ==
  /\ HasNext(refetch)
  /\ Len(refetch.pages) < Len(shown.pages)
  /\ refetch' = Load(refetch, Last(refetch.pages).next)
  /\ UNCHANGED <<filterVars, db, query, shown, changes>>

\* The new pages replace the old ones at once.
RefetchDone ==
  /\ refetch.pages # <<>>
  /\ ~HasNext(refetch) \/ Len(refetch.pages) = Len(shown.pages)
  /\ shown' = refetch
  /\ refetch' = Nothing
  /\ UNCHANGED <<filterVars, db, query, changes>>

\* Other requests create and delete memos, with any create time.
CreateMemo(r) ==
  /\ query # NoQuery /\ changes < MaxChanges
  /\ r \notin db
  /\ db' = db \cup {r}
  /\ changes' = changes + 1
  /\ shown' = IF shown.pages = <<>> THEN shown ELSE [shown EXCEPT !.ins = @ \cup {r}]
  /\ refetch' = IF refetch.pages = <<>> THEN refetch ELSE [refetch EXCEPT !.ins = @ \cup {r}]
  /\ UNCHANGED <<filterVars, query>>

DeleteMemo(r) ==
  /\ query # NoQuery /\ changes < MaxChanges
  /\ r \in db
  /\ db' = db \ {r}
  /\ changes' = changes + 1
  /\ shown' = IF shown.pages = <<>> THEN shown ELSE [shown EXCEPT !.del = TRUE]
  /\ refetch' = IF refetch.pages = <<>> THEN refetch ELSE [refetch EXCEPT !.del = TRUE]
  /\ UNCHANGED <<filterVars, query>>

ListNext ==
  \/ query = NoQuery /\ FilterNext /\ UNCHANGED listVars
  \/ \E memos \in SUBSET Ids, limit \in Limits, byPinned, asc \in BOOLEAN : Open(memos, limit, byPinned, asc)
  \/ FetchFirst \/ FetchNextPage \/ StartRefetch \/ RefetchNext \/ RefetchDone
  \/ \E r \in Ids : CreateMemo(r) \/ DeleteMemo(r)

ListSpec == ListInit /\ [][ListNext]_<<filterVars, listVars>>
-----------------------------------------------------------------------------
(* Properties.                                                             *)

\* What the pages of a list show, one after the other.
Rows(l) == FlattenSeq([i \in DOMAIN l.pages |-> l.pages[i].rows])
Complete(l) == l.pages # <<>> /\ ~HasNext(l)

Faithful(l) ==
  LET rows == Rows(l)
      seen == Range(rows)
      there == {r \in Selected : RowOf[r].known}
  IN /\ l.ins = {} => IsInjective(rows)
     /\ ~l.del => \A r \in there \ l.ins :
                    Complete(l) \/ (\E s \in seen : Before(r, s)) => r \in seen
     /\ ~l.del /\ l.ins = {} => rows = Ordered(seen)

\* Scrolling shows every memo of the list exactly once and in order while
\* nothing changes.  Memos created meanwhile may repeat a memo but hide none
\* that was there, deleted ones may hide a memo but repeat none; and a
\* refetch, interrupted or not, leaves no trace of earlier shifts.
PagesFaithful == Faithful(shown) /\ Faithful(refetch)
==============================================================================
