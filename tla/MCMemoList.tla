----------------------------- MODULE MCMemoList -----------------------------
(* Four memos: with and without tags and flags, two of them created in the  *)
(* same second, and one whose creator is gone.  The filters of the address  *)
(* and the queries they end up in share no state: a behaviour is one of     *)
(* either, while the other rests.                                           *)
EXTENDS MemoList, BrowseFilters

MCTags == {<<"book">>, <<"book", "draft">>}

Memo(isPinned, task, time, tags, words, is) ==
  [pinned |-> isPinned, has_task_list |-> task, has_link |-> ~task, known |-> is, visibility |-> IF task THEN "PUBLIC" ELSE "PRIVATE",
   creator |-> IF is THEN "ana" ELSE "gone", created_ts |-> time, tags |-> tags, words |-> words]

MCRowOf == <<Memo(FALSE, TRUE, 1, {<<"book">>}, {"note"}, TRUE),
             Memo(TRUE, FALSE, 1, {}, {}, TRUE),
             Memo(FALSE, FALSE, 2, {<<"book", "draft">>}, {"note"}, FALSE),
             Memo(FALSE, TRUE, 2, {}, {"note"}, TRUE)>>

VARIABLE focus

BrowseListInit ==
  /\ focus \in {"query", "browse"}
  /\ ListInit
  /\ focus # "query" => dialect = CHOOSE d \in Dialects : TRUE
  /\ BrowseInit
  /\ focus # "browse" => page.param = NoParam

BrowseListNext ==
  \/ focus = "query" /\ ListNext /\ UNCHANGED <<focus, browseVars>>
  \/ focus = "browse" /\ BrowseNext /\ UNCHANGED <<focus, filterVars, listVars>>

BrowseListSpec == BrowseListInit /\ [][BrowseListNext]_<<focus, filterVars, listVars, browseVars>>
=============================================================================
