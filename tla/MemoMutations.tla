--------------------------- MODULE MemoMutations ---------------------------
(***************************************************************************)
(* What a memo card does to a stored memo, and the copies of the memo in   *)
(* React Query while it does: pinning, archiving, ticking tasks, deleting  *)
(* and reacting.  useUpdateMemo patches the cached copies before the       *)
(* server has answered, takes the patch back when the request fails, and   *)
(* overwrites the copies with the answer when it succeeds; requests of one *)
(* tab run side by side, a failed one is sent once more, and the server    *)
(* tells the tab of every change by an event.                              *)
(*                                                                         *)
(* One memo with two tasks.  A query is the memo's detail or one of the    *)
(* two lists it can be in; the page shows one of them.                     *)
(***************************************************************************)
EXTENDS Naturals, Sequences, FiniteSets

CONSTANTS
  MaxClicks,  \* bound on what the user does in this tab
  MaxFaults   \* bound on failures, lost events and foreign changes together

VARIABLES
  row,        \* the stored memo, or None
  page,       \* the query the page shows
  data,       \* per query: its cached data
  query,      \* per query: the state of its fetch and the answer on its way
  muts,       \* the mutations so far
  reaction,   \* the click on a reaction under way
  events,     \* events on their way to the tab, oldest first
  clicks,     \* number of clicks
  faults,     \* number of faults
  behind      \* history: see ShownIsStored

mutationVars == <<row, page, data, query, muts, reaction, events, clicks, faults, behind>>

ASSUME MutationAssumption == MaxClicks \in Nat /\ MaxFaults \in Nat

Queries == {"detail", "home", "archived"}
Lists == {"home", "archived"}
Fields == {"t1", "t2", "pinned", "archived", "reacted"}
Tasks == {"t1", "t2"}

\* A memo, or a patch of one, is a function from fields to BOOLEAN.
None == <<>>
Unloaded == [f \in {"unloaded"} |-> TRUE]
Has(d) == d # None /\ d # Unloaded
Patched(d, patch) ==
  IF Has(d) THEN [f \in DOMAIN d |-> IF f \in DOMAIN patch THEN patch[f] ELSE d[f]] ELSE d

Idle == [stage |-> "idle", answer |-> None]
Stale == [stage |-> "stale", answer |-> None]
Sent == [stage |-> "sent", answer |-> None]

Pending == {i \in DOMAIN muts : muts[i].stage # "done"}
Done == [kind |-> "update", patch |-> None, prev |-> None, cut |-> FALSE, from |-> "home",
         other |-> FALSE,
         stage |-> "done", tries |-> 2, result |-> None,
         overlapped |-> FALSE, refreshed |-> FALSE, disturbed |-> TRUE]
NoReaction == [stage |-> "none", answer |-> None]

\* What the server answers to a query: GetMemo, or ListMemos of one state.
Answer(q) ==
  CASE q = "detail"   -> row
    [] q = "home"     -> IF row # None /\ ~row["archived"] THEN row ELSE None
    [] q = "archived" -> IF row # None /\ row["archived"] THEN row ELSE None
-----------------------------------------------------------------------------
(* React Query.                                                            *)

\* invalidateQueries: a query on the page is fetched at once (again, if it is
\* being fetched), another one when it is shown next.
Invalidated(qs, shown) ==
  [q \in Queries |-> IF q \notin qs THEN query[q] ELSE IF q = shown THEN Sent ELSE Stale]

\* setQueryData of the detail and patchMemoInCollectionQueries.
SetMemo(d, memo) ==
  [q \in Queries |-> IF q = "detail" THEN memo ELSE Patched(d[q], memo)]

\* findMemoInCollectionQueries.
Cached ==
  IF Has(data["detail"]) THEN data["detail"]
  ELSE IF \E q \in Lists : Has(data[q]) THEN data[CHOOSE q \in Lists : Has(data[q])]
  ELSE Unloaded

\* History: what has happened to the mutations that are under way.
Marked(flag) ==
  [i \in DOMAIN muts |-> IF i \in Pending THEN [muts[i] EXCEPT ![flag] = TRUE] ELSE muts[i]]

Clicked == clicks < MaxClicks /\ clicks' = clicks + 1

\* A page is mounted: what was invalidated, never loaded or is too old is fetched.
Show(q) ==
  /\ page # q
  /\ Clicked
  /\ page' = q
  /\ \E tooOld \in BOOLEAN :
       query' = IF data[q] = Unloaded \/ query[q].stage = "stale" \/ tooOld
                THEN [query EXCEPT ![q] = Sent] ELSE query
  /\ muts' = Marked("disturbed")
  /\ UNCHANGED <<row, data, reaction, events, faults, behind>>

FetchServed(q) ==
  /\ query[q].stage = "sent"
  /\ query' = [query EXCEPT ![q] = [stage |-> "served", answer |-> Answer(q)]]
  /\ UNCHANGED <<row, page, data, muts, reaction, events, clicks, faults, behind>>

FetchReply(q) ==
  /\ query[q].stage = "served"
  /\ data' = [data EXCEPT ![q] = query[q].answer]
  /\ query' = [query EXCEPT ![q] = Idle]
  /\ muts' = Marked("refreshed")
  /\ UNCHANGED <<row, page, reaction, events, clicks, faults, behind>>
-----------------------------------------------------------------------------
(* useUpdateMemo and useDeleteMemo.                                        *)

Start(kind, patch, prev, cut) ==
  muts' = Append([i \in DOMAIN muts |-> [muts[i] EXCEPT !.overlapped = @ \/ i \in Pending]],
                 [kind |-> kind, patch |-> patch, prev |-> prev, cut |-> cut, from |-> page,
                  other |-> prev # data[page],
                  stage |-> "sent", tries |-> 1, result |-> None,
                  overlapped |-> Pending # {}, refreshed |-> FALSE,
                  disturbed |-> reaction.stage # "none"])

\* onMutate: the fetches under way are cancelled, which leaves their queries as
\* they were; the copy is remembered and every copy patched.
OnMutate(patch) ==
  LET busy == {q \in Queries : query[q].stage \in {"sent", "served"}} IN
  /\ query' = [q \in Queries |-> IF q \in busy THEN Stale ELSE query[q]]
  /\ data' = [q \in Queries |-> IF q = "detail" THEN Patched(Cached, patch)
                                ELSE Patched(data[q], patch)]
  /\ Start("update", patch, Cached, busy # {})

UpdateMemo(patch) ==
  /\ Clicked
  /\ Has(data[page])
  /\ OnMutate(patch)
  /\ UNCHANGED <<row, page, reaction, events, faults, behind>>

Content(checked) == [t \in Tasks |-> t \in checked]
Checked == {t \in Tasks : data[page][t]}

\* TaskListItem: the whole text, as the card shows it, with one box changed.
ToggleTask(t) ==
  /\ Has(data[page]) /\ ~data[page]["archived"]
  /\ UpdateMemo(Content(IF t \in Checked THEN Checked \ {t} ELSE Checked \cup {t}))

\* MemoActionMenu: the entries offered for what the card shows.
CheckAll(all) ==
  /\ Has(data[page]) /\ ~data[page]["archived"]
  /\ IF all THEN Checked # Tasks ELSE Checked # {}
  /\ UpdateMemo(Content(IF all THEN Tasks ELSE {}))

TogglePin ==
  /\ Has(data[page]) /\ ~data[page]["archived"]
  /\ UpdateMemo([f \in {"pinned"} |-> ~data[page]["pinned"]])

ToggleArchived ==
  /\ Has(data[page])
  /\ UpdateMemo([f \in {"archived"} |-> ~data[page]["archived"]])

\* confirmDeleteMemo: nothing is changed before the answer.
DeleteMemo ==
  /\ Has(data[page])
  /\ Clicked
  /\ Start("delete", None, Unloaded, FALSE)
  /\ UNCHANGED <<row, page, data, query, reaction, events, faults, behind>>

\* The server: UpdateMemo changes the fields of the mask, DeleteMemo the row;
\* both announce it.  Requests of one tab may be served in any order.
Serve(i) ==
  LET m == muts[i] IN
  /\ m.stage = "sent"
  /\ IF row = None
     THEN /\ muts' = [muts EXCEPT ![i].stage = "rejected"]
          /\ UNCHANGED <<row, events>>
     ELSE /\ row' = IF m.kind = "delete" THEN None ELSE Patched(row, m.patch)
          /\ events' = Append(events, m.kind)
          /\ muts' = [muts EXCEPT ![i].stage = "ok", ![i].result = row']
  /\ UNCHANGED <<page, data, query, reaction, clicks, faults, behind>>

\* The request or its answer is lost; one fault may hit both attempts.
RequestLost(i) ==
  /\ muts[i].stage \in {"sent", "ok"}
  /\ muts[i].tries = 1 => faults < MaxFaults
  /\ faults' = IF muts[i].tries = 1 THEN faults + 1 ELSE faults
  /\ muts' = [muts EXCEPT ![i].stage = "rejected"]
  /\ UNCHANGED <<row, page, data, query, reaction, events, clicks, behind>>

\* shouldRetry: once more, whatever the error was.
Retry(i) ==
  /\ muts[i].stage = "rejected"
  /\ muts[i].tries = 1
  /\ muts' = [muts EXCEPT ![i].stage = "sent", ![i].tries = 2]
  /\ UNCHANGED <<row, page, data, query, reaction, events, clicks, faults, behind>>

\* The page an archived, restored or deleted memo is left for.
Landing(m) ==
  IF m.from # "detail" THEN page
  ELSE IF m.kind = "delete" THEN "home"
  ELSE IF "archived" \in DOMAIN m.patch THEN (IF m.patch["archived"] THEN "archived" ELSE "home")
  ELSE page

\* onSuccess: the answer replaces the copies and the lists are invalidated.  For
\* an archived, restored or deleted memo the caller leaves the detail page.
OnSuccess(i) ==
  LET m == muts[i] IN
  /\ m.stage = "ok"
  /\ page' = Landing(m)
  /\ data' = IF m.kind = "delete" THEN [data EXCEPT !["detail"] = Unloaded]
             ELSE SetMemo(data, m.result)
  /\ query' = IF m.kind = "delete" THEN [Invalidated(Lists, page') EXCEPT !["detail"] = Idle]
              ELSE Invalidated(Lists, page')
  /\ muts' = [j \in DOMAIN muts |-> IF j = i THEN Done
                                    ELSE Marked("disturbed")[j]]
  /\ behind' = (behind \/ m.result # row)
  /\ UNCHANGED <<row, reaction, events, clicks, faults>>

\* When the rollback may leave the page behind: another request of this tab was
\* under way, a fetch was cancelled or finished since the copy was remembered,
\* or the copy that was remembered is not the one on the page but an older
\* detail.
RollbackBehind(m) == m.overlapped \/ m.cut \/ m.refreshed \/ m.other

OnErrorKept(i) ==
  /\ muts[i].stage = "rejected" /\ muts[i].tries = 2
  /\ muts' = [muts EXCEPT ![i] = Done]
  /\ behind' = (behind \/ RollbackBehind(muts[i]))
  /\ UNCHANGED <<row, page, data, query, reaction, events, clicks, faults>>

\* onError: the remembered copy comes back, or everything is fetched again.
OnError(i) ==
  LET m == muts[i] IN
  /\ m.stage = "rejected" /\ m.tries = 2
  /\ IF m.kind = "delete" THEN UNCHANGED <<data, query>>
     ELSE IF Has(m.prev) THEN data' = SetMemo(data, m.prev) /\ UNCHANGED query
     ELSE query' = Invalidated(Queries, page) /\ UNCHANGED data
  /\ muts' = [j \in DOMAIN muts |-> IF j = i THEN Done
                                    ELSE Marked("disturbed")[j]]
  /\ behind' = (behind \/ (m.kind = "update" /\ RollbackBehind(m)))
  /\ UNCHANGED <<row, page, reaction, events, clicks, faults>>
-----------------------------------------------------------------------------
(* useReactionActions.                                                     *)

ClickReaction ==
  /\ reaction.stage = "none"
  /\ Clicked
  /\ Has(data[page]) /\ ~data[page]["archived"]
  /\ reaction' = [stage |-> IF data[page]["reacted"] THEN "delete" ELSE "upsert", answer |-> None]
  /\ UNCHANGED <<row, page, data, query, muts, events, faults, behind>>

ServeReaction ==
  /\ reaction.stage \in {"upsert", "delete"}
  /\ IF row = None THEN reaction' = NoReaction /\ UNCHANGED <<row, events>>
     ELSE /\ row' = [row EXCEPT !["reacted"] = reaction.stage = "upsert"]
          /\ events' = Append(events, "update")
          /\ reaction' = [reaction EXCEPT !.stage = "get"]
  /\ UNCHANGED <<page, data, query, muts, clicks, faults, behind>>

ServeGet ==
  /\ reaction.stage = "get"
  /\ reaction' = IF row = None THEN NoReaction ELSE [stage |-> "set", answer |-> row]
  /\ UNCHANGED <<row, page, data, query, muts, events, clicks, faults, behind>>

\* The memo that was read replaces the detail; the lists are fetched again.
ReactionDone ==
  /\ reaction.stage = "set"
  /\ data' = [data EXCEPT !["detail"] = reaction.answer]
  /\ query' = Invalidated(Lists, page)
  /\ muts' = [i \in DOMAIN muts |-> [Marked("disturbed")[i] EXCEPT !.refreshed = @ \/ i \in Pending]]
  /\ behind' = (behind \/ reaction.answer # row)
  /\ reaction' = NoReaction
  /\ UNCHANGED <<row, page, events, clicks, faults>>

\* Any call of it fails; the error is skipped.
ReactionFails ==
  /\ reaction.stage # "none"
  /\ faults < MaxFaults
  /\ faults' = faults + 1
  /\ reaction' = NoReaction
  /\ UNCHANGED <<row, page, data, query, muts, events, clicks, behind>>
-----------------------------------------------------------------------------
(* Other clients and the event stream.                                     *)

ForeignUpdate ==
  /\ faults < MaxFaults
  /\ row # None
  /\ row' = [row EXCEPT !["t2"] = ~@]
  /\ events' = Append(events, "update")
  /\ faults' = faults + 1
  /\ UNCHANGED <<page, data, query, muts, reaction, clicks, behind>>

\* handleSSEEvent.
EventArrives ==
  /\ events # <<>>
  /\ events' = Tail(events)
  /\ IF Head(events) = "delete"
     THEN /\ data' = [data EXCEPT !["detail"] = Unloaded]
          /\ query' = [Invalidated(Lists, page) EXCEPT !["detail"] = Idle]
     ELSE query' = Invalidated(Queries, page) /\ UNCHANGED data
  /\ muts' = Marked("disturbed")
  /\ UNCHANGED <<row, page, reaction, clicks, faults, behind>>

EventLost ==
  /\ events # <<>>
  /\ faults < MaxFaults
  /\ faults' = faults + 1
  /\ events' = Tail(events)
  /\ behind' = TRUE
  /\ UNCHANGED <<row, page, data, query, muts, reaction, clicks>>
-----------------------------------------------------------------------------
MutationInit ==
  /\ row = [f \in Fields |-> FALSE]
  /\ page \in {"home", "detail"}
  /\ data = [q \in Queries |-> IF q = "archived" THEN Unloaded
                               ELSE IF q = page THEN row ELSE Unloaded]
  /\ query = [q \in Queries |-> Idle]
  /\ muts = <<>>
  /\ reaction = NoReaction
  /\ events = <<>>
  /\ clicks = 0 /\ faults = 0
  /\ behind = FALSE

Click ==
  \/ \E t \in Tasks : ToggleTask(t)
  \/ \E all \in BOOLEAN : CheckAll(all)
  \/ TogglePin \/ ToggleArchived \/ DeleteMemo \/ ClickReaction

MutationNext ==
  \/ Click
  \/ \E i \in Pending : Serve(i) \/ RequestLost(i) \/ Retry(i) \/ OnSuccess(i) \/ OnError(i)
  \/ \E q \in Queries : Show(q)
  \/ \E q \in Queries : FetchServed(q) \/ FetchReply(q)
  \/ ServeReaction \/ ServeGet \/ ReactionDone \/ ReactionFails
  \/ ForeignUpdate \/ EventArrives \/ EventLost

MutationSpec == MutationInit /\ [][MutationNext]_mutationVars
-----------------------------------------------------------------------------
Quiet == Pending = {} /\ reaction.stage = "none" /\ events = <<>>
           /\ query[page].stage \in {"idle", "stale"}

(***************************************************************************)
(* When nothing is under way, the page shows the memo as it is stored,     *)
(* whatever was patched, rolled back, cancelled and fetched on the way.    *)
(* The exceptions are an answer that is older than the stored memo when it *)
(* arrives, a lost event, and the rollbacks of RollbackBehind.             *)
(***************************************************************************)
ShownIsStored == (Quiet /\ ~behind /\ row # None) => data[page] = Answer(page)

(***************************************************************************)
(* While the only mutation is under way and no event, page change or       *)
(* reaction came in between, the card keeps showing what the user chose: a *)
(* fetch that was on its way before the click does not undo it.            *)
(***************************************************************************)
OptimisticStays ==
  \A i \in Pending :
    LET m == muts[i] IN
    (m.kind = "update" /\ Pending = {i} /\ ~m.overlapped /\ ~m.disturbed /\ Has(data[page]))
      => \A f \in DOMAIN m.patch : data[page][f] = m.patch[f]

(***************************************************************************)
(* Both: a click on a card is not undone while it is under way, and ends   *)
(* in what is stored (useUpdateMemo).                                      *)
(***************************************************************************)
CardsSettle == ShownIsStored /\ OptimisticStays
=============================================================================
