------------------------- MODULE AttachmentLibrary -------------------------
(***************************************************************************)
(* The attachment library: the pages it has loaded, what its tabs show of  *)
(* them, and "delete all unused", which first lists the names of all       *)
(* unlinked attachments page by page and then deletes them chunk by chunk. *)
(* Page tokens are offsets into a list other tabs go on changing: a file   *)
(* uploaded between two pages is met twice, and one linked or deleted lets *)
(* another slip through.                                                   *)
(*                                                                         *)
(* An attachment is its position in Catalog, which is the order in which   *)
(* the files are uploaded.                                                 *)
(***************************************************************************)
EXTENDS Naturals, Sequences, FiniteSets, MediaItems

CONSTANTS
  Catalog,       \* the files there are, as MediaItems describes them
  MonthOf,       \* the month each was uploaded in
  PageSize,      \* attachments in a page
  BatchSize,     \* BATCH_DELETE_SIZE
  Stored,        \* how many of the files are there at first
  MaxElsewhere,  \* bound on what other tabs do
  MaxLibraryFaults,  \* bound on requests that fail
  MaxAsked       \* bound on what is asked for here

VARIABLES
  table,         \* the attachment rows, the one updated last first
  uploaded,      \* how many files were ever uploaded
  attached,      \* those that belong to a memo
  pages,         \* the query's data, each row with whether it was linked
  fetch,         \* the fetch of the list under way
  removal,       \* "delete all unused": its step, names and attempts
  elsewhere, misses, asks,
  target,        \* history: the unlinked ones when the removal began
  slipped,       \* history: unlinked rows that left the list while it was read
  fresh          \* history: the table is as it was when the pages, and those of
                 \* the fetch under way, were read

libraryVars ==
  <<table, uploaded, attached, pages, fetch, removal, elsewhere, misses, asks, target, slipped, fresh>>

NotFresh == [pages |-> FALSE, fetch |-> FALSE]

\* The browser pairs images and videos into live photos, so an audio file has
\* no role in one.
ASSUME LibraryAssumption ==
  /\ Catalog \in Seq([kind : {"image", "psd", "video", "audio", "document"}, stem : Nat, group : Nat,
                     role : {"none", "still", "clip", "container"}])
  /\ \A f \in DOMAIN Catalog : Catalog[f].kind = "audio" => Catalog[f].role = "none"
  /\ MonthOf \in [DOMAIN Catalog -> Nat]
  /\ PageSize \in Nat \ {0} /\ BatchSize \in Nat \ {0}
  /\ Stored \in 0..Len(Catalog)
  /\ MaxElsewhere \in Nat /\ MaxLibraryFaults \in Nat /\ MaxAsked \in Nat

NoFetch == [on |-> FALSE, built |-> <<>>, until |-> 0]
NoRemoval == [step |-> "closed", names |-> <<>>, tries |-> 0]
-----------------------------------------------------------------------------
(* ListAttachments.                                                        *)

Unused == FilterBy(table, ToSet(table) \ attached)

Slice(list, offset, size) ==
  SubSeq(list, offset + 1, IF offset + size < Len(list) THEN offset + size ELSE Len(list))

\* A full page has a next one, which may turn out to be empty.
IsLast(page) == Len(page) < PageSize
OffsetTooFar(n) == n * (PageSize + 1)
\* The offset after n pages, which the page token carries.
Offset(n) == n * PageSize
-----------------------------------------------------------------------------
(* What the library shows of the pages it has loaded.                      *)

Loaded == FlattenSeq(pages)
Newest(s) == Descending(s, s)
Ids(s) == [i \in DOMAIN s |-> s[i].id]

LinkedFiles == Newest(Ids(FilterBy(Loaded, {row \in ToSet(Loaded) : row.attached})))
UnusedItems == Newest(Ids(FilterBy(Loaded, {row \in ToSet(Loaded) : ~row.attached})))

AudioItems == FilterBy(LinkedFiles, OfKind(Catalog, {"audio"}))
DocumentItems == FilterBy(LinkedFiles, DOMAIN Catalog \ (Visuals(Catalog) \cup OfKind(Catalog, {"audio"})))

\* An item has the date of its first file: for a live photo, the still.
MediaItemsShown ==
  LET items == VisualItems(Catalog, FilterBy(LinkedFiles, Visuals(Catalog)))
  IN Descending(items, [k \in DOMAIN items |-> items[k][1]])
MonthsShown == [k \in DOMAIN MediaItemsShown |-> MonthOf[MediaItemsShown[k][1]]]
Months == LET met == UniqBy(MonthsShown, MonthsShown) IN Descending(met, met)
MediaGroups ==
  [m \in DOMAIN Months |->
     Pick(MediaItemsShown, {k \in DOMAIN MediaItemsShown : MonthsShown[k] = Months[m]})]

\* Everything on the page, tab by tab.
Shown == FlattenSeq(FlattenSeq(MediaGroups)) \o DocumentItems \o AudioItems \o UnusedItems
-----------------------------------------------------------------------------
(* The query.  Fetching again asks for as many pages as there are, one     *)
(* after the other; a fetch that begins cancels the one under way.         *)

Refetching == [on |-> TRUE, built |-> <<>>, until |-> IF pages = <<>> THEN 1 ELSE Len(pages)]

ModalOpen == removal.step # "closed"

FetchNextPage ==
  /\ asks < MaxAsked /\ ~ModalOpen
  /\ pages # <<>> /\ ~IsLast(Last(pages))
  /\ ~(fetch.on /\ fetch.built = pages)
  /\ asks' = asks + 1
  /\ fetch' = [on |-> TRUE, built |-> pages, until |-> Len(pages) + 1]
  /\ fresh' = [fresh EXCEPT !.fetch = fresh.pages]
  /\ UNCHANGED <<table, uploaded, attached, pages, removal, elsewhere, misses, target, slipped>>

\* The window gets the focus back, or Retry is clicked.
Refetch ==
  /\ asks < MaxAsked
  /\ asks' = asks + 1
  /\ fetch' = Refetching
  /\ UNCHANGED <<table, uploaded, attached, pages, removal, elsewhere, misses, target, slipped, fresh>>

PageNow(n) ==
  LET page == Slice(table, Offset(n), PageSize)
  IN [i \in DOMAIN page |-> [id |-> page[i], attached |-> page[i] \in attached]]

PageArrives ==
  /\ fetch.on
  /\ LET page == PageNow(Len(fetch.built))
         built == Append(fetch.built, page)
         done == Len(built) = fetch.until \/ IsLast(page)
     IN /\ fetch' = IF done THEN NoFetch ELSE [fetch EXCEPT !.built = built]
        /\ pages' = IF done THEN built ELSE pages
        /\ LET same == fetch.built = <<>> \/ fresh.fetch
           IN fresh' = [pages |-> IF done THEN same ELSE fresh.pages, fetch |-> same]
  /\ UNCHANGED <<table, uploaded, attached, removal, elsewhere, misses, asks, target, slipped>>

\* The loaded pages stay, under an error.
FetchFails ==
  /\ fetch.on /\ misses < MaxLibraryFaults
  /\ misses' = misses + 1
  /\ fetch' = NoFetch
  /\ UNCHANGED <<fresh, table, uploaded, attached, pages, removal, elsewhere, asks, target, slipped>>
-----------------------------------------------------------------------------
(* Delete all unused.                                                      *)

OpenConfirm ==
  /\ ~ModalOpen /\ UnusedItems # <<>>
  /\ asks < MaxAsked
  /\ asks' = asks + 1
  /\ removal' = [NoRemoval EXCEPT !.step = "asking"]
  /\ UNCHANGED <<table, uploaded, attached, pages, fetch, elsewhere, misses, target, slipped, fresh>>

CancelConfirm ==
  /\ removal.step = "asking"
  /\ removal' = NoRemoval
  /\ UNCHANGED <<table, uploaded, attached, pages, fetch, elsewhere, misses, asks, target, slipped, fresh>>

ConfirmDelete ==
  /\ removal.step = "asking"
  /\ removal' = [removal EXCEPT !.step = "listing"]
  /\ target' = ToSet(Unused)
  /\ slipped' = 0
  /\ UNCHANGED <<table, uploaded, attached, pages, fetch, elsewhere, misses, asks, fresh>>

\* A page of names; the last one ends the listing.  With nothing to delete the
\* library is only fetched again.
NamesArrive ==
  /\ removal.step = "listing"
  /\ LET page == Slice(Unused, Offset(removal.tries), PageSize)
         names == removal.names \o page
     IN IF ~IsLast(page)
        THEN removal' = [removal EXCEPT !.names = names, !.tries = @ + 1] /\ UNCHANGED fetch
        ELSE IF names = <<>>
        THEN removal' = [NoRemoval EXCEPT !.step = "refreshing"] /\ fetch' = Refetching
        ELSE removal' = [step |-> "deleting", names |-> names, tries |-> 0] /\ UNCHANGED fetch
  /\ UNCHANGED <<table, uploaded, attached, pages, elsewhere, misses, asks, target, slipped, fresh>>

\* chunkNames: what is left after the chunk that has just been deleted.
NextChunk(names) == Slice(names, BatchSize, Len(names))
Chunk == Slice(removal.names, 0, BatchSize)

Gone(S) ==
  /\ table' = FilterBy(table, ToSet(table) \ S)
  /\ attached' = attached \ S
  /\ fresh' = NotFresh

\* BatchDeleteAttachments refuses the chunk when one of its names is gone; it does
\* not ask whether they are linked by now.
ChunkDeleted ==
  /\ removal.step = "deleting"
  /\ ToSet(Chunk) \subseteq ToSet(table)
  /\ Gone(ToSet(Chunk))
  /\ LET rest == NextChunk(removal.names) IN
     removal' = IF rest = <<>> THEN [NoRemoval EXCEPT !.step = "succeeded"]
                ELSE [removal EXCEPT !.names = rest, !.tries = 0]
  /\ fetch' = Refetching
  /\ UNCHANGED <<uploaded, pages, elsewhere, misses, asks, target, slipped>>

\* A mutation that failed is tried once more; then the error is shown and the
\* dialog closes.
TryAgain ==
  removal' = IF removal.tries = 0 THEN [removal EXCEPT !.tries = 1] ELSE NoRemoval

ChunkRefused ==
  /\ removal.step = "deleting"
  /\ ~(ToSet(Chunk) \subseteq ToSet(table))
  /\ TryAgain
  /\ UNCHANGED <<table, uploaded, attached, pages, fetch, elsewhere, misses, asks, target, slipped, fresh>>

\* The server has deleted the chunk and the answer is lost.
AnswerLost ==
  /\ removal.step = "deleting" /\ misses < MaxLibraryFaults
  /\ ToSet(Chunk) \subseteq ToSet(table)
  /\ misses' = misses + 1
  /\ Gone(ToSet(Chunk))
  /\ TryAgain
  /\ UNCHANGED <<uploaded, pages, fetch, elsewhere, asks, target, slipped>>

RequestFails ==
  /\ removal.step \in {"listing", "deleting"} /\ misses < MaxLibraryFaults
  /\ misses' = misses + 1
  /\ IF removal.step = "listing" THEN removal' = NoRemoval ELSE TryAgain
  /\ UNCHANGED <<table, uploaded, attached, pages, fetch, elsewhere, asks, target, slipped, fresh>>

\* The success is reported and the library fetched again.
ReportSuccess ==
  /\ removal.step = "succeeded"
  /\ removal' = [removal EXCEPT !.step = "refreshing"]
  /\ fetch' = Refetching
  /\ UNCHANGED <<table, uploaded, attached, pages, elsewhere, misses, asks, target, slipped, fresh>>

\* The dialog closes when that fetch has ended, also when it failed.
CloseConfirm ==
  /\ removal.step = "refreshing" /\ ~fetch.on
  /\ removal' = NoRemoval
  /\ UNCHANGED <<table, uploaded, attached, pages, fetch, elsewhere, misses, asks, target, slipped, fresh>>
-----------------------------------------------------------------------------
(* Other tabs: a file is uploaded, a memo is saved with it, or it goes.    *)

Elsewhere ==
  /\ elsewhere < MaxElsewhere
  /\ elsewhere' = elsewhere + 1
  /\ fresh' = NotFresh
  /\ UNCHANGED <<pages, fetch, removal, misses, asks, target>>

Slips(a) == slipped' = IF removal.step = "listing" /\ a \notin attached THEN slipped + 1 ELSE slipped

UploadElsewhere ==
  /\ Elsewhere
  /\ uploaded < Len(Catalog)
  /\ uploaded' = uploaded + 1
  /\ table' = <<uploaded'>> \o table
  /\ UNCHANGED <<attached, slipped>>

LinkElsewhere(a) ==
  /\ Elsewhere
  /\ a \notin attached
  /\ attached' = attached \union {a}
  /\ table' = <<a>> \o FilterBy(table, ToSet(table) \ {a})
  /\ Slips(a)
  /\ UNCHANGED uploaded

DeleteElsewhere(a) ==
  /\ Elsewhere
  /\ table' = FilterBy(table, ToSet(table) \ {a})
  /\ attached' = attached \ {a}
  /\ Slips(a)
  /\ UNCHANGED uploaded
-----------------------------------------------------------------------------
LibraryInit ==
  /\ table = [i \in 1..Stored |-> Stored + 1 - i] /\ uploaded = Stored
  /\ attached \in SUBSET (1..Stored)
  /\ pages = <<>>
  /\ fetch = [on |-> TRUE, built |-> <<>>, until |-> 1]
  /\ removal = NoRemoval
  /\ elsewhere = 0 /\ misses = 0 /\ asks = 0
  /\ target = {} /\ slipped = 0 /\ fresh = NotFresh

LibraryNext ==
  \/ FetchNextPage \/ Refetch \/ PageArrives \/ FetchFails
  \/ OpenConfirm \/ CancelConfirm \/ ConfirmDelete
  \/ NamesArrive \/ ChunkDeleted \/ ChunkRefused \/ AnswerLost \/ RequestFails
  \/ ReportSuccess \/ CloseConfirm
  \/ UploadElsewhere
  \/ \E a \in ToSet(table) : LinkElsewhere(a) \/ DeleteElsewhere(a)

LibrarySpec == LibraryInit /\ [][LibraryNext]_libraryVars
-----------------------------------------------------------------------------
(***************************************************************************)
(* The library that has loaded its last page shows every attachment of the *)
(* user exactly once, in a tab or among the unlinked ones, if the table    *)
(* was at rest while it was read: page tokens leave nothing out, no kind   *)
(* of file falls between the tabs, and a live photo of which one half is   *)
(* unlinked is not lost with its other half.                               *)
(***************************************************************************)
LibraryShowsAll ==
  fresh.pages /\ IsLast(Last(pages)) => IsInjective(Shown) /\ ToSet(Shown) = ToSet(table)

(***************************************************************************)
(* When "Resources deleted successfully" is reported, the attachments that *)
(* were unlinked when it was confirmed are gone, whatever was uploaded     *)
(* meanwhile: at most one is left for each that was linked or deleted      *)
(* elsewhere while the names were being listed.                            *)
(***************************************************************************)
SuccessMeansGone ==
  removal.step = "succeeded" =>
    Cardinality({a \in ToSet(table) \ attached : a \in target}) <= slipped

(***************************************************************************)
(* Both: the library neither hides an attachment nor leaves one that it    *)
(* reports as deleted (useAttachmentLibrary.ts, Attachments.tsx).          *)
(***************************************************************************)
LibraryFaithful == LibraryShowsAll /\ SuccessMeansGone
=============================================================================
