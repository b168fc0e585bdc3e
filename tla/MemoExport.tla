----------------------------- MODULE MemoExport -----------------------------
(***************************************************************************)
(* The export of an account's memos (memoExportService.ts): the normal and *)
(* the archived memos are listed page by page, at the same time, and the   *)
(* two lists become one file that the import accepts or refuses as a       *)
(* whole.  Meanwhile memos are created, archived, restored, deleted and    *)
(* dated anew, and another tab may sign the browser in as someone else.    *)
(* An export that goes on after its page was left shares nothing with the  *)
(* next one and is not followed.                                           *)
(***************************************************************************)
EXTENDS Naturals, FiniteSets, SequencesExt

CONSTANTS
  Notes,          \* the ids of the account's memos, naturals
  Seconds,        \* the times at which memos are created, naturals
  PublicNotes,    \* those that other users may read
  ExportPage,     \* MEMO_EXPORT_PAGE_SIZE
  MaxExports,     \* bound on exports
  MaxShifts       \* bound on changes while an export runs

VARIABLES
  notes,          \* the memos: id -> state and create time
  own,            \* the browser's token is the account's
  listing,        \* per state: the listing of the export that runs
  exporting,      \* isExporting
  saved,          \* the file of the last export: its memos per state, or NotSaved
  start,          \* history: the memos when the export started
  touched,        \* history: the memos changed since
  moved,          \* history: those of them that changed their place
  entered,        \* history, per state: a memo came to be before the next page
  left,           \* history, per state: a memo before the next page went away
  exports,        \* number of exports so far
  shifts          \* number of changes so far

exportVars == <<notes, own, listing, exporting, saved, start, touched, moved, entered, left, exports, shifts>>

ASSUME ExportAssumption ==
  /\ Notes \subseteq Nat /\ IsFiniteSet(Notes) /\ Seconds \subseteq Nat
  /\ PublicNotes \subseteq Notes
  /\ ExportPage \in Nat \ {0}
  /\ MaxExports \in Nat /\ MaxShifts \in Nat

NoteStates == {"NORMAL", "ARCHIVED"}
NotYet == [state |-> "none", time |-> 0]
Deleted == [state |-> "gone", time |-> 0]
NoListing == [asking |-> FALSE, memos |-> <<>>, token |-> 0, tokens |-> {}]
FirstAsked == [NoListing EXCEPT !.asking = TRUE]
NotSaved == [s \in {} |-> <<>>]
Quiet == [s \in NoteStates |-> FALSE]
-----------------------------------------------------------------------------
(* ListMemos, for the requests of an export.                               *)

\* The filter asks for the account's memos.  Another user gets the public
\* ones of them, and of the archived ones only his own, which are none.
Visible(rows, viewer, s) ==
  {n \in DOMAIN rows : rows[n].state = s /\ (viewer \/ (s = "NORMAL" /\ n \in PublicNotes))}

\* "create_time asc, name asc" is created_ts ASC: name only counts when no
\* time was given before it, and the id breaks ties downwards.
Earlier(rows, m, n) == rows[m].time < rows[n].time \/ (rows[m].time = rows[n].time /\ m > n)

\* At each place the memo that as many others come before.
Listed(rows, viewer, s) ==
  LET all == Visible(rows, viewer, s) IN
  [i \in 1..Cardinality(all) |-> CHOOSE n \in all : Cardinality({m \in all : Earlier(rows, m, n)}) = i - 1]

AnswerFullPage(all, offset) ==
  [memos |-> SubSeq(all, offset + 1, Min({offset + ExportPage, Len(all)})),
   next |-> IF Len(all) > offset + ExportPage + 1 THEN offset + ExportPage ELSE 0]

\* limit + 1 rows are read to know whether there is another page (0: none).
Answer(all, offset) ==
  [memos |-> SubSeq(all, offset + 1, Min({offset + ExportPage, Len(all)})),
   next |-> IF Len(all) > offset + ExportPage THEN offset + ExportPage ELSE 0]
-----------------------------------------------------------------------------
(* The export.                                                             *)

\* handleExportMemos: the button is disabled while an export runs.
handleExportMemos ==
  /\ ~exporting
  /\ exports < MaxExports
  /\ exporting' = TRUE
  /\ exports' = exports + 1
  /\ listing' = [s \in NoteStates |-> FirstAsked]
  /\ start' = notes
  /\ saved' = NotSaved
  /\ touched' = {} /\ moved' = {}
  /\ entered' = Quiet /\ left' = Quiet
  /\ UNCHANGED <<notes, own, shifts>>

\* listAllMemosForState: one turn of the loop.
NextPage(s) ==
  LET l == listing[s]
      page == Answer(Listed(notes, own, s), l.token)
  IN
  /\ exporting /\ l.asking
  /\ page.next \notin l.tokens
  /\ listing' = [listing EXCEPT ![s] =
       [asking |-> page.next # 0, memos |-> l.memos \o page.memos, token |-> page.next,
        tokens |-> l.tokens \cup {page.next}]]
  /\ UNCHANGED <<notes, own, exporting, saved, start, touched, moved, entered, left, exports, shifts>>

\* Promise.all gives up when one listing fails, and the handler reports it.
ExportFails(s) ==
  /\ exporting /\ listing[s].asking
  /\ exporting' = FALSE
  /\ listing' = [t \in NoteStates |-> NoListing]
  /\ UNCHANGED <<notes, own, saved, start, touched, moved, entered, left, exports, shifts>>

\* The file holds both lists, one after the other; the import refuses one
\* that names a memo twice.
MemosOf(doc) == doc["NORMAL"] \o doc["ARCHIVED"]
CanImport(doc) == IsInjective(MemosOf(doc))

\* createMemoExportFile: both listings are complete, and the file is saved.
SaveFile ==
  /\ exporting
  /\ \A s \in NoteStates : ~listing[s].asking
  /\ saved' = [s \in NoteStates |-> listing[s].memos]
  /\ exporting' = FALSE
  /\ UNCHANGED <<notes, own, listing, start, touched, moved, entered, left, exports, shifts>>
-----------------------------------------------------------------------------
(* Meanwhile.                                                              *)

\* The memos before the page that is asked for next.
ReadBefore(rows, s) ==
  LET all == Listed(rows, own, s)
  IN IF ~listing[s].asking THEN {}
     ELSE ToSet(SubSeq(all, 1, Min({listing[s].token, Len(all)})))

Shift(n, row) ==
  LET rows == [notes EXCEPT ![n] = row] IN
  /\ exporting
  /\ shifts < MaxShifts
  /\ shifts' = shifts + 1
  /\ notes' = rows
  /\ touched' = touched \cup {n}
  /\ moved' = IF notes[n] = NotYet \/ row = Deleted THEN moved ELSE moved \cup {n}
  /\ entered' = [s \in NoteStates |-> entered[s] \/ (n \notin ReadBefore(notes, s) /\ n \in ReadBefore(rows, s))]
  /\ left' = [s \in NoteStates |-> left[s] \/ (n \in ReadBefore(notes, s) /\ n \notin ReadBefore(rows, s))]
  /\ UNCHANGED <<own, listing, exporting, saved, start, exports>>

\* A new memo has the next id and any create time, and the state of a memo
\* and its create time can be edited.
NoteCreated(n, t) ==
  /\ notes[n] = NotYet /\ \A m \in Notes : m < n => notes[m] # NotYet
  /\ Shift(n, [state |-> "NORMAL", time |-> t])
NoteDeleted(n) == notes[n].state \in NoteStates /\ Shift(n, Deleted)
NoteMoved(n, s) == notes[n].state \in NoteStates \ {s} /\ Shift(n, [notes[n] EXCEPT !.state = s])
NoteDated(n, t) ==
  /\ notes[n].state \in NoteStates /\ notes[n].time # t
  /\ Shift(n, [notes[n] EXCEPT !.time = t])

\* Another tab signs in: this one adopts its token and goes on.
SwitchUser ==
  /\ exporting /\ own
  /\ own' = FALSE
  /\ UNCHANGED <<notes, listing, exporting, saved, start, touched, moved, entered, left, exports, shifts>>
-----------------------------------------------------------------------------
ExportInit ==
  /\ notes \in [Notes -> {NotYet} \cup [state : NoteStates, time : Seconds]]
  /\ \A n \in Notes : notes[n] = NotYet => \A m \in Notes : m > n => notes[m] = NotYet
  /\ own = TRUE
  /\ listing = [s \in NoteStates |-> NoListing]
  /\ exporting = FALSE
  /\ saved = NotSaved
  /\ start = notes
  /\ touched = {} /\ moved = {}
  /\ entered = Quiet /\ left = Quiet
  /\ exports = 0 /\ shifts = 0

ExportNext ==
  \/ handleExportMemos \/ SaveFile \/ SwitchUser
  \/ \E s \in NoteStates : NextPage(s) \/ ExportFails(s)
  \/ \E n \in Notes : \/ NoteDeleted(n)
                      \/ \E s \in NoteStates : NoteMoved(n, s)
                      \/ \E t \in Seconds : NoteCreated(n, t) \/ NoteDated(n, t)

ExportSpec == ExportInit /\ [][ExportNext]_exportVars
-----------------------------------------------------------------------------
Copies(n, s) == Cardinality({i \in DOMAIN saved[s] : saved[s][i] = n})

(***************************************************************************)
(* An export that is reported as done holds every memo nobody touched      *)
(* meanwhile, once and under its state.  Of those it repeats one only if   *)
(* another memo came to be among the pages already read, and misses one    *)
(* only if another memo left them; and unless one of the two, or a memo    *)
(* that changed its place, intervened, the file can be imported again.      *)
(* All of this as long as the browser stays signed in as the account.      *)
(***************************************************************************)
ExportFaithful ==
  (saved # NotSaved /\ own) =>
    /\ \A n \in Notes \ touched, s \in NoteStates :
         IF start[n].state # s THEN Copies(n, s) = 0
         ELSE /\ entered[s] \/ Copies(n, s) <= 1
              /\ left[s] \/ Copies(n, s) >= 1
    /\ moved = {} /\ entered = Quiet => CanImport(saved)
=============================================================================
