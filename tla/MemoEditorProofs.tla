---------------------------- MODULE MemoEditorProofs ----------------------------
(***************************************************************************)
(* Proofs about MemoEditor, for any number of editors, notes, ids, texts   *)
(* and late requests, with storage that may fail.                          *)
(***************************************************************************)
EXTENDS MemoEditor, FiniteSetTheorems, TLAPS

(***************************************************************************)
(* Whatever holds a request id together with a note - an editor, the draft *)
(* entry, the debounce timer, a call, a late request, a memo - holds the   *)
(* pair that handleSave made: the id was generated for that note, and for  *)
(* a note that is undecided there is no other.                             *)
(***************************************************************************)
Claim(rid, note) ==
    /\ note < nextNote
    /\ rid # NoId => rid \in RequestIds /\ owner[rid] = note
    /\ note \in Undecided => rid = idOf[note]

EditorClaims == \A i \in Editors : ed[i] # NoEditor => Claim(ed[i].rid, ed[i].note)
DraftClaims ==
    /\ storage # NoDraft => Claim(storage.rid, storage.note)
    /\ timer # NoDraft => Claim(timer.rid, timer.note)
CallClaims ==
    /\ \A i \in Editors : wire[i] # Quiet => Claim(wire[i].rid, wire[i].note)
    /\ \A q \in late : Claim(q.rid, q.note)
MemoClaims == \A r \in RequestIds : memos[r] # NoMemo => Claim(r, memos[r].note)

FutureNotes == \A n \in Notes : n >= nextNote => idOf[n] = NoId

(***************************************************************************)
(* Where handleSave can be: a call in flight has an id and a text, a save  *)
(* that waits for the queries has been confirmed, and an editor that is    *)
(* neither on screen nor saving is gone.                                   *)
(***************************************************************************)
Phase(e, w, saved) ==
    /\ e.mounted \/ e.saving # "no" <=> e # NoEditor
    /\ e.saving \in Calling => e.rid # NoId /\ e.content # Blank
    /\ e.saving = "refreshing" => e.note \in saved
    /\ w # Quiet <=> e.saving \in Calling

SavePhases == \A i \in Editors : Phase(ed[i], wire[i], confirmed)

OneMounted == \A i, j \in Editors : ed[i].mounted /\ ed[j].mounted => i = j

EInv ==
    /\ TypeOK
    /\ SavePhases
    /\ OneMounted
    /\ FutureNotes
    /\ EditorClaims
    /\ DraftClaims
    /\ CallClaims
    /\ MemoClaims

--------------------------------------------------------------------------------
(***************************************************************************)
(* A note number is positive, so nothing that holds a note is empty.       *)
(***************************************************************************)
LEMMA NoteFacts ==
    /\ Notes \subseteq Nat /\ NoNote \notin Notes
    /\ NoEditor \notin Editor /\ NoDraft \notin Draft /\ NoMemo \notin Memo
    /\ Quiet \notin Request /\ Quiet \notin Reply
  BY MemoApiAssumption DEF Notes, NoNote, NoEditor, Editor, NoDraft, Draft, NoMemo, Memo,
     Quiet, Request, Reply

(***************************************************************************)
(* DraftOf makes a draft of the editor's id and note.                      *)
(***************************************************************************)
LEMMA DraftOfFacts ==
    ASSUME NEW e \in Editor
    PROVE  DraftOf(e) \in Draft /\ DraftOf(e).rid = e.rid /\ DraftOf(e).note = e.note
  BY DEF DraftOf, Editor, Draft

(***************************************************************************)
(* What the three ways to touch the draft entry and the timer can leave    *)
(* there: what was there, nothing, or the draft of the editor.             *)
(***************************************************************************)
LEMMA WriteFacts ==
    ASSUME NEW d, NEW ok, writeEntry(d, ok)
    PROVE  storage' \in {storage, NoDraft, d}
  BY DEF writeEntry

\* The autosave effect keeps or removes the entry and schedules the draft or nothing.
LEMMA AutoSaveFacts ==
    ASSUME NEW e, AutoSaveEffect(e)
    PROVE  storage' \in {storage, NoDraft} /\ timer' \in {DraftOf(e), NoDraft}
  BY DEF AutoSaveEffect, clear

\* A flush writes the editor's draft at most, and only ever cancels the timer.
LEMMA FlushFacts ==
    ASSUME NEW e, NEW ok, flushDraft(e, ok)
    PROVE  storage' \in {storage, NoDraft, DraftOf(e)} /\ timer' \in {timer, NoDraft}
  BY DEF flushDraft, clear, writeEntry

(***************************************************************************)
(* ClaimNext is Claim in the next state, of a given pair.  A step that     *)
(* generates no id keeps every claim; every step keeps the claims to an id *)
(* that was sent.                                                          *)
(***************************************************************************)
ClaimNext(rid, note) ==
    /\ note < nextNote'
    /\ rid # NoId => rid \in RequestIds /\ owner'[rid] = note
    /\ note \in Undecided' => rid = idOf'[note]

ClaimsKept ==
    \A rid \in RequestIds \cup {NoId}, note \in Notes : Claim(rid, note) => ClaimNext(rid, note)

SentKept ==
    \A rid \in RequestIds, note \in Notes : Claim(rid, note) => ClaimNext(rid, note)

\* Claims depend on owner and idOf, and weaken as notes are decided or added.
LEMMA ClaimsKeptLemma ==
    ASSUME TypeOK, UNCHANGED <<owner, idOf, unkept>>,
           confirmed \subseteq confirmed', nextNote' \in {nextNote, nextNote + 1}
    PROVE  ClaimsKept
  BY NoteFacts, MemoApiAssumption DEF ClaimsKept, Claim, ClaimNext, Undecided, TypeOK

\* Entry and timer keep their claims when the only new draft is a claim itself.
LEMMA DraftStep ==
    ASSUME TypeOK, DraftClaims, ClaimsKept, NEW e \in Editor, ClaimNext(e.rid, e.note),
           storage' \in {storage, NoDraft, DraftOf(e)}, timer' \in {timer, NoDraft, DraftOf(e)}
    PROVE  /\ storage' \in Draft \cup {NoDraft} /\ timer' \in Draft \cup {NoDraft}
           /\ DraftClaims'
  <1>1. DraftOf(e) \in Draft /\ DraftOf(e).rid = e.rid /\ DraftOf(e).note = e.note
    BY DraftOfFacts
  <1>2. storage' \in Draft \cup {NoDraft} /\ timer' \in Draft \cup {NoDraft}
    BY <1>1 DEF TypeOK
  <1>3. \A d \in Draft : Claim(d.rid, d.note) => ClaimNext(d.rid, d.note)
    BY DEF ClaimsKept, Draft
  <1>4. storage' # NoDraft => ClaimNext(storage'.rid, storage'.note)
    BY <1>1, <1>2, <1>3 DEF DraftClaims, TypeOK
  <1>5. timer' # NoDraft => ClaimNext(timer'.rid, timer'.note)
    BY <1>1, <1>2, <1>3 DEF DraftClaims, TypeOK
  <1> QED
    BY <1>2, <1>4, <1>5 DEF DraftClaims, Claim, ClaimNext

(***************************************************************************)
(* A step that touches at most editor i and its call keeps the claims of   *)
(* all editors and calls, and their phases, if it does so for editor i.    *)
(***************************************************************************)
Touches(i) ==
    /\ ed' \in [Editors -> Editor \cup {NoEditor}]
    /\ wire' \in [Editors -> Request \cup Reply \cup {Quiet}]
    /\ \A j \in Editors : j # i => ed'[j] = ed[j] /\ wire'[j] = wire[j]

CallClaimsNext == \A j \in Editors : wire'[j] # Quiet => ClaimNext(wire'[j].rid, wire'[j].note)

\* The general form, for the step that generates an id.
LEMMA EditorStepSent ==
    ASSUME EInv, SentKept, confirmed \subseteq confirmed', NEW i \in Editors, Touches(i),
           \A j \in Editors : j # i /\ ed[j] # NoEditor => ClaimNext(ed[j].rid, ed[j].note),
           Phase(ed'[i], wire'[i], confirmed'),
           ed'[i].mounted => ed[i].mounted \/ \A j \in Editors : ~ed[j].mounted,
           ed'[i] # NoEditor => ClaimNext(ed'[i].rid, ed'[i].note),
           wire'[i] # Quiet => ClaimNext(wire'[i].rid, wire'[i].note)
    PROVE  EditorClaims' /\ CallClaimsNext /\ SavePhases' /\ OneMounted'
  <1>1. EditorClaims'
    <2>1. \A j \in Editors : ed'[j] # NoEditor => ClaimNext(ed'[j].rid, ed'[j].note)
      BY DEF Touches
    <2> QED
      BY <2>1 DEF EditorClaims, Claim, ClaimNext
  <1>2. CallClaimsNext
    <2>1. \A w \in Request \cup Reply : Claim(w.rid, w.note) => ClaimNext(w.rid, w.note)
      BY DEF SentKept, Request, Reply
    <2> QED
      BY <2>1 DEF EInv, TypeOK, CallClaims, Touches, CallClaimsNext
  <1>3. SavePhases'
    <2>1. ASSUME NEW j \in Editors PROVE Phase(ed'[j], wire'[j], confirmed')
      <3>1. CASE j = i
        BY <3>1
      <3>2. CASE j # i
        <4>1. ed'[j] = ed[j] /\ wire'[j] = wire[j]
          BY <3>2 DEF Touches
        <4> QED
          BY <4>1 DEF EInv, SavePhases, Phase
      <3> QED
        BY <3>1, <3>2
    <2> QED
      BY <2>1 DEF SavePhases
  <1>4. OneMounted'
    BY DEF EInv, OneMounted, Touches
  <1> QED
    BY <1>1, <1>2, <1>3, <1>4

\* The form for every other step.
LEMMA EditorStep ==
    ASSUME EInv, ClaimsKept, confirmed \subseteq confirmed', NEW i \in Editors, Touches(i),
           Phase(ed'[i], wire'[i], confirmed'),
           ed'[i].mounted => ed[i].mounted \/ \A j \in Editors : ~ed[j].mounted,
           ed'[i] # NoEditor => ClaimNext(ed'[i].rid, ed'[i].note),
           wire'[i] # Quiet => ClaimNext(wire'[i].rid, wire'[i].note)
    PROVE  EditorClaims' /\ CallClaimsNext /\ SavePhases' /\ OneMounted'
  <1>1. SentKept
    BY DEF ClaimsKept, SentKept
  <1>2. \A e \in Editor : Claim(e.rid, e.note) => ClaimNext(e.rid, e.note)
    BY DEF ClaimsKept, Editor
  <1>3. \A j \in Editors : ed[j] # NoEditor => ClaimNext(ed[j].rid, ed[j].note)
    BY <1>2 DEF EInv, TypeOK, EditorClaims
  <1> QED
    BY <1>1, <1>3, EditorStepSent

(***************************************************************************)
(* The parts that a step leaves alone when it changes neither the table    *)
(* nor the late requests.                                                  *)
(***************************************************************************)
LEMMA RestKeptSent ==
    ASSUME EInv, SentKept, UNCHANGED <<memos, late>>, CallClaimsNext
    PROVE  MemoTypeOK' /\ MemoClaims' /\ late' \subseteq Request /\ CallClaims'
  <1>1. MemoTypeOK' /\ late' \subseteq Request
    BY DEF EInv, TypeOK, MemoTypeOK
  <1>2. \A m \in Memo, r \in RequestIds : Claim(r, m.note) => ClaimNext(r, m.note)
    BY DEF SentKept, Memo
  <1>3. \A r \in RequestIds : memos[r] # NoMemo => ClaimNext(r, memos[r].note)
    BY <1>2 DEF EInv, TypeOK, MemoTypeOK, MemoClaims
  <1>4. MemoClaims'
    BY <1>3 DEF MemoClaims, Claim, ClaimNext
  <1>5. \A q \in Request : Claim(q.rid, q.note) => ClaimNext(q.rid, q.note)
    BY DEF SentKept, Request
  <1>6. \A q \in late' : ClaimNext(q.rid, q.note)
    BY <1>5 DEF EInv, TypeOK, CallClaims
  <1> QED
    BY <1>1, <1>4, <1>6 DEF CallClaims, CallClaimsNext, Claim, ClaimNext

\* The form for a step that generates no id.
LEMMA RestKept ==
    ASSUME EInv, ClaimsKept, UNCHANGED <<memos, late>>, CallClaimsNext
    PROVE  MemoTypeOK' /\ MemoClaims' /\ late' \subseteq Request /\ CallClaims'
  <1>1. SentKept
    BY DEF ClaimsKept, SentKept
  <1> QED
    BY <1>1, RestKeptSent

(***************************************************************************)
(* A step that generates no id, confirms nothing and starts no note.       *)
(***************************************************************************)
LEMMA HistoryKept ==
    ASSUME EInv, UNCHANGED <<kind, history>>
    PROVE  /\ ClaimsKept /\ FutureNotes' /\ confirmed' = confirmed
           /\ kind' \in Kinds
           /\ owner' \in [RequestIds -> Notes \cup {NoNote}]
           /\ nextNote' \in 1 .. MaxNotes + 1
           /\ idOf' \in [Notes -> RequestIds \cup {NoId}]
           /\ confirmed' \subseteq Notes /\ unkept' \subseteq Notes
  <1>1. ClaimsKept
    BY ClaimsKeptLemma DEF EInv, history
  <1> QED
    BY <1>1 DEF EInv, TypeOK, history, FutureNotes

(***************************************************************************)
(* An editor that is on screen or saving is not the empty one.             *)
(***************************************************************************)
LEMMA LiveEditor ==
    ASSUME EInv, NEW i \in Editors, ed[i].mounted \/ ed[i].saving # "no"
    PROVE  /\ ed[i] \in Editor /\ ed[i] # NoEditor /\ Claim(ed[i].rid, ed[i].note)
           /\ ed[i].rid \in RequestIds \cup {NoId} /\ ed[i].note \in Notes
           /\ ClaimsKept => ClaimNext(ed[i].rid, ed[i].note)
  <1>1. ed[i] # NoEditor
    BY DEF EInv, SavePhases, Phase
  <1>2. ed[i] \in Editor
    BY <1>1 DEF EInv, TypeOK
  <1>3. Claim(ed[i].rid, ed[i].note)
    BY <1>1 DEF EInv, EditorClaims
  <1>4. ed[i].rid \in RequestIds \cup {NoId} /\ ed[i].note \in Notes
    BY <1>2 DEF Editor
  <1> QED
    BY <1>1, <1>2, <1>3, <1>4 DEF ClaimsKept

--------------------------------------------------------------------------------
(***************************************************************************)
(* The actions of the editor, one lemma each.                              *)
(***************************************************************************)
LEMMA TypeStep ==
    ASSUME EInv, NEW i \in Editors, NEW t \in Texts \cup {Blank}, Type(i, t)
    PROVE  EInv'
  <1> DEFINE e == [ed[i] EXCEPT !.content = t, !.discarded = FALSE]
  <1>1. /\ ed[i].mounted /\ ed[i].saving = "no" /\ ed' = [ed EXCEPT ![i] = e]
        /\ AutoSaveEffect(e) /\ UNCHANGED <<memos, wire, late>> /\ UNCHANGED <<kind, history>>
    BY DEF Type
  <1>2. ed[i] \in Editor
    BY <1>1, LiveEditor
  <1>3. /\ e \in Editor /\ e.rid = ed[i].rid /\ e.note = ed[i].note
        /\ e.saving = ed[i].saving /\ e.mounted = ed[i].mounted
    BY <1>2 DEF Editor
  <1> HIDE DEF e
  <1>4. ClaimsKept /\ ClaimNext(e.rid, e.note)
    BY <1>1, <1>3, HistoryKept, LiveEditor
  <1>5. Touches(i) /\ ed'[i] = e /\ wire'[i] = wire[i]
    BY <1>1, <1>3 DEF EInv, TypeOK, Touches
  <1>6. wire[i] = Quiet /\ e # NoEditor
    BY <1>1, <1>3, NoteFacts DEF EInv, SavePhases, Phase, Calling
  <1>7. Phase(ed'[i], wire'[i], confirmed')
    BY <1>1, <1>3, <1>5, <1>6 DEF Phase, Calling
  <1>8. EditorClaims' /\ CallClaimsNext /\ SavePhases' /\ OneMounted'
    BY <1>1, <1>3, <1>4, <1>5, <1>6, <1>7, EditorStep, HistoryKept
  <1>9. storage' \in Draft \cup {NoDraft} /\ timer' \in Draft \cup {NoDraft} /\ DraftClaims'
    BY <1>1, <1>3, <1>4, AutoSaveFacts, DraftStep DEF EInv
  <1> QED
    BY <1>1, <1>4, <1>5, <1>8, <1>9, HistoryKept, RestKept DEF EInv, TypeOK, Touches

\* pagehide or visibilitychange flushes the draft of the editor on screen.
LEMMA PageHiddenStep ==
    ASSUME EInv, NEW i \in Editors, PageHidden(i)
    PROVE  EInv'
  <1>1. PICK ok \in WriteOutcomes : flushDraft(ed[i], ok)
    BY DEF PageHidden
  <1>2. /\ ed[i].mounted /\ UNCHANGED <<memos, ed, wire, late>> /\ UNCHANGED <<kind, history>>
    BY DEF PageHidden
  <1>3. ed[i] \in Editor /\ ClaimsKept /\ ClaimNext(ed[i].rid, ed[i].note)
    BY <1>2, HistoryKept, LiveEditor
  <1>4. storage' \in Draft \cup {NoDraft} /\ timer' \in Draft \cup {NoDraft} /\ DraftClaims'
    BY <1>1, <1>3, FlushFacts, DraftStep DEF EInv
  <1> QED
    BY <1>2, <1>4 DEF EInv, TypeOK, MemoTypeOK, SavePhases, OneMounted, FutureNotes, EditorClaims,
       CallClaims, MemoClaims, Claim, Undecided, history

\* The debounced write moves the scheduled draft into the entry.
LEMMA TimerFiresStep ==
    ASSUME EInv, TimerFires
    PROVE  EInv'
  <1>1. /\ timer # NoDraft /\ timer' = NoDraft
        /\ UNCHANGED <<memos, ed, wire, late>> /\ UNCHANGED <<kind, history>>
    BY DEF TimerFires
  <1>2. storage' \in {storage, NoDraft, timer}
    BY WriteFacts DEF TimerFires
  <1> QED
    BY <1>1, <1>2 DEF EInv, TypeOK, MemoTypeOK, SavePhases, OneMounted, FutureNotes, EditorClaims,
       DraftClaims, CallClaims, MemoClaims, Claim, Undecided, history

\* A closed editor without a running save is gone, any other stays.
LEMMA SettleFacts ==
    ASSUME NEW e \in Editor
    PROVE  /\ Settle(e) \in {e, NoEditor}
           /\ Settle(e) = e <=> (e.mounted \/ e.saving # "no")
  BY NoteFacts DEF Settle

\* Closing an editor flushes its draft and leaves its running save.
LEMMA UnmountStep ==
    ASSUME EInv, NEW i \in Editors, Unmount(i)
    PROVE  EInv'
  <1> DEFINE e == [ed[i] EXCEPT !.mounted = FALSE]
  <1>1. PICK ok \in WriteOutcomes : flushDraft(ed[i], ok)
    BY DEF Unmount
  <1>2. /\ ed[i].mounted /\ ed' = [ed EXCEPT ![i] = Settle(e)]
        /\ UNCHANGED <<memos, wire, late>> /\ UNCHANGED <<kind, history>>
    BY DEF Unmount
  <1>3. ed[i] \in Editor /\ ed[i] # NoEditor /\ ClaimsKept /\ ClaimNext(ed[i].rid, ed[i].note)
    BY <1>2, HistoryKept, LiveEditor
  <1>4. /\ e \in Editor /\ e.rid = ed[i].rid /\ e.note = ed[i].note /\ e.content = ed[i].content
        /\ e.saving = ed[i].saving /\ ~e.mounted
    BY <1>3 DEF Editor
  <1> HIDE DEF e
  <1>5. /\ Settle(e) \in {e, NoEditor}
        /\ Settle(e) = e <=> e.saving # "no"
    BY <1>4, SettleFacts
  <1>6. Touches(i) /\ ed'[i] = Settle(e) /\ wire'[i] = wire[i]
    BY <1>2, <1>4, <1>5 DEF EInv, TypeOK, Touches
  <1>7. Phase(ed[i], wire[i], confirmed)
    BY DEF EInv, SavePhases
  <1>8. Phase(ed'[i], wire'[i], confirmed') /\ ~ed'[i].mounted
    <2>1. CASE e.saving # "no"
      BY <1>2, <1>4, <1>5, <1>6, <1>7, <2>1, NoteFacts, HistoryKept DEF Phase, Calling
    <2>2. CASE e.saving = "no"
      <3>1. ed'[i] = NoEditor /\ wire'[i] = Quiet
        BY <1>4, <1>5, <1>6, <1>7, <2>2 DEF Phase, Calling
      <3> QED
        BY <3>1 DEF Phase, Calling, NoEditor
    <2> QED
      BY <2>1, <2>2
  <1>9. wire'[i] # Quiet => ClaimNext(wire'[i].rid, wire'[i].note)
    BY <1>3, <1>6 DEF EInv, TypeOK, CallClaims, ClaimsKept, Request, Reply
  <1>10. EditorClaims' /\ CallClaimsNext /\ SavePhases' /\ OneMounted'
    BY <1>2, <1>3, <1>4, <1>5, <1>6, <1>8, <1>9, EditorStep, HistoryKept
  <1>11. storage' \in Draft \cup {NoDraft} /\ timer' \in Draft \cup {NoDraft} /\ DraftClaims'
    BY <1>1, <1>3, FlushFacts, DraftStep DEF EInv
  <1> QED
    BY <1>2, <1>3, <1>6, <1>10, <1>11, HistoryKept, RestKept DEF EInv, TypeOK, Touches

\* Only a request that has not been answered can arrive late.
LEMMA AbandonedFacts ==
    ASSUME EInv, NEW i \in Editors, NEW q \in Abandoned(wire[i])
    PROVE  q = wire[i] /\ q \in Request
  BY DEF Abandoned, EInv, TypeOK, Reply, Quiet

\* A lost page leaves the entry, the table and the requests under way.
LEMMA PageLostStep ==
    ASSUME EInv, PageLost
    PROVE  EInv'
  <1>1. /\ ed' = [i \in Editors |-> NoEditor] /\ timer' = NoDraft
        /\ wire' = [i \in Editors |-> Quiet] /\ UNCHANGED <<memos, storage>>
        /\ UNCHANGED <<kind, history>>
    BY DEF PageLost
  <1>2. \A q \in late' : q \in Request /\ Claim(q.rid, q.note)
    <2>1. SUFFICES ASSUME NEW q \in late' PROVE q \in Request /\ Claim(q.rid, q.note)
      OBVIOUS
    <2>2. q \in late \/ \E i \in Editors : q \in Abandoned(wire[i])
      BY <2>1 DEF PageLost
    <2>3. CASE q \in late
      BY <2>3 DEF EInv, TypeOK, CallClaims
    <2>4. ASSUME NEW i \in Editors, q \in Abandoned(wire[i])
          PROVE  q \in Request /\ Claim(q.rid, q.note)
      BY <2>4, AbandonedFacts, NoteFacts DEF EInv, CallClaims
    <2> QED
      BY <2>2, <2>3, <2>4
  <1>3. SavePhases' /\ OneMounted' /\ EditorClaims'
    BY <1>1 DEF SavePhases, Phase, OneMounted, EditorClaims, NoEditor, Calling
  <1>4. CallClaims'
    BY <1>1, <1>2 DEF CallClaims, Claim, Undecided, history
  <1>5. MemoClaims' /\ DraftClaims' /\ FutureNotes'
    BY <1>1 DEF EInv, MemoClaims, DraftClaims, FutureNotes, Claim, Undecided, history
  <1> QED
    BY <1>1, <1>2, <1>3, <1>4, <1>5, HistoryKept DEF EInv, TypeOK, MemoTypeOK

\* A mounted editor takes its id and note from the entry, or starts a note.
LEMMA MountStep ==
    ASSUME EInv, NEW i \in Editors, Mount(i)
    PROVE  EInv'
  <1>1. /\ ed[i] = NoEditor /\ \A j \in Editors : ~ed[j].mounted
        /\ UNCHANGED <<memos, wire, late>> /\ UNCHANGED <<owner, idOf, confirmed, unkept, kind>>
    BY DEF Mount
  <1>2. wire[i] = Quiet
    BY <1>1 DEF EInv, SavePhases, Phase, NoEditor, Calling
  <1>3. PICK e \in Editor :
          /\ ed' = [ed EXCEPT ![i] = e] /\ AutoSaveEffect(e)
          /\ e.mounted /\ e.saving = "no"
          /\ nextNote' \in {nextNote, nextNote + 1} /\ nextNote' \in 1 .. MaxNotes + 1
          /\ ClaimNext(e.rid, e.note)
    <2>1. CASE storage # NoDraft
      <3>1. storage \in Draft /\ Claim(storage.rid, storage.note)
        BY <2>1 DEF EInv, TypeOK, DraftClaims
      <3>2. /\ Recover(storage) \in Editor /\ Recover(storage).mounted
            /\ Recover(storage).saving = "no" /\ Recover(storage).rid = storage.rid
            /\ Recover(storage).note = storage.note
        BY <3>1 DEF Recover, NoEditor, Editor, Draft
      <3>3. nextNote' = nextNote
        BY <2>1 DEF Mount
      <3>4. ClaimNext(storage.rid, storage.note)
        BY <1>1, <3>1, <3>3 DEF Claim, ClaimNext, Undecided
      <3> QED
        BY <2>1, <3>2, <3>3, <3>4 DEF Mount, EInv, TypeOK
    <2>2. CASE storage = NoDraft
      <3>1. nextNote \in Notes /\ nextNote' = nextNote + 1
        BY <2>2 DEF Mount
      <3>2. /\ FreshEditor(nextNote) \in Editor /\ FreshEditor(nextNote).mounted
            /\ FreshEditor(nextNote).saving = "no" /\ FreshEditor(nextNote).rid = NoId
            /\ FreshEditor(nextNote).note = nextNote
        BY <3>1 DEF FreshEditor, NoEditor, Editor
      <3>3. ClaimNext(NoId, nextNote) /\ nextNote' \in 1 .. MaxNotes + 1
        BY <1>1, <3>1, MemoApiAssumption DEF ClaimNext, Undecided, EInv, FutureNotes, Notes
      <3> QED
        BY <2>2, <3>1, <3>2, <3>3 DEF Mount
    <2> QED
      BY <2>1, <2>2
  <1>4. ClaimsKept
    BY <1>1, <1>3, ClaimsKeptLemma DEF EInv
  <1>5. Touches(i) /\ ed'[i] = e /\ wire'[i] = Quiet
    BY <1>1, <1>2, <1>3 DEF EInv, TypeOK, Touches
  <1>6. Phase(ed'[i], wire'[i], confirmed') /\ e # NoEditor
    BY <1>3, <1>5, NoteFacts DEF Phase, Calling
  <1>7. EditorClaims' /\ CallClaimsNext /\ SavePhases' /\ OneMounted'
    BY <1>1, <1>3, <1>4, <1>5, <1>6, EditorStep
  <1>8. storage' \in Draft \cup {NoDraft} /\ timer' \in Draft \cup {NoDraft} /\ DraftClaims'
    BY <1>3, <1>4, AutoSaveFacts, DraftStep DEF EInv
  <1>9. FutureNotes'
    BY <1>1, <1>3, NoteFacts DEF EInv, TypeOK, FutureNotes
  <1> QED
    BY <1>1, <1>3, <1>4, <1>5, <1>7, <1>8, <1>9, RestKept DEF EInv, TypeOK, Touches

\* handleSave generates an id for a note that has none, with its draft on disk.
LEMMA StartSaveStep ==
    ASSUME EInv, NEW i \in Editors, StartSave(i)
    PROVE  EInv'
  <1>1. ed[i].mounted /\ ed[i].saving = "no" /\ ed[i].content # Blank
    BY DEF StartSave
  <1>2. /\ ed[i] \in Editor /\ Claim(ed[i].rid, ed[i].note) /\ ed[i].note \in Notes
        /\ ed[i].rid \in RequestIds \cup {NoId}
    BY <1>1, LiveEditor
  <1> DEFINE E(r, ok) == [ed[i] EXCEPT !.rid = r, !.delivery = "sending",
                                       !.saving = "creating", !.persisted = ok]
             op == IF kind = "comment" THEN "comment" ELSE "create"
  <1>3. PICK r \in IdsToSend(ed[i]), ok \in WriteOutcomes :
          /\ ed' = [ed EXCEPT ![i] = E(r, ok)]
          /\ writeEntry(DraftOf(E(r, ok)), ok)
          /\ timer' = DraftOf(E(r, ok))
          /\ wire' = [wire EXCEPT ![i] = Call(op, E(r, ok))]
          /\ owner' = [owner EXCEPT ![r] = E(r, ok).note]
          /\ idOf' = [idOf EXCEPT ![E(r, ok).note] = r]
          /\ unkept' = IF ok THEN unkept ELSE unkept \cup {E(r, ok).note}
    BY DEF StartSave
  <1>4. UNCHANGED <<memos, late, nextNote, confirmed, kind>>
    BY DEF StartSave
  <1> DEFINE e == E(r, ok)
  <1>5. r \in RequestIds /\ (r = ed[i].rid \/ (ed[i].rid = NoId /\ owner[r] = NoNote))
    BY <1>2, <1>3 DEF IdsToSend, UnusedIds
  <1>6. ok \in BOOLEAN
    BY DEF WriteOutcomes
  <1>7. /\ e \in Editor /\ e.rid = r /\ e.note = ed[i].note /\ e.content = ed[i].content
        /\ e.saving = "creating" /\ e.mounted /\ e.content # Blank
    BY <1>1, <1>2, <1>5, <1>6 DEF Editor, Calling
  <1>8. /\ ed' = [ed EXCEPT ![i] = e] /\ writeEntry(DraftOf(e), ok) /\ timer' = DraftOf(e)
        /\ wire' = [wire EXCEPT ![i] = Call(op, e)]
        /\ owner' = [owner EXCEPT ![r] = e.note] /\ idOf' = [idOf EXCEPT ![e.note] = r]
        /\ unkept' = IF ok THEN unkept ELSE unkept \cup {e.note}
    BY <1>3
  <1>9. op \in Ops
    BY DEF Ops
  <1> HIDE DEF e, E, op
  <1>10. Call(op, e) \in Request /\ Call(op, e).rid = r /\ Call(op, e).note = e.note
    BY <1>5, <1>7, <1>9 DEF Call, Request, Editor
  <1>11. /\ owner' \in [RequestIds -> Notes \cup {NoNote}]
         /\ idOf' \in [Notes -> RequestIds \cup {NoId}]
         /\ unkept \subseteq unkept' /\ unkept' \subseteq Notes
         /\ ~ok => e.note \in unkept'
    BY <1>2, <1>5, <1>7, <1>8 DEF EInv, TypeOK
  <1>12. e.note < nextNote /\ nextNote \in Nat /\ NoId \notin RequestIds
    BY <1>2, <1>7, MemoApiAssumption DEF Claim, EInv, TypeOK
  <1>13. SentKept
    <2> SUFFICES ASSUME NEW rid \in RequestIds, NEW note \in Notes, Claim(rid, note)
                 PROVE  ClaimNext(rid, note)
      BY DEF SentKept
    <2>1. owner'[rid] = note
      BY <1>2, <1>5, <1>7, <1>8, <1>12, NoteFacts DEF Claim, EInv, TypeOK
    <2>2. note \in Undecided' => note \in Undecided
      BY <1>4, <1>11 DEF Undecided
    <2>3. note \in Undecided' => rid = idOf'[note]
      <3>1. CASE note # e.note
        BY <1>7, <1>8, <2>2, <3>1 DEF Claim, EInv, TypeOK
      <3>2. CASE note = e.note
        BY <1>2, <1>5, <1>7, <1>8, <1>12, <2>2, <3>2 DEF Claim, EInv, TypeOK
      <3> QED
        BY <3>1, <3>2
    <2> QED
      BY <1>4, <2>1, <2>3 DEF Claim, ClaimNext
  <1>14. ClaimNext(r, e.note)
    BY <1>2, <1>4, <1>5, <1>7, <1>8, <1>12 DEF ClaimNext, EInv, TypeOK
  <1>15. ASSUME NEW j \in Editors, j # i, ed[j] # NoEditor
         PROVE  ClaimNext(ed[j].rid, ed[j].note)
    <2>1. ed[j] \in Editor /\ Claim(ed[j].rid, ed[j].note) /\ ed[j].note \in Notes
          /\ ed[j].rid \in RequestIds \cup {NoId}
      BY <1>15 DEF EInv, TypeOK, EditorClaims, Editor
    <2>2. ed[j].saving # "no"
      BY <1>1, <1>15 DEF EInv, OneMounted, SavePhases, Phase
    <2>3. CASE ed[j].rid # NoId
      BY <1>13, <2>1, <2>3 DEF SentKept
    <2>4. CASE ed[j].rid = NoId
      <3>1. ed[j].note \in confirmed
        BY <2>1, <2>2, <2>4 DEF EInv, SavePhases, Phase, Editor
      <3>2. ed[j].note \notin Undecided'
        BY <1>4, <3>1 DEF Undecided
      <3> QED
        BY <1>4, <2>1, <2>4, <3>2 DEF Claim, ClaimNext
    <2> QED
      BY <2>3, <2>4
  <1>16. Touches(i) /\ ed'[i] = e /\ wire'[i] = Call(op, e)
    BY <1>7, <1>8, <1>10 DEF EInv, TypeOK, Touches
  <1>17. Phase(ed'[i], wire'[i], confirmed')
    BY <1>7, <1>10, <1>12, <1>5, <1>16, NoteFacts DEF Phase, Calling
  <1>18. EditorClaims' /\ CallClaimsNext /\ SavePhases' /\ OneMounted'
    BY <1>1, <1>4, <1>7, <1>10, <1>13, <1>14, <1>15, <1>16, <1>17, EditorStepSent
  <1>19. storage' \in Draft \cup {NoDraft} /\ timer' \in Draft \cup {NoDraft} /\ DraftClaims'
    <2>1. DraftOf(e) \in Draft /\ DraftOf(e).rid = r /\ DraftOf(e).note = e.note
      BY <1>7, DraftOfFacts
    <2>2. storage' \in {storage, NoDraft, DraftOf(e)} /\ (ok => storage' \in {NoDraft, DraftOf(e)})
      BY <1>8 DEF writeEntry
    <2>3. storage' # NoDraft => ClaimNext(storage'.rid, storage'.note)
      <3>1. CASE storage' = DraftOf(e)
        BY <1>14, <2>1, <3>1
      <3>2. CASE storage' = storage /\ storage # NoDraft /\ ~ok
        <4>1. storage.note \in Notes /\ storage.rid \in RequestIds \cup {NoId}
              /\ Claim(storage.rid, storage.note)
          BY <3>2 DEF EInv, TypeOK, Draft, DraftClaims
        <4>2. CASE storage.rid # NoId
          BY <1>13, <3>2, <4>1, <4>2 DEF SentKept
        <4>3. CASE storage.rid = NoId
          <5>1. storage.note \in Undecided' => storage.note \in Undecided /\ storage.note # e.note
            BY <1>4, <1>11, <3>2 DEF Undecided
          <5> QED
            BY <1>4, <1>8, <3>2, <4>1, <4>3, <5>1 DEF Claim, ClaimNext, EInv, TypeOK
        <4> QED
          BY <4>2, <4>3
      <3> QED
        BY <2>2, <3>1, <3>2
    <2>4. timer' # NoDraft => ClaimNext(timer'.rid, timer'.note)
      BY <1>8, <1>14, <2>1
    <2> QED
      BY <1>8, <2>1, <2>2, <2>3, <2>4 DEF EInv, TypeOK, DraftClaims, Claim, ClaimNext
  <1>20. FutureNotes'
    BY <1>4, <1>7, <1>8, <1>12, NoteFacts DEF EInv, TypeOK, FutureNotes
  <1>21. MemoTypeOK' /\ MemoClaims' /\ late' \subseteq Request /\ CallClaims'
    BY <1>4, <1>13, <1>18, RestKeptSent
  <1> QED
    BY <1>4, <1>11, <1>16, <1>18, <1>19, <1>20, <1>21 DEF EInv, TypeOK, Touches

--------------------------------------------------------------------------------
(***************************************************************************)
(* The continuations of a call: what handleSave does with each answer.     *)
(***************************************************************************)
LEMMA CallerFacts ==
    ASSUME EInv, NEW i \in Editors, wire[i] # Quiet \/ ed[i].saving \in Calling
    PROVE  /\ ed[i].saving \in Calling /\ ed[i] \in Editor /\ ed[i] # NoEditor
           /\ ed[i].rid \in RequestIds /\ ed[i].note \in Notes /\ ed[i].content \in Texts
           /\ Claim(ed[i].rid, ed[i].note)
           /\ ClaimsKept => ClaimNext(ed[i].rid, ed[i].note)
  <1>1. ed[i].saving \in Calling
    BY DEF EInv, SavePhases, Phase
  <1>2. ed[i].saving # "no"
    BY <1>1 DEF Calling
  <1>3. /\ ed[i] \in Editor /\ ed[i] # NoEditor /\ Claim(ed[i].rid, ed[i].note)
        /\ ed[i].note \in Notes /\ (ClaimsKept => ClaimNext(ed[i].rid, ed[i].note))
    BY <1>2, LiveEditor
  <1>4. ed[i].rid \in RequestIds /\ ed[i].content \in Texts
    BY <1>1, <1>3 DEF EInv, SavePhases, Phase, Editor
  <1> QED
    BY <1>1, <1>3, <1>4

\* An answer is to a call.
LEMMA AnsweredNotQuiet ==
    ASSUME NEW i, NEW outcome, Answered(i, outcome)
    PROVE  wire[i] # Quiet
  BY DEF Answered, Quiet

(***************************************************************************)
(* The catch block leaves the editor idle or unsent, or gone, and its      *)
(* draft with the id it had.                                               *)
(***************************************************************************)
LEMMA CatchErrorStep ==
    ASSUME EInv, NEW i \in Editors, NEW network \in BOOLEAN, ed[i].saving \in Calling,
           CatchError(i, network), wire' = [wire EXCEPT ![i] = Quiet],
           UNCHANGED memos, UNCHANGED <<kind, history>>,
           late' \subseteq late \cup Abandoned(wire[i])
    PROVE  EInv'
  <1>1. /\ ed[i] \in Editor /\ ed[i] # NoEditor /\ ClaimsKept
        /\ ClaimNext(ed[i].rid, ed[i].note)
    BY CallerFacts, HistoryKept
  <1>2. PICK e \in Editor :
          /\ e.rid = ed[i].rid /\ e.note = ed[i].note /\ e.mounted = ed[i].mounted
          /\ e.saving = "no" /\ ed' = [ed EXCEPT ![i] = Settle(e)]
          /\ storage' \in {storage, NoDraft, DraftOf(e)} /\ timer' \in {timer, NoDraft, DraftOf(e)}
    <2>1. CASE network /\ ed[i].persisted
      <3> DEFINE e == [ed[i] EXCEPT !.delivery = "unsent", !.saving = "no"]
      <3>1. /\ e \in Editor /\ e.rid = ed[i].rid /\ e.note = ed[i].note
            /\ e.mounted = ed[i].mounted /\ e.saving = "no"
        BY <1>1 DEF Editor
      <3>2. ed' = [ed EXCEPT ![i] = Settle(e)] /\ UNCHANGED <<storage, timer>>
        BY <2>1 DEF CatchError
      <3> QED
        BY <3>1, <3>2
    <2>2. CASE ~(network /\ ed[i].persisted)
      <3> DEFINE e == [ed[i] EXCEPT !.delivery = "idle", !.saving = "no"]
      <3>1. /\ e \in Editor /\ e.rid = ed[i].rid /\ e.note = ed[i].note
            /\ e.mounted = ed[i].mounted /\ e.saving = "no"
        BY <1>1 DEF Editor
      <3>2. /\ ed' = [ed EXCEPT ![i] = Settle(e)]
            /\ \E ok \in WriteOutcomes : writeEntry(DraftOf(e), ok)
            /\ timer' = IF e.mounted THEN DraftOf(e) ELSE NoDraft
        BY <2>2 DEF CatchError
      <3>3. storage' \in {storage, NoDraft, DraftOf(e)}
        BY <3>2, WriteFacts
      <3> QED
        BY <3>1, <3>2, <3>3
    <2> QED
      BY <2>1, <2>2
  <1>3. Settle(e) \in {e, NoEditor} /\ (Settle(e) = e <=> e.mounted)
    BY <1>2, SettleFacts
  <1>4. Touches(i) /\ ed'[i] = Settle(e) /\ wire'[i] = Quiet
    BY <1>2, <1>3 DEF EInv, TypeOK, Touches
  <1>5. Phase(ed'[i], wire'[i], confirmed') /\ (ed'[i].mounted => ed[i].mounted)
    <2>1. CASE e.mounted
      BY <1>2, <1>3, <1>4, <2>1, NoteFacts DEF Phase, Calling
    <2>2. CASE ~e.mounted
      <3>1. ed'[i] = NoEditor
        BY <1>3, <1>4, <2>2
      <3> QED
        BY <1>4, <3>1 DEF Phase, Calling, NoEditor
    <2> QED
      BY <2>1, <2>2
  <1>6. EditorClaims' /\ CallClaimsNext /\ SavePhases' /\ OneMounted'
    BY <1>1, <1>2, <1>3, <1>4, <1>5, EditorStep, HistoryKept
  <1>7. storage' \in Draft \cup {NoDraft} /\ timer' \in Draft \cup {NoDraft} /\ DraftClaims'
    BY <1>1, <1>2, DraftStep DEF EInv
  <1>8. \A q \in late' : q \in Request /\ Claim(q.rid, q.note)
    <2> SUFFICES ASSUME NEW q \in late' PROVE q \in Request /\ Claim(q.rid, q.note)
      OBVIOUS
    <2>1. CASE q \in late
      BY <2>1 DEF EInv, TypeOK, CallClaims
    <2>2. CASE q \in Abandoned(wire[i])
      BY <2>2, AbandonedFacts, NoteFacts DEF EInv, CallClaims
    <2> QED
      BY <2>1, <2>2
  <1>9. CallClaims'
    BY <1>6, <1>8 DEF CallClaims, CallClaimsNext, Claim, ClaimNext, Undecided, history
  <1>10. MemoTypeOK' /\ MemoClaims'
    BY DEF EInv, TypeOK, MemoTypeOK, MemoClaims, Claim, Undecided, history
  <1> QED
    BY <1>4, <1>6, <1>7, <1>8, <1>9, <1>10, HistoryKept DEF EInv, TypeOK, Touches

\* The server refused the call.
LEMMA OnRejectedStep ==
    ASSUME EInv, NEW i \in Editors, OnRejected(i)
    PROVE  EInv'
  <1>1. ed[i].saving \in Calling
    BY AnsweredNotQuiet, CallerFacts DEF OnRejected
  <1>2. /\ CatchError(i, FALSE) /\ wire' = [wire EXCEPT ![i] = Quiet]
        /\ UNCHANGED memos /\ UNCHANGED late /\ UNCHANGED <<kind, history>>
    BY DEF OnRejected
  <1> QED
    BY <1>1, <1>2, CatchErrorStep

\* The connection broke before the answer.
LEMMA OnNetworkErrorStep ==
    ASSUME EInv, NEW i \in Editors, OnNetworkError(i)
    PROVE  EInv'
  <1>1. /\ ed[i].saving \in Calling /\ late' = late \cup Abandoned(wire[i])
        /\ CatchError(i, TRUE) /\ wire' = [wire EXCEPT ![i] = Quiet]
        /\ UNCHANGED memos /\ UNCHANGED <<kind, history>>
    BY DEF OnNetworkError
  <1> QED
    BY <1>1, CatchErrorStep

(***************************************************************************)
(* The save is confirmed: the note is decided and its id forgotten.        *)
(***************************************************************************)
LEMMA ConfirmSaveStep ==
    ASSUME EInv, NEW i \in Editors, ed[i].saving \in Calling, ConfirmSave(i),
           wire' = [wire EXCEPT ![i] = Quiet], UNCHANGED <<memos, late>>
    PROVE  EInv'
  <1> DEFINE e == [ed[i] EXCEPT !.discarded = TRUE, !.rid = NoId,
                                !.delivery = "idle", !.saving = "refreshing"]
  <1>1. /\ ed[i] \in Editor /\ ed[i].note \in Notes /\ Claim(ed[i].rid, ed[i].note)
    BY CallerFacts
  <1>2. /\ ed' = [ed EXCEPT ![i] = e] /\ storage' = NoDraft
        /\ timer' = IF e.mounted THEN DraftOf(e) ELSE NoDraft
        /\ confirmed' = confirmed \cup {e.note}
        /\ UNCHANGED <<owner, nextNote, idOf, unkept, kind>>
    BY DEF ConfirmSave
  <1>3. /\ e \in Editor /\ e.rid = NoId /\ e.note = ed[i].note
        /\ e.saving = "refreshing" /\ e.mounted = ed[i].mounted
    BY <1>1 DEF Editor
  <1> HIDE DEF e
  <1>4. ClaimsKept
    BY <1>2, ClaimsKeptLemma DEF EInv
  <1>5. ClaimNext(e.rid, e.note)
    BY <1>1, <1>2, <1>3 DEF Claim, ClaimNext, Undecided
  <1>6. Touches(i) /\ ed'[i] = e /\ wire'[i] = Quiet
    BY <1>2, <1>3 DEF EInv, TypeOK, Touches
  <1>7. Phase(ed'[i], wire'[i], confirmed')
    BY <1>2, <1>3, <1>6, NoteFacts DEF Phase, Calling
  <1>8. EditorClaims' /\ CallClaimsNext /\ SavePhases' /\ OneMounted'
    BY <1>2, <1>3, <1>4, <1>5, <1>6, <1>7, EditorStep
  <1>9. storage' \in Draft \cup {NoDraft} /\ timer' \in Draft \cup {NoDraft} /\ DraftClaims'
    BY <1>2, <1>3, <1>4, <1>5, DraftStep DEF EInv
  <1>10. confirmed' \subseteq Notes /\ FutureNotes'
    BY <1>1, <1>2, <1>3 DEF EInv, TypeOK, FutureNotes
  <1> QED
    BY <1>2, <1>4, <1>6, <1>8, <1>9, <1>10, RestKept DEF EInv, TypeOK, Touches

\* The server stored the memo.
LEMMA OnSavedStep ==
    ASSUME EInv, NEW i \in Editors, OnSaved(i)
    PROVE  EInv'
  <1>1. ed[i].saving \in Calling
    BY AnsweredNotQuiet, CallerFacts DEF OnSaved
  <1> QED
    BY <1>1, ConfirmSaveStep DEF OnSaved

(***************************************************************************)
(* handleSave makes its next call, with the id and the text it has.        *)
(***************************************************************************)
LEMMA NextCallStep ==
    ASSUME EInv, NEW i \in Editors, ed[i].saving \in Calling, NEW phase \in Calling, NEW op \in Ops,
           ed' = [ed EXCEPT ![i].saving = phase], wire' = [wire EXCEPT ![i] = Call(op, ed[i])],
           UNCHANGED <<memos, storage, timer, late>>, UNCHANGED <<kind, history>>
    PROVE  EInv'
  <1> DEFINE e == [ed[i] EXCEPT !.saving = phase]
  <1>1. /\ ed[i] \in Editor /\ ed[i].rid \in RequestIds /\ ed[i].note \in Notes
        /\ ed[i].content \in Texts /\ ClaimsKept /\ ClaimNext(ed[i].rid, ed[i].note)
    BY CallerFacts, HistoryKept
  <1>2. /\ e \in Editor /\ e.rid = ed[i].rid /\ e.note = ed[i].note /\ e.saving = phase
        /\ e.content = ed[i].content /\ e.mounted = ed[i].mounted
    BY <1>1 DEF Editor
  <1>3. ed' = [ed EXCEPT ![i] = e]
    OBVIOUS
  <1> HIDE DEF e
  <1>4. /\ Call(op, ed[i]) \in Request /\ Call(op, ed[i]).rid = ed[i].rid
        /\ Call(op, ed[i]).note = ed[i].note
    BY <1>1 DEF Call, Request
  <1>5. Touches(i) /\ ed'[i] = e /\ wire'[i] = Call(op, ed[i])
    BY <1>2, <1>3, <1>4 DEF EInv, TypeOK, Touches
  <1>6. Phase(ed'[i], wire'[i], confirmed')
    BY <1>1, <1>2, <1>4, <1>5, NoteFacts, MemoApiAssumption DEF Phase, Calling
  <1>7. EditorClaims' /\ CallClaimsNext /\ SavePhases' /\ OneMounted'
    BY <1>1, <1>2, <1>4, <1>5, <1>6, EditorStep, HistoryKept
  <1>8. DraftClaims'
    BY DEF EInv, DraftClaims, Claim, Undecided, history
  <1> QED
    BY <1>1, <1>5, <1>7, <1>8, HistoryKept, RestKept DEF EInv, TypeOK, Touches

\* AlreadyExists: the memo under the id is fetched.
LEMMA OnExistsStep ==
    ASSUME EInv, NEW i \in Editors, OnExists(i)
    PROVE  EInv'
  <1>1. ed[i].saving \in Calling
    BY AnsweredNotQuiet, CallerFacts DEF OnExists
  <1>2. "getting" \in Calling /\ "get" \in Ops
    BY DEF Calling, Ops
  <1> QED
    BY <1>1, <1>2, NextCallStep DEF OnExists

\* The fetched memo has the editor's text, or is updated.
LEMMA OnMemoStep ==
    ASSUME EInv, NEW i \in Editors, OnMemo(i)
    PROVE  EInv'
  <1>1. ed[i].saving \in Calling
    BY AnsweredNotQuiet, CallerFacts DEF OnMemo
  <1>2. CASE wire[i].text = ed[i].content
    BY <1>1, <1>2, ConfirmSaveStep DEF OnMemo
  <1>3. CASE wire[i].text # ed[i].content
    <2>1. "updating" \in Calling /\ "update" \in Ops
      BY DEF Calling, Ops
    <2> QED
      BY <1>1, <1>3, <2>1, NextCallStep DEF OnMemo
  <1> QED
    BY <1>2, <1>3

(***************************************************************************)
(* The queries are refetched: the next note, or no editor.                 *)
(***************************************************************************)
LEMMA FinishSaveStep ==
    ASSUME EInv, NEW i \in Editors, FinishSave(i)
    PROVE  EInv'
  <1>1. /\ ed[i].saving = "refreshing" /\ UNCHANGED <<memos, wire, late>>
        /\ UNCHANGED <<owner, idOf, confirmed, unkept, kind>>
    BY DEF FinishSave
  <1>2. wire[i] = Quiet
    BY <1>1 DEF EInv, SavePhases, Phase, Calling
  <1>3. CASE ed[i].mounted /\ kind = "memo"
    <2> DEFINE e == FreshEditor(nextNote)
    <2>1. /\ nextNote \in Notes /\ nextNote' = nextNote + 1
          /\ ed' = [ed EXCEPT ![i] = e] /\ AutoSaveEffect(e)
      BY <1>3 DEF FinishSave
    <2>2. e \in Editor /\ e.mounted /\ e.saving = "no" /\ e.rid = NoId /\ e.note = nextNote
      BY <2>1 DEF FreshEditor, NoEditor, Editor
    <2> HIDE DEF e
    <2>3. ClaimNext(e.rid, e.note) /\ nextNote' \in 1 .. MaxNotes + 1
      BY <1>1, <2>1, <2>2, MemoApiAssumption DEF ClaimNext, Undecided, EInv, FutureNotes, Notes
    <2>4. ClaimsKept
      BY <1>1, <2>1, ClaimsKeptLemma DEF EInv
    <2>5. Touches(i) /\ ed'[i] = e /\ wire'[i] = Quiet
      BY <1>1, <1>2, <2>1, <2>2 DEF EInv, TypeOK, Touches
    <2>6. Phase(ed'[i], wire'[i], confirmed')
      BY <2>2, <2>5, NoteFacts DEF Phase, Calling
    <2>7. EditorClaims' /\ CallClaimsNext /\ SavePhases' /\ OneMounted'
      BY <1>1, <1>3, <2>2, <2>3, <2>4, <2>5, <2>6, EditorStep
    <2>8. storage' \in Draft \cup {NoDraft} /\ timer' \in Draft \cup {NoDraft} /\ DraftClaims'
      BY <2>1, <2>2, <2>3, <2>4, AutoSaveFacts, DraftStep DEF EInv
    <2>9. FutureNotes'
      BY <1>1, <2>1, NoteFacts DEF EInv, TypeOK, FutureNotes
    <2> QED
      BY <1>1, <2>3, <2>4, <2>5, <2>7, <2>8, <2>9, RestKept DEF EInv, TypeOK, Touches
  <1>4. CASE ed' = [ed EXCEPT ![i] = NoEditor] /\ UNCHANGED <<storage, timer, nextNote>>
    <2>1. UNCHANGED <<kind, history>>
      BY <1>1, <1>4 DEF history
    <2>2. ClaimsKept
      BY <2>1, HistoryKept
    <2>3. Touches(i) /\ ed'[i] = NoEditor /\ wire'[i] = Quiet
      BY <1>1, <1>2, <1>4 DEF EInv, TypeOK, Touches
    <2>4. Phase(ed'[i], wire'[i], confirmed') /\ ~ed'[i].mounted
      BY <2>3 DEF Phase, Calling, NoEditor
    <2>5. EditorClaims' /\ CallClaimsNext /\ SavePhases' /\ OneMounted'
      BY <1>1, <2>2, <2>3, <2>4, EditorStep
    <2>6. DraftClaims'
      BY <1>1, <1>4 DEF EInv, DraftClaims, Claim, Undecided
    <2> QED
      BY <1>1, <1>4, <2>1, <2>2, <2>3, <2>5, <2>6, HistoryKept, RestKept DEF EInv, TypeOK, Touches
  <1> QED
    BY <1>3, <1>4 DEF FinishSave

--------------------------------------------------------------------------------
(***************************************************************************)
(* A handler of the memo service stores a row only under the id and for    *)
(* the note of its request, and never changes the note of a stored row.    *)
(***************************************************************************)
LEMMA HandleFacts ==
    ASSUME MemoTypeOK, NEW q \in Request, NEW outcome \in Outcomes, Handle(q, outcome)
    PROVE  /\ MemoTypeOK'
           /\ \A r \in RequestIds : memos'[r] # NoMemo =>
                 \/ memos[r] # NoMemo /\ memos'[r].note = memos[r].note
                 \/ r = q.rid /\ memos'[r].note = q.note
           /\ outcome = "memo" => memos[q.rid] # NoMemo
  <1>1. q.rid \in RequestIds /\ q.text \in Texts /\ q.note \in Notes
    BY DEF Request
  <1>2. CASE UNCHANGED memos
    <2>1. outcome = "memo" => memos[q.rid] # NoMemo
      BY DEF Handle, CreateMemo, CreateMemoComment, UpdateMemo, GetMemo, Exists
    <2> QED
      BY <1>2, <2>1 DEF MemoTypeOK
  <1>3. ASSUME NEW linked \in BOOLEAN, outcome # "memo",
               memos' = [memos EXCEPT ![q.rid] =
                            [text |-> q.text, note |-> q.note, linked |-> linked]]
        PROVE  /\ MemoTypeOK'
               /\ \A r \in RequestIds : memos'[r] # NoMemo =>
                     \/ memos[r] # NoMemo /\ memos'[r].note = memos[r].note
                     \/ r = q.rid /\ memos'[r].note = q.note
    <2> DEFINE m == [text |-> q.text, note |-> q.note, linked |-> linked]
    <2>1. m \in Memo /\ m.note = q.note
      BY <1>1 DEF Memo
    <2> HIDE DEF m
    <2>2. memos' = [memos EXCEPT ![q.rid] = m]
      BY <1>3 DEF m
    <2> QED
      BY <1>1, <2>1, <2>2 DEF MemoTypeOK
  <1>4. ASSUME memos[q.rid] # NoMemo, memos' = [memos EXCEPT ![q.rid].text = q.text]
        PROVE  /\ MemoTypeOK'
               /\ \A r \in RequestIds : memos'[r] # NoMemo =>
                     memos[r] # NoMemo /\ memos'[r].note = memos[r].note
    <2> DEFINE m == [memos[q.rid] EXCEPT !.text = q.text]
    <2>1. memos[q.rid] \in Memo
      BY <1>1, <1>4 DEF MemoTypeOK
    <2>2. m \in Memo /\ m.note = memos[q.rid].note
      BY <1>1, <2>1 DEF Memo
    <2>3. memos' = [memos EXCEPT ![q.rid] = m]
      BY <1>4
    <2> HIDE DEF m
    <2> QED
      BY <1>1, <1>4, <2>2, <2>3 DEF MemoTypeOK
  <1> QED
    BY <1>2, <1>3, <1>4 DEF Handle, CreateMemo, CreateMemoComment, UpdateMemo, GetMemo, Exists

\* Hence a request that is a claim leaves a table of claims.
LEMMA HandleClaims ==
    ASSUME EInv, UNCHANGED history, NEW q \in Request, Claim(q.rid, q.note),
           NEW outcome \in Outcomes, Handle(q, outcome)
    PROVE  MemoTypeOK' /\ MemoClaims'
  <1>1. MemoTypeOK' /\ \A r \in RequestIds : memos'[r] # NoMemo =>
                 \/ memos[r] # NoMemo /\ memos'[r].note = memos[r].note
                 \/ r = q.rid /\ memos'[r].note = q.note
    BY HandleFacts DEF EInv, TypeOK
  <1>2. \A r \in RequestIds : memos'[r] # NoMemo => Claim(r, memos'[r].note)
    BY <1>1 DEF EInv, MemoClaims
  <1> QED
    BY <1>1, <1>2 DEF MemoClaims, Claim, Undecided, history

\* The server answers a waiting call.
LEMMA ServeStep ==
    ASSUME EInv, NEW i \in Editors, NEW outcome \in Outcomes, Serve(i, outcome)
    PROVE  EInv'
  <1>1. /\ wire[i].phase = "request" /\ Handle(wire[i], outcome)
        /\ wire' = [wire EXCEPT ![i] = ReplyTo(wire[i], outcome)]
        /\ UNCHANGED <<ed, storage, timer, late>> /\ UNCHANGED <<kind, history>>
    BY DEF Serve
  <1>2. wire[i] \in Request /\ wire[i] # Quiet /\ Claim(wire[i].rid, wire[i].note)
    BY <1>1, NoteFacts DEF EInv, TypeOK, Reply, Quiet, CallClaims
  <1>3. MemoTypeOK' /\ MemoClaims'
    BY <1>1, <1>2, HandleClaims
  <1>4. outcome = "memo" => memos[wire[i].rid] \in Memo
    BY <1>1, <1>2, HandleFacts DEF EInv, TypeOK, MemoTypeOK, Request
  <1>5. /\ ReplyTo(wire[i], outcome) \in Reply /\ ReplyTo(wire[i], outcome).rid = wire[i].rid
        /\ ReplyTo(wire[i], outcome).note = wire[i].note
    BY <1>2, <1>4 DEF ReplyTo, Request, Reply, Memo
  <1>6. ClaimsKept /\ ClaimNext(wire[i].rid, wire[i].note)
    BY <1>1, <1>2, HistoryKept DEF ClaimsKept, Request
  <1>7. Touches(i) /\ ed'[i] = ed[i] /\ wire'[i] = ReplyTo(wire[i], outcome)
    BY <1>1, <1>5 DEF EInv, TypeOK, Touches
  <1>8. Phase(ed'[i], wire'[i], confirmed')
    BY <1>1, <1>2, <1>5, <1>7, NoteFacts, HistoryKept DEF EInv, SavePhases, Phase
  <1>9. ed[i].saving \in Calling /\ ClaimNext(ed[i].rid, ed[i].note)
    BY <1>2, <1>6, CallerFacts
  <1>10. EditorClaims' /\ CallClaimsNext /\ SavePhases' /\ OneMounted'
    BY <1>1, <1>5, <1>6, <1>7, <1>8, <1>9, EditorStep, HistoryKept
  <1>11. CallClaims'
    BY <1>1, <1>10 DEF EInv, CallClaims, CallClaimsNext, Claim, ClaimNext, Undecided, history
  <1>12. DraftClaims'
    BY <1>1 DEF EInv, DraftClaims, Claim, Undecided, history
  <1> QED
    BY <1>1, <1>3, <1>7, <1>10, <1>11, <1>12, HistoryKept DEF EInv, TypeOK, Touches

\* The server handles a request whose caller has gone.
LEMMA ServeLateStep ==
    ASSUME EInv, NEW q \in late, ServeLate(q)
    PROVE  EInv'
  <1>1. /\ late' = late \ {q} /\ UNCHANGED <<ed, storage, timer, wire>>
        /\ UNCHANGED <<kind, history>>
    BY DEF ServeLate
  <1>2. PICK outcome \in Outcomes : Handle(q, outcome)
    BY DEF ServeLate
  <1>3. MemoTypeOK' /\ MemoClaims'
    BY <1>1, <1>2, HandleClaims DEF EInv, TypeOK, CallClaims
  <1> QED
    BY <1>1, <1>3 DEF EInv, TypeOK, SavePhases, OneMounted, FutureNotes, EditorClaims,
       DraftClaims, CallClaims, Claim, Undecided, history

--------------------------------------------------------------------------------
(***************************************************************************)
(* The invariant holds initially and every step keeps it.                  *)
(***************************************************************************)
LEMMA InitEInv == Init => EInv
  <1> SUFFICES ASSUME Init PROVE EInv
    OBVIOUS
  <1>1. storage = NoDraft \/ storage \in LegacyDrafts
    BY DEF Init
  <1>2. /\ storage \in Draft \cup {NoDraft} /\ nextNote \in 1 .. MaxNotes + 1
        /\ storage # NoDraft => storage.rid = NoId /\ storage.note = 1 /\ nextNote = 2 /\ 1 \in Notes
    <2>1. 1 \in Notes /\ MaxNotes \in Nat /\ MaxNotes >= 1
      BY MemoApiAssumption DEF Notes
    <2>2. nextNote = IF storage = NoDraft THEN 1 ELSE 2
      BY DEF Init
    <2>3. CASE storage = NoDraft
      BY <2>1, <2>2, <2>3
    <2>4. CASE storage \in LegacyDrafts
      <3>1. storage \in Draft /\ storage.rid = NoId /\ storage.note = 1
        BY <2>1, <2>4 DEF LegacyDrafts, Draft
      <3> QED
        BY <2>1, <2>2, <3>1, NoteFacts
    <2> QED
      BY <1>1, <2>3, <2>4
  <1>3. TypeOK
    BY <1>2, MemoApiAssumption DEF Init, TypeOK, MemoTypeOK, MemoInit
  <1>4. SavePhases /\ OneMounted /\ EditorClaims
    BY DEF Init, SavePhases, Phase, OneMounted, EditorClaims, NoEditor, Calling
  <1>5. FutureNotes /\ CallClaims /\ MemoClaims
    BY DEF Init, FutureNotes, CallClaims, MemoClaims, MemoInit
  <1>6. DraftClaims
    BY <1>2 DEF Init, DraftClaims, Claim
  <1> QED
    BY <1>3, <1>4, <1>5, <1>6 DEF EInv

\* Every step of Next keeps the invariant.
LEMMA NextEInv == EInv /\ [Next]_vars => EInv'
  <1> SUFFICES ASSUME EInv, [Next]_vars PROVE EInv'
    OBVIOUS
  <1>1. ASSUME NEW i \in Editors,
               \/ Mount(i) \/ \E t \in Texts \cup {Blank} : Type(i, t)
               \/ PageHidden(i) \/ Unmount(i) \/ StartSave(i) \/ FinishSave(i)
        PROVE  EInv'
    BY <1>1, MountStep, TypeStep, PageHiddenStep, UnmountStep, StartSaveStep, FinishSaveStep
  <1>2. ASSUME NEW i \in Editors,
               \/ OnSaved(i) \/ OnExists(i) \/ OnMemo(i) \/ OnRejected(i) \/ OnNetworkError(i)
               \/ \E outcome \in Outcomes : Serve(i, outcome)
        PROVE  EInv'
    BY <1>2, OnSavedStep, OnExistsStep, OnMemoStep, OnRejectedStep, OnNetworkErrorStep, ServeStep
  <1>3. CASE (\E q \in late : ServeLate(q)) \/ TimerFires \/ PageLost
    BY <1>3, ServeLateStep, TimerFiresStep, PageLostStep
  <1>4. CASE UNCHANGED vars
    BY <1>4 DEF vars, history, EInv, TypeOK, MemoTypeOK, SavePhases, OneMounted, FutureNotes,
       EditorClaims, DraftClaims, CallClaims, MemoClaims, Claim, Undecided
  <1> QED
    BY <1>1, <1>2, <1>3, <1>4 DEF Next

(***************************************************************************)
(* The inductive invariant holds in every reachable state.                 *)
(***************************************************************************)
THEOREM EditorInvariance == Spec => []EInv
  BY InitEInv, NextEInv, PTL DEF Spec

(***************************************************************************)
(* Type correctness of the editor, its drafts, its calls and the table.    *)
(***************************************************************************)
THEOREM EditorTypeCorrect == Spec => []TypeOK
  <1>1. EInv => TypeOK
    BY DEF EInv
  <1> QED
    BY <1>1, EditorInvariance, PTL

(***************************************************************************)
(* No history of lost replies, late requests, reloads, remounts, retries   *)
(* and edits gives two memos for a note that is not yet confirmed and was  *)
(* never sent without its draft on disk (handleSave, useMemoInit).         *)
(***************************************************************************)
THEOREM NoDuplicateMemo == Spec => []AtMostOneMemo
  <1>1. EInv => AtMostOneMemo
    <2> SUFFICES ASSUME EInv, NEW n \in Undecided, NEW r1 \in RequestIds, NEW r2 \in RequestIds,
                        memos[r1].note = n, memos[r2].note = n
                 PROVE  r1 = r2
      BY DEF AtMostOneMemo
    <2>1. n \in Notes
      BY DEF Undecided
    <2>2. memos[r1] # NoMemo /\ memos[r2] # NoMemo
      BY <2>1, NoteFacts DEF NoMemo
    <2> QED
      BY <2>2 DEF EInv, MemoClaims, Claim
  <1> QED
    BY <1>1, EditorInvariance, PTL

(***************************************************************************)
(* A request under way, waiting or late, names a memo of its own note or   *)
(* none: reconciling after AlreadyExists (memoService.save) never writes   *)
(* over another note.                                                      *)
(***************************************************************************)
THEOREM RequestsKeepToTheirNote == Spec => []OwnMemoOnly
  <1>1. EInv => OwnMemoOnly
    <2> SUFFICES ASSUME EInv, NEW q \in RequestsUnderWay, Exists(q.rid)
                 PROVE  memos[q.rid].note = q.note
      BY DEF OwnMemoOnly
    <2>1. q \in Request /\ Claim(q.rid, q.note)
      <3>1. CASE q \in late
        BY <3>1 DEF EInv, TypeOK, CallClaims
      <3>2. ASSUME NEW i \in Editors, wire[i].phase = "request", q = wire[i]
            PROVE  q \in Request /\ Claim(q.rid, q.note)
        BY <3>2, NoteFacts DEF EInv, TypeOK, CallClaims, Reply, Quiet
      <3> QED
        BY <3>1, <3>2 DEF RequestsUnderWay
    <2>2. q.rid \in RequestIds /\ q.rid # NoId
      BY <2>1, MemoApiAssumption DEF Request
    <2>3. Claim(q.rid, memos[q.rid].note)
      BY <2>2 DEF Exists, EInv, MemoClaims
    <2> QED
      BY <2>1, <2>2, <2>3 DEF Claim
  <1> QED
    BY <1>1, EditorInvariance, PTL

(***************************************************************************)
(* What a call carries while its editor waits for it: the note of the      *)
(* editor; for a comment never a question that only the reconciliation of  *)
(* a memo asks (CreateMemoComment turns AlreadyExists into an internal     *)
(* error); and an answer that counts as saved says that the row is there,  *)
(* with its relation when it is a comment.                                 *)
(***************************************************************************)
Stored(rid) == Exists(rid) /\ (kind = "comment" => memos[rid].linked)

CallTells(i) ==
    /\ wire[i] # Quiet => wire[i].note = ed[i].note
    /\ kind = "comment" => wire[i].op \in {"none", "comment", "ok", "rejected"}
    /\ wire[i].phase = "reply" /\ wire[i].op \in {"ok", "memo"} => Stored(wire[i].rid)

CompleteInv == ConfirmedNoteComplete /\ \A i \in Editors : CallTells(i)

\* A row is never taken back, and keeps its note and its relation.
RowsKept ==
    \A r \in RequestIds : memos[r] # NoMemo =>
        memos'[r] # NoMemo /\ memos'[r].note = memos[r].note /\ (memos[r].linked => memos'[r].linked)

\* No handler deletes; an answer that counts as saved follows the row.
LEMMA HandleKeeps ==
    ASSUME MemoTypeOK, kind \in {"memo", "comment"}, NEW q \in Request, NEW outcome \in Outcomes, Handle(q, outcome)
    PROVE  /\ RowsKept
           /\ outcome \in {"ok", "memo"} => memos'[q.rid] # NoMemo
           /\ q.op = "comment" => outcome \in {"ok", "rejected"} /\ (outcome = "ok" => memos'[q.rid].linked)
  <1>1. q.rid \in RequestIds /\ q.text \in Texts /\ q.note \in Notes
    BY DEF Request
  <1>2. UNCHANGED memos => RowsKept
    BY DEF RowsKept
  <1>3. ASSUME NEW linked \in BOOLEAN, ~Exists(q.rid),
               memos' = [memos EXCEPT ![q.rid] =
                            [text |-> q.text, note |-> q.note, linked |-> linked]]
        PROVE  RowsKept /\ memos'[q.rid] # NoMemo /\ memos'[q.rid].linked = linked
    <2> DEFINE m == [text |-> q.text, note |-> q.note, linked |-> linked]
    <2>1. m # NoMemo /\ m.linked = linked
      BY <1>1, NoteFacts DEF NoMemo
    <2>2. memos' = [memos EXCEPT ![q.rid] = m]
      BY <1>3
    <2> HIDE DEF m
    <2> QED
      BY <1>1, <1>3, <2>1, <2>2 DEF MemoTypeOK, RowsKept, Exists
  <1>4. ASSUME Exists(q.rid), memos' = [memos EXCEPT ![q.rid].text = q.text]
        PROVE  RowsKept /\ memos'[q.rid] # NoMemo
    <2> DEFINE m == [memos[q.rid] EXCEPT !.text = q.text]
    <2>1. memos[q.rid] \in Memo
      BY <1>1, <1>4 DEF MemoTypeOK, Exists
    <2>2. m \in Memo /\ m.note = memos[q.rid].note /\ m.linked = memos[q.rid].linked
      BY <1>1, <2>1 DEF Memo
    <2>3. memos' = [memos EXCEPT ![q.rid] = m]
      BY <1>4
    <2> HIDE DEF m
    <2> QED
      BY <1>1, <2>2, <2>3, NoteFacts DEF MemoTypeOK, RowsKept
  <1>5. CASE q.op = "create"
    BY <1>2, <1>3, <1>5 DEF Handle, CreateMemo
  <1>6. CASE q.op = "comment"
    <2>1. CASE outcome = "rejected" /\ UNCHANGED memos
      BY <1>2, <1>6, <2>1
    <2>2. ASSUME NEW linked \in BOOLEAN, ~Exists(q.rid), outcome \in IF linked THEN {"ok", "rejected"} ELSE {"rejected"},
                 memos' = [memos EXCEPT ![q.rid] = [text |-> q.text, note |-> q.note, linked |-> linked]]
          PROVE  RowsKept /\ memos'[q.rid] # NoMemo /\ outcome \in {"ok", "rejected"} /\ (outcome = "ok" => memos'[q.rid].linked)
      BY <1>3, <2>2
    <2> QED
      BY <1>6, <2>1, <2>2 DEF Handle, CreateMemoComment
  <1>7. CASE q.op = "update"
    BY <1>2, <1>4, <1>7 DEF Handle, UpdateMemo
  <1>8. CASE q.op = "get"
    BY <1>1, <1>2, <1>8 DEF Handle, GetMemo, Exists
  <1> QED
    BY <1>5, <1>6, <1>7, <1>8 DEF Handle

(***************************************************************************)
(* A step of the page: the table stays, a note is confirmed only if its    *)
(* memo is complete, and a call stays, ends, or is a new request for the   *)
(* editor's note.                                                          *)
(***************************************************************************)
Complete(n) == \E r \in RequestIds : memos[r].note = n /\ (kind = "comment" => memos[r].linked)

NewCall(w, e) ==
    /\ w.phase = "request" /\ w.note = e.note
    /\ kind = "comment" => w.op = "comment"

LEMMA PageStep ==
    ASSUME CompleteInv, UNCHANGED <<memos, kind>>,
           \A n \in confirmed' : n \in confirmed \/ Complete(n),
           \A j \in Editors :
              \/ wire'[j] = Quiet
              \/ wire'[j] = wire[j] /\ (wire[j] # Quiet => ed'[j].note = ed[j].note)
              \/ NewCall(wire'[j], ed'[j])
    PROVE  CompleteInv'
  <1>1. ConfirmedNoteComplete'
    BY DEF CompleteInv, ConfirmedNoteComplete, Complete
  <1>2. ASSUME NEW j \in Editors PROVE CallTells(j)'
    <2>1. CASE wire'[j] = Quiet
      BY <2>1 DEF CallTells, Quiet
    <2>2. CASE wire'[j] = wire[j] /\ (wire[j] # Quiet => ed'[j].note = ed[j].note)
      BY <2>2 DEF CompleteInv, CallTells, Stored, Exists
    <2>3. CASE NewCall(wire'[j], ed'[j])
      BY <2>3 DEF CallTells, NewCall
    <2> QED
      BY <2>1, <2>2, <2>3
  <1> QED
    BY <1>1, <1>2 DEF CompleteInv

\* A step of the server: rows are kept, and the answer tells what it did.
LEMMA ServeComplete ==
    ASSUME EInv, CompleteInv, NEW i \in Editors, NEW outcome \in Outcomes, Serve(i, outcome)
    PROVE  CompleteInv'
  <1>1. /\ wire[i].phase = "request" /\ Handle(wire[i], outcome)
        /\ wire' = [wire EXCEPT ![i] = ReplyTo(wire[i], outcome)]
        /\ UNCHANGED <<ed, kind, confirmed>>
    BY DEF Serve, history
  <1>2. wire[i] \in Request /\ wire[i] # Quiet
    BY <1>1, NoteFacts DEF EInv, TypeOK, Reply, Quiet
  <1>3. /\ RowsKept
        /\ outcome \in {"ok", "memo"} => memos'[wire[i].rid] # NoMemo
        /\ wire[i].op = "comment" => outcome \in {"ok", "rejected"} /\ (outcome = "ok" => memos'[wire[i].rid].linked)
    BY <1>1, <1>2, HandleKeeps, MemoEditorAssumption DEF EInv, TypeOK
  <1>4. ConfirmedNoteComplete'
    BY <1>1, <1>3, NoteFacts DEF CompleteInv, ConfirmedNoteComplete, RowsKept, EInv, TypeOK, NoMemo
  <1>5. ASSUME NEW j \in Editors, j # i PROVE CallTells(j)'
    <2>1. wire'[j] = wire[j] /\ wire[j] \in Request \cup Reply \cup {Quiet}
      BY <1>1, <1>5 DEF EInv, TypeOK
    <2>2. wire[j].phase = "reply" => wire[j].rid \in RequestIds
      BY <2>1 DEF Request, Reply, Quiet
    <2> QED
      BY <1>1, <1>3, <2>1, <2>2 DEF CompleteInv, CallTells, Stored, Exists, RowsKept
  <1>6. CallTells(i)'
    <2>1. PICK w : w = ReplyTo(wire[i], outcome)
      OBVIOUS
    <2>2. w.phase = "reply" /\ w.op = outcome /\ w.rid = wire[i].rid /\ w.note = wire[i].note
      BY <2>1 DEF ReplyTo
    <2>3. wire'[i] = w
      BY <1>1, <2>1 DEF EInv, TypeOK
    <2>4. wire[i].note = ed[i].note
      BY <1>2 DEF CompleteInv, CallTells
    <2>5. kind = "comment" => wire[i].op = "comment"
      BY <1>2 DEF CompleteInv, CallTells, Request, Ops
    <2> QED
      BY <1>1, <1>3, <2>2, <2>3, <2>4, <2>5 DEF CallTells, Stored, Exists
  <1> QED
    BY <1>4, <1>5, <1>6 DEF CompleteInv

LEMMA ServeLateComplete ==
    ASSUME EInv, CompleteInv, NEW q \in late, ServeLate(q)
    PROVE  CompleteInv'
  <1>1. UNCHANGED <<wire, ed, kind, confirmed>>
    BY DEF ServeLate, history
  <1>2. RowsKept
    BY HandleKeeps, MemoEditorAssumption DEF ServeLate, EInv, TypeOK
  <1>3. ConfirmedNoteComplete'
    BY <1>1, <1>2, NoteFacts DEF CompleteInv, ConfirmedNoteComplete, RowsKept, EInv, TypeOK, NoMemo
  <1>4. ASSUME NEW j \in Editors PROVE CallTells(j)'
    <2>1. wire[j].phase = "reply" => wire[j].rid \in RequestIds
      BY DEF EInv, TypeOK, Request, Reply, Quiet
    <2> QED
      BY <1>1, <1>2, <2>1 DEF CompleteInv, CallTells, Stored, Exists, RowsKept
  <1> QED
    BY <1>3, <1>4 DEF CompleteInv

\* The note of a saving editor stays; an editor that does not save waits for nothing.
LEMMA IdleComplete ==
    ASSUME EInv, CompleteInv, NEW i \in Editors,
           \/ Mount(i) \/ \E t \in Texts \cup {Blank} : Type(i, t)
           \/ PageHidden(i) \/ Unmount(i) \/ FinishSave(i)
    PROVE  CompleteInv'
  <1>1. UNCHANGED <<memos, kind, confirmed, wire>>
    BY DEF Mount, Type, PageHidden, Unmount, FinishSave, history
  <1>2. \A j \in Editors \ {i} : ed'[j] = ed[j]
    BY DEF Mount, Type, PageHidden, Unmount, FinishSave, EInv, TypeOK
  <1>3. wire[i] = Quiet \/ ed'[i].note = ed[i].note
    <2>1. CASE Mount(i)
      BY <2>1 DEF Mount, EInv, SavePhases, Phase, NoEditor, Calling
    <2>2. CASE \E t \in Texts \cup {Blank} : Type(i, t)
      BY <2>2 DEF Type, EInv, SavePhases, Phase, Calling
    <2>3. CASE PageHidden(i)
      BY <2>3 DEF PageHidden
    <2>4. CASE Unmount(i)
      <3>1. wire[i] = Quiet \/ ed[i].saving # "no"
        BY DEF EInv, SavePhases, Phase, Calling
      <3>2. ed'[i] = Settle([ed[i] EXCEPT !.mounted = FALSE]) /\ ed[i] \in Editor
        BY <2>4, LiveEditor DEF Unmount, EInv, TypeOK
      <3> QED
        BY <3>1, <3>2 DEF Settle, Editor
    <2>5. CASE FinishSave(i)
      BY <2>5 DEF FinishSave, EInv, SavePhases, Phase, Calling
    <2> QED
      BY <2>1, <2>2, <2>3, <2>4, <2>5
  <1> QED
    BY <1>1, <1>2, <1>3, PageStep

\* handleSave sends the note that the editor holds.
LEMMA StartSaveComplete ==
    ASSUME EInv, CompleteInv, NEW i \in Editors, StartSave(i)
    PROVE  CompleteInv'
  <1>1. UNCHANGED <<memos, kind, confirmed>> /\ ed[i].mounted /\ ed[i].saving = "no"
    BY DEF StartSave
  <1>2. ed[i] \in Editor
    BY <1>1, LiveEditor
  <1>3. PICK r, ok : LET e == [ed[i] EXCEPT !.rid = r, !.delivery = "sending",
                                 !.saving = "creating", !.persisted = ok] IN
          /\ ed' = [ed EXCEPT ![i] = e]
          /\ wire' = [wire EXCEPT ![i] = Call(IF kind = "comment" THEN "comment" ELSE "create", e)]
    BY DEF StartSave
  <1>4. \A j \in Editors \ {i} : ed'[j] = ed[j] /\ wire'[j] = wire[j]
    BY <1>3 DEF EInv, TypeOK
  <1>5. NewCall(wire'[i], ed'[i])
    BY <1>2, <1>3 DEF NewCall, Call, EInv, TypeOK, Editor
  <1> QED
    BY <1>1, <1>4, <1>5, PageStep

\* A failed call ends; the others go on.
LEMMA FailureComplete ==
    ASSUME EInv, CompleteInv, NEW i \in Editors, OnRejected(i) \/ OnNetworkError(i)
    PROVE  CompleteInv'
  <1>1. UNCHANGED <<memos, kind, confirmed>> /\ wire' = [wire EXCEPT ![i] = Quiet]
    BY DEF OnRejected, OnNetworkError, history
  <1>2. \A j \in Editors \ {i} : ed'[j] = ed[j] /\ wire'[j] = wire[j]
    BY <1>1 DEF OnRejected, OnNetworkError, CatchError, EInv, TypeOK
  <1>3. wire'[i] = Quiet
    BY <1>1 DEF EInv, TypeOK
  <1> QED
    BY <1>1, <1>2, <1>3, PageStep

\* The memo that the call names came from the note of its editor.
LEMMA StoredIsComplete ==
    ASSUME EInv, CompleteInv, NEW i \in Editors, wire[i] # Quiet, wire[i].phase = "reply", Stored(wire[i].rid)
    PROVE  Complete(ed[i].note)
  <1>1. wire[i] \in Reply /\ Claim(wire[i].rid, wire[i].note) /\ wire[i].note = ed[i].note
    BY DEF EInv, TypeOK, CallClaims, CompleteInv, CallTells, Request, Reply
  <1>2. wire[i].rid \in RequestIds /\ wire[i].rid # NoId
    BY <1>1, MemoApiAssumption DEF Reply
  <1>3. Claim(wire[i].rid, memos[wire[i].rid].note)
    BY <1>2 DEF Stored, Exists, EInv, MemoClaims
  <1> QED
    BY <1>1, <1>2, <1>3 DEF Claim, Complete, Stored

\* A confirmed save.
LEMMA ConfirmComplete ==
    ASSUME EInv, CompleteInv, NEW i \in Editors, ed[i].saving \in Calling, Complete(ed[i].note), ConfirmSave(i),
           wire' = [wire EXCEPT ![i] = Quiet], UNCHANGED memos
    PROVE  CompleteInv'
  <1>1. kind' = kind
    BY DEF ConfirmSave
  <1>2. confirmed' = confirmed \cup {ed[i].note}
    BY CallerFacts DEF ConfirmSave, Editor
  <1>3. \A j \in Editors \ {i} : ed'[j] = ed[j] /\ wire'[j] = wire[j]
    BY DEF ConfirmSave, EInv, TypeOK
  <1>4. wire'[i] = Quiet
    BY DEF EInv, TypeOK
  <1> QED
    BY <1>1, <1>2, <1>3, <1>4, PageStep

LEMMA OnSavedComplete ==
    ASSUME EInv, CompleteInv, NEW i \in Editors, OnSaved(i)
    PROVE  CompleteInv'
  <1>1. wire[i] # Quiet /\ ed[i].saving \in Calling /\ wire[i].phase = "reply" /\ wire[i].op = "ok"
    BY AnsweredNotQuiet, CallerFacts DEF OnSaved, Answered
  <1>2. Complete(ed[i].note)
    BY <1>1, StoredIsComplete DEF CompleteInv, CallTells
  <1> QED
    BY <1>1, <1>2, ConfirmComplete DEF OnSaved

\* Only the save of a memo is reconciled.
LEMMA OnExistsComplete ==
    ASSUME EInv, CompleteInv, NEW i \in Editors, OnExists(i)
    PROVE  CompleteInv'
  <1>1. UNCHANGED <<memos, kind, confirmed>> /\ wire' = [wire EXCEPT ![i] = Call("get", ed[i])]
    BY DEF OnExists, history
  <1>2. kind # "comment"
    BY DEF OnExists, Answered, CompleteInv, CallTells
  <1>3. ed[i] \in Editor
    BY AnsweredNotQuiet, CallerFacts DEF OnExists
  <1>4. \A j \in Editors \ {i} : ed'[j] = ed[j] /\ wire'[j] = wire[j]
    BY <1>1 DEF OnExists, EInv, TypeOK
  <1>5. NewCall(wire'[i], ed'[i])
    BY <1>1, <1>2, <1>3 DEF OnExists, NewCall, Call, EInv, TypeOK, Editor
  <1> QED
    BY <1>1, <1>4, <1>5, PageStep

LEMMA OnMemoComplete ==
    ASSUME EInv, CompleteInv, NEW i \in Editors, OnMemo(i)
    PROVE  CompleteInv'
  <1>1. wire[i] # Quiet /\ ed[i].saving \in Calling /\ ed[i] \in Editor /\ wire[i].phase = "reply" /\ wire[i].op = "memo"
    BY AnsweredNotQuiet, CallerFacts DEF OnMemo, Answered
  <1>2. CASE wire[i].text = ed[i].content
    BY <1>1, <1>2, StoredIsComplete, ConfirmComplete DEF OnMemo, CompleteInv, CallTells
  <1>3. CASE wire[i].text # ed[i].content
    <2>1. /\ UNCHANGED <<memos, kind, confirmed>> /\ wire' = [wire EXCEPT ![i] = Call("update", ed[i])]
          /\ ed' = [ed EXCEPT ![i].saving = "updating"]
      BY <1>3 DEF OnMemo, history
    <2>2. kind # "comment"
      BY <1>1 DEF CompleteInv, CallTells
    <2>3. \A j \in Editors \ {i} : ed'[j] = ed[j] /\ wire'[j] = wire[j]
      BY <2>1 DEF EInv, TypeOK
    <2>4. NewCall(wire'[i], ed'[i])
      BY <1>1, <2>1, <2>2 DEF NewCall, Call, EInv, TypeOK, Editor
    <2> QED
      BY <2>1, <2>3, <2>4, PageStep
  <1> QED
    BY <1>2, <1>3

(***************************************************************************)
(* A note whose save was confirmed is on the server under some id, and a   *)
(* comment is attached to its parent (handleSave, CreateMemoComment).      *)
(***************************************************************************)
LEMMA InitComplete == Init => CompleteInv
  BY DEF Init, CompleteInv, ConfirmedNoteComplete, CallTells, Quiet

LEMMA NextComplete == EInv /\ CompleteInv /\ [Next]_vars => CompleteInv'
  <1> SUFFICES ASSUME EInv, CompleteInv, [Next]_vars PROVE CompleteInv'
    OBVIOUS
  <1>1. ASSUME NEW i \in Editors,
               \/ Mount(i) \/ \E t \in Texts \cup {Blank} : Type(i, t)
               \/ PageHidden(i) \/ Unmount(i) \/ StartSave(i) \/ FinishSave(i)
        PROVE  CompleteInv'
    BY <1>1, IdleComplete, StartSaveComplete
  <1>2. ASSUME NEW i \in Editors,
               \/ OnSaved(i) \/ OnExists(i) \/ OnMemo(i) \/ OnRejected(i) \/ OnNetworkError(i)
               \/ \E outcome \in Outcomes : Serve(i, outcome)
        PROVE  CompleteInv'
    BY <1>2, OnSavedComplete, OnExistsComplete, OnMemoComplete, FailureComplete, ServeComplete
  <1>3. CASE \E q \in late : ServeLate(q)
    BY <1>3, ServeLateComplete
  <1>4. CASE TimerFires \/ PageLost
    <2>1. UNCHANGED <<memos, kind, confirmed>>
      BY <1>4 DEF TimerFires, PageLost, history
    <2>2. \A j \in Editors : wire'[j] = Quiet \/ (wire'[j] = wire[j] /\ ed'[j] = ed[j])
      <3>1. (wire' = wire /\ ed' = ed) \/ wire' = [i \in Editors |-> Quiet]
        BY <1>4 DEF TimerFires, PageLost
      <3>2. CASE wire' = wire /\ ed' = ed
        BY <3>2
      <3>3. CASE wire' = [i \in Editors |-> Quiet]
        BY <3>3
      <3> QED
        BY <3>1, <3>2, <3>3
    <2> QED
      BY <2>1, <2>2, PageStep
  <1>5. CASE UNCHANGED vars
    BY <1>5, PageStep DEF vars, history
  <1> QED
    BY <1>1, <1>2, <1>3, <1>4, <1>5 DEF Next

(***************************************************************************)
(* A note whose save was confirmed is on the server, and a confirmed       *)
(* comment is attached to its parent, although CreateMemoComment stores    *)
(* the row and the relation in two steps: for any editors and late         *)
(* requests.                                                               *)
(***************************************************************************)
THEOREM ConfirmedNotesAreComplete == Spec => []ConfirmedNoteComplete
  <1>1. CompleteInv => ConfirmedNoteComplete
    BY DEF CompleteInv
  <1> QED
    BY <1>1, EditorInvariance, InitComplete, NextComplete, PTL DEF Spec

(***************************************************************************)
(* What localStorage holds is what the editor would need again, as long as *)
(* no closed editor is still saving beside it.                             *)
(***************************************************************************)
OneEditor == \A i, j \in Editors : i = j

\* While a persisted save waits, the entry and every write of it to come are
\* the editor's draft.
EntryIsDraft(e) ==
    /\ storage.rid = e.rid /\ storage.text = e.content
    /\ timer \in {NoDraft, DraftOf(e)}

DraftInv ==
    /\ storage # NoDraft => storage.text # Blank
    /\ \A i \in Editors :
          /\ ed[i].saving # "no" => ed[i].content # Blank
          /\ ed[i].mounted /\ ed[i].saving \in Calling /\ ed[i].persisted => EntryIsDraft(ed[i])
    /\ EmptyEditorNoDraft

\* With one editor, what a step must leave is about that editor alone.
LEMMA DraftInvStep ==
    ASSUME OneEditor, NEW i \in Editors,
           storage' # NoDraft => storage'.text # Blank,
           ed'[i].saving # "no" => ed'[i].content # Blank,
           ed'[i].mounted /\ ed'[i].saving \in Calling /\ ed'[i].persisted => EntryIsDraft(ed[i])',
           ed'[i].mounted /\ ed'[i].content = Blank /\ ed'[i].delivery = "idle" => storage' = NoDraft /\ timer' = NoDraft
    PROVE  DraftInv'
  <1>1. \A j \in Editors : j = i
    BY DEF OneEditor
  <1> QED
    BY <1>1 DEF DraftInv, EmptyEditorNoDraft

\* A write of the editor's draft that must be kept, and one that may fail.
LEMMA WriteDraft ==
    ASSUME NEW e \in Editor, NEW ok \in BOOLEAN, writeEntry(DraftOf(e), ok), e.content # Blank
    PROVE  storage' \in {storage, DraftOf(e)} /\ (ok => storage' = DraftOf(e))
  BY DEF writeEntry, DraftOf

LEMMA FlushDraft ==
    ASSUME NEW e \in Editor, NEW ok \in BOOLEAN, flushDraft(e, ok)
    PROVE  /\ e.content # Blank => storage' \in {storage, DraftOf(e)}
           /\ storage' \in {storage, NoDraft, DraftOf(e)} /\ (storage' = DraftOf(e) => e.content # Blank \/ storage' \in {storage, NoDraft})
           /\ timer' \in {timer, NoDraft}
           /\ e.content = Blank /\ e.delivery = "idle" /\ storage = NoDraft /\ timer = NoDraft => storage' = NoDraft /\ timer' = NoDraft
  BY DEF flushDraft, writeEntry, DraftOf, clear

LEMMA TypeDraft ==
    ASSUME OneEditor, EInv, DraftInv, NEW i \in Editors, NEW t \in Texts \cup {Blank}, Type(i, t)
    PROVE  DraftInv'
  <1>1. PICK e : e = [ed[i] EXCEPT !.content = t, !.discarded = FALSE]
    OBVIOUS
  <1>2. ed[i].mounted /\ ed[i].saving = "no" /\ ed' = [ed EXCEPT ![i] = e] /\ AutoSaveEffect(e)
    BY <1>1 DEF Type
  <1>3. e.saving = "no" /\ ed'[i] = e
    BY <1>1, <1>2, LiveEditor DEF EInv, TypeOK, Editor
  <1>4. storage' # NoDraft => storage'.text # Blank
    BY <1>2 DEF AutoSaveEffect, clear, DraftInv
  <1>5. e.content = Blank /\ e.delivery = "idle" => storage' = NoDraft /\ timer' = NoDraft
    BY <1>2 DEF AutoSaveEffect, clear
  <1> QED
    BY <1>3, <1>4, <1>5, DraftInvStep DEF Calling

LEMMA MountDraft ==
    ASSUME OneEditor, EInv, DraftInv, NEW i \in Editors, Mount(i)
    PROVE  DraftInv'
  <1>1. PICK e : /\ e = Recover(storage) \/ e = FreshEditor(nextNote)
                 /\ ed' = [ed EXCEPT ![i] = e] /\ AutoSaveEffect(e)
    BY DEF Mount
  <1>2. e.saving = "no" /\ ed'[i] = e
    BY <1>1 DEF EInv, TypeOK, Recover, FreshEditor, NoEditor
  <1>3. storage' # NoDraft => storage'.text # Blank
    BY <1>1 DEF AutoSaveEffect, clear, DraftInv
  <1>4. e.content = Blank /\ e.delivery = "idle" => storage' = NoDraft /\ timer' = NoDraft
    BY <1>1 DEF AutoSaveEffect, clear
  <1> QED
    BY <1>2, <1>3, <1>4, DraftInvStep DEF Calling

LEMMA FinishDraft ==
    ASSUME OneEditor, EInv, DraftInv, NEW i \in Editors, FinishSave(i)
    PROVE  DraftInv'
  <1>1. CASE ed' = [ed EXCEPT ![i] = FreshEditor(nextNote)] /\ AutoSaveEffect(FreshEditor(nextNote))
    <2>1. ed'[i] = FreshEditor(nextNote)
      BY <1>1 DEF EInv, TypeOK
    <2>2. storage' # NoDraft => storage'.text # Blank
      BY <1>1 DEF AutoSaveEffect, clear, DraftInv
    <2>3. ed'[i].saving = "no"
      BY <2>1 DEF FreshEditor, NoEditor
    <2>4. ed'[i].content = Blank /\ ed'[i].delivery = "idle" => storage' = NoDraft /\ timer' = NoDraft
      BY <1>1, <2>1 DEF AutoSaveEffect, clear
    <2> QED
      BY <2>2, <2>3, <2>4, DraftInvStep DEF Calling
  <1>2. CASE ed' = [ed EXCEPT ![i] = NoEditor] /\ UNCHANGED <<storage, timer>>
    <2>1. ed'[i] = NoEditor
      BY <1>2 DEF EInv, TypeOK
    <2> QED
      BY <1>2, <2>1, DraftInvStep DEF NoEditor, DraftInv
  <1> QED
    BY <1>1, <1>2 DEF FinishSave

\* A flush of a draft that waits writes the same draft again.
LEMMA HiddenDraft ==
    ASSUME OneEditor, EInv, DraftInv, NEW i \in Editors, PageHidden(i) \/ Unmount(i)
    PROVE  DraftInv'
  <1>1. PICK ok \in WriteOutcomes : flushDraft(ed[i], ok)
    BY DEF PageHidden, Unmount
  <1>2. ed[i].mounted /\ ed[i] \in Editor /\ ok \in BOOLEAN
    BY LiveEditor DEF PageHidden, Unmount, WriteOutcomes
  <1>3. ed'[i] = ed[i] \/ ed'[i] = NoEditor \/ (ed'[i] = [ed[i] EXCEPT !.mounted = FALSE])
    BY DEF PageHidden, Unmount, Settle, EInv, TypeOK
  <1>4. DraftOf(ed[i]).text = ed[i].content /\ DraftOf(ed[i]).rid = ed[i].rid
    BY DEF DraftOf
  <1>5. storage' # NoDraft => storage'.text # Blank
    BY <1>1, <1>2, <1>4, FlushDraft DEF DraftInv
  <1>6. ed'[i].saving # "no" => ed'[i].content # Blank
    BY <1>2, <1>3 DEF DraftInv, NoEditor, Editor
  <1>7. CASE ed'[i].mounted
    <2>1. ed'[i] = ed[i]
      BY <1>2, <1>3, <1>7 DEF NoEditor, Editor
    <2>2. ed[i].saving \in Calling /\ ed[i].persisted => EntryIsDraft(ed[i])
      BY <1>2 DEF DraftInv
    <2>3. ed[i].saving \in Calling => ed[i].content # Blank
      BY DEF DraftInv, Calling
    <2>4. ed[i].saving \in Calling /\ ed[i].persisted => storage'.rid = ed[i].rid /\ storage'.text = ed[i].content
      BY <1>1, <1>2, <1>4, <2>2, <2>3, FlushDraft DEF EntryIsDraft
    <2>5. ed[i].saving \in Calling /\ ed[i].persisted => timer' \in {NoDraft, DraftOf(ed[i])}
      BY <1>1, <1>2, <2>2, FlushDraft DEF EntryIsDraft
    <2>6. DraftOf(ed[i])' = DraftOf(ed[i])
      BY <2>1 DEF DraftOf
    <2>7. ed'[i].saving \in Calling /\ ed'[i].persisted => EntryIsDraft(ed[i])'
      BY <2>1, <2>4, <2>5, <2>6 DEF EntryIsDraft
    <2>8. ed[i].content = Blank /\ ed[i].delivery = "idle" => storage' = NoDraft /\ timer' = NoDraft
      BY <1>1, <1>2, FlushDraft DEF DraftInv, EmptyEditorNoDraft
    <2> QED
      BY <1>5, <1>6, <2>1, <2>7, <2>8, DraftInvStep
  <1>8. CASE ~ed'[i].mounted
    BY <1>5, <1>6, <1>8, DraftInvStep
  <1> QED
    BY <1>7, <1>8

\* The debounced write is of the same draft too.
LEMMA TimerDraft ==
    ASSUME OneEditor, EInv, DraftInv, TimerFires
    PROVE  DraftInv'
  <1>1. PICK ok \in WriteOutcomes : writeEntry(timer, ok)
    BY DEF TimerFires
  <1>2. timer # NoDraft /\ timer' = NoDraft /\ ed' = ed
    BY DEF TimerFires
  <1>3. storage' # NoDraft => storage'.text # Blank
    BY <1>1 DEF writeEntry, DraftInv
  <1>4. CASE Editors = {}
    BY <1>2, <1>3, <1>4 DEF DraftInv, EmptyEditorNoDraft
  <1>5. ASSUME NEW i \in Editors PROVE DraftInv'
    <2>1. ed'[i].saving # "no" => ed'[i].content # Blank
      BY <1>2 DEF DraftInv
    <2>2. ASSUME ed[i].mounted, ed[i].saving \in Calling, ed[i].persisted
          PROVE  EntryIsDraft(ed[i])'
      <3>1. ed[i].content # Blank /\ timer = DraftOf(ed[i]) /\ storage.rid = ed[i].rid /\ storage.text = ed[i].content
        BY <1>2, <2>2 DEF DraftInv, EntryIsDraft, Calling
      <3>2. timer.text = ed[i].content /\ timer.rid = ed[i].rid
        BY <3>1 DEF DraftOf
      <3>3. storage' \in {storage, timer}
        BY <1>1, <3>1, <3>2 DEF writeEntry
      <3> QED
        BY <1>2, <3>1, <3>2, <3>3 DEF EntryIsDraft
    <2>3. ed[i].mounted /\ ed[i].content = Blank /\ ed[i].delivery = "idle" => FALSE
      BY <1>2 DEF DraftInv, EmptyEditorNoDraft
    <2> QED
      BY <1>2, <1>3, <2>1, <2>2, <2>3, DraftInvStep
  <1> QED
    BY <1>4, <1>5

\* handleSave writes the draft before it sends it.
LEMMA StartDraft ==
    ASSUME OneEditor, EInv, DraftInv, NEW i \in Editors, StartSave(i)
    PROVE  DraftInv'
  <1>1. ed[i].mounted /\ ed[i].saving = "no" /\ ed[i].content # Blank
    BY DEF StartSave
  <1>2. PICK r, ok, e :
          /\ r \in IdsToSend(ed[i]) /\ ok \in WriteOutcomes
          /\ e = [ed[i] EXCEPT !.rid = r, !.delivery = "sending", !.saving = "creating", !.persisted = ok]
          /\ ed' = [ed EXCEPT ![i] = e]
          /\ writeEntry(DraftOf(e), ok)
          /\ timer' = DraftOf(e)
    BY DEF StartSave
  <1>3. ed[i] \in Editor /\ ed[i].rid \in RequestIds \cup {NoId}
    BY <1>1, LiveEditor
  <1>4. r \in RequestIds /\ ok \in BOOLEAN
    BY <1>2, <1>3 DEF IdsToSend, UnusedIds, WriteOutcomes
  <1>5. e \in Editor /\ e.content # Blank /\ e.persisted = ok /\ e.delivery = "sending" /\ ed'[i] = e
    BY <1>1, <1>2, <1>3, <1>4 DEF Editor, Calling, EInv, TypeOK
  <1>6. storage' \in {storage, DraftOf(e)} /\ (ok => storage' = DraftOf(e))
    BY <1>2, <1>4, <1>5, WriteDraft
  <1>7. DraftOf(e).text = e.content /\ DraftOf(e).rid = e.rid
    BY DEF DraftOf
  <1>8. storage' # NoDraft => storage'.text # Blank
    BY <1>5, <1>6, <1>7 DEF DraftInv
  <1>9. e.persisted => EntryIsDraft(ed[i])'
    BY <1>2, <1>5, <1>6, <1>7 DEF EntryIsDraft, DraftOf
  <1> QED
    BY <1>5, <1>8, <1>9, DraftInvStep

\* The continuations: the catch block and the confirmation leave nothing to wait for.
LEMMA CatchDraft ==
    ASSUME OneEditor, EInv, DraftInv, NEW i \in Editors, NEW network \in BOOLEAN, ed[i].saving \in Calling, CatchError(i, network)
    PROVE  DraftInv'
  <1>1. ed[i] \in Editor /\ ed[i].content # Blank
    BY CallerFacts, MemoApiAssumption
  <1>2. PICK e : /\ e = [ed[i] EXCEPT !.delivery = "unsent", !.saving = "no"] \/ e = [ed[i] EXCEPT !.delivery = "idle", !.saving = "no"]
                 /\ ed' = [ed EXCEPT ![i] = Settle(e)]
                 /\ storage' = storage \/ \E ok \in WriteOutcomes : writeEntry(DraftOf(e), ok)
    BY DEF CatchError
  <1>3. e \in Editor /\ e.content # Blank /\ e.saving = "no"
    BY <1>1, <1>2 DEF Editor
  <1>4. storage' \in {storage, DraftOf(e)}
    BY <1>2, <1>3, WriteDraft DEF WriteOutcomes
  <1>5. storage' # NoDraft => storage'.text # Blank
    BY <1>3, <1>4 DEF DraftInv, DraftOf
  <1>6. ed'[i] \in {e, NoEditor}
    BY <1>2, <1>3, SettleFacts DEF EInv, TypeOK
  <1> QED
    BY <1>3, <1>5, <1>6, DraftInvStep DEF Calling, NoEditor

LEMMA ConfirmDraft ==
    ASSUME OneEditor, EInv, DraftInv, NEW i \in Editors, ed[i].saving \in Calling, ConfirmSave(i)
    PROVE  DraftInv'
  <1>1. ed[i] \in Editor /\ ed[i].content # Blank
    BY CallerFacts, MemoApiAssumption
  <1>2. storage' = NoDraft /\ ed'[i] = [ed[i] EXCEPT !.discarded = TRUE, !.rid = NoId, !.delivery = "idle", !.saving = "refreshing"]
    BY DEF ConfirmSave, EInv, TypeOK
  <1>3. ed'[i].content # Blank /\ ed'[i].saving = "refreshing"
    BY <1>1, <1>2 DEF Editor
  <1> QED
    BY <1>2, <1>3, DraftInvStep DEF Calling

LEMMA NextCallDraft ==
    ASSUME OneEditor, EInv, DraftInv, NEW i \in Editors, ed[i].saving \in Calling, NEW phase \in Calling,
           ed' = [ed EXCEPT ![i].saving = phase], UNCHANGED <<storage, timer>>
    PROVE  DraftInv'
  <1>1. ed[i] \in Editor /\ ed[i].content # Blank
    BY CallerFacts, MemoApiAssumption
  <1>2. ed'[i] = [ed[i] EXCEPT !.saving = phase]
    BY DEF EInv, TypeOK
  <1>3. /\ ed'[i].content = ed[i].content /\ ed'[i].rid = ed[i].rid /\ ed'[i].delivery = ed[i].delivery
        /\ ed'[i].note = ed[i].note /\ ed'[i].persisted = ed[i].persisted /\ ed'[i].mounted = ed[i].mounted
    BY <1>1, <1>2 DEF Editor
  <1>4. DraftOf(ed[i])' = DraftOf(ed[i])
    BY <1>3 DEF DraftOf
  <1>5. ed[i].mounted /\ ed[i].persisted => EntryIsDraft(ed[i])'
    BY <1>3, <1>4 DEF DraftInv, EntryIsDraft
  <1>6. storage' # NoDraft => storage'.text # Blank
    BY DEF DraftInv
  <1> QED
    BY <1>1, <1>3, <1>5, <1>6, DraftInvStep

LEMMA NextDraft == OneEditor /\ EInv /\ DraftInv /\ [Next]_vars => DraftInv'
  <1> SUFFICES ASSUME OneEditor, EInv, DraftInv, [Next]_vars PROVE DraftInv'
    OBVIOUS
  <1>1. ASSUME NEW i \in Editors,
               \/ Mount(i) \/ \E t \in Texts \cup {Blank} : Type(i, t)
               \/ PageHidden(i) \/ Unmount(i) \/ StartSave(i) \/ FinishSave(i)
        PROVE  DraftInv'
    BY <1>1, MountDraft, TypeDraft, HiddenDraft, StartDraft, FinishDraft
  <1>2. ASSUME NEW i \in Editors,
               \/ OnSaved(i) \/ OnExists(i) \/ OnMemo(i) \/ OnRejected(i) \/ OnNetworkError(i)
        PROVE  DraftInv'
    <2>1. ed[i].saving \in Calling
      BY <1>2, AnsweredNotQuiet, CallerFacts DEF OnSaved, OnExists, OnMemo, OnRejected, OnNetworkError
    <2>2. CASE ConfirmSave(i)
      BY <2>1, <2>2, ConfirmDraft
    <2>3. CASE \E network \in BOOLEAN : CatchError(i, network)
      BY <2>1, <2>3, CatchDraft
    <2>4. CASE \E phase \in Calling : ed' = [ed EXCEPT ![i].saving = phase] /\ UNCHANGED <<storage, timer>>
      BY <2>1, <2>4, NextCallDraft
    <2>5. "getting" \in Calling /\ "updating" \in Calling
      BY DEF Calling
    <2>6. CASE OnExists(i)
      BY <2>4, <2>5, <2>6 DEF OnExists
    <2>7. CASE OnMemo(i)
      BY <2>2, <2>4, <2>5, <2>7 DEF OnMemo
    <2> QED
      BY <1>2, <2>2, <2>3, <2>6, <2>7 DEF OnSaved, OnRejected, OnNetworkError
  <1>3. CASE UNCHANGED <<ed, storage, timer>>
    BY <1>3 DEF DraftInv, EmptyEditorNoDraft, EntryIsDraft, DraftOf
  <1>4. CASE (\E i \in Editors, outcome \in Outcomes : Serve(i, outcome)) \/ (\E q \in late : ServeLate(q)) \/ UNCHANGED vars
    <2>1. UNCHANGED <<ed, storage, timer>>
      BY <1>4 DEF Serve, ServeLate, vars
    <2> QED
      BY <1>3, <2>1
  <1>5. CASE TimerFires
    BY <1>5, TimerDraft
  <1>6. CASE PageLost
    <2>1. storage' = storage /\ ed' = [i \in Editors |-> NoEditor]
      BY <1>6 DEF PageLost
    <2> QED
      BY <2>1 DEF DraftInv, EmptyEditorNoDraft, NoEditor
  <1> QED
    BY <1>1, <1>2, <1>4, <1>5, <1>6 DEF Next

LEMMA InitDraft == Init => DraftInv
  <1> SUFFICES ASSUME Init PROVE DraftInv
    OBVIOUS
  <1>1. storage # NoDraft => storage.text # Blank
    BY MemoApiAssumption DEF Init, LegacyDrafts
  <1>2. \A i \in Editors : ed[i] = NoEditor
    BY DEF Init
  <1> QED
    BY <1>1, <1>2 DEF DraftInv, EmptyEditorNoDraft, NoEditor

(***************************************************************************)
(* As long as no second mount is alive: while a save that handleSave       *)
(* reported as persisted waits, the entry of cacheService is the draft     *)
(* with its id, whatever fails, hides or reloads the page; and an empty    *)
(* editor leaves neither an entry nor a scheduled write.                   *)
(***************************************************************************)
THEOREM DraftsFollowTheEditor ==
    ASSUME OneEditor PROVE Spec => []DraftFollowsEditor
  <1>1. EInv /\ DraftInv /\ [Next]_vars => DraftInv'
    BY NextDraft
  <1>2. DraftInv => DraftFollowsEditor
    BY DEF DraftInv, DraftFollowsEditor, InFlightRecoverable, EntryIsDraft
  <1> QED
    BY <1>1, <1>2, EditorInvariance, InitDraft, PTL DEF Spec

(***************************************************************************)
(* With no second writer - no other mount, no request that outlives its    *)
(* caller - the row under the id has the text of the last request: the     *)
(* call in flight carries the editor's text, which is read-only meanwhile, *)
(* and an answer that counts as saved tells the text that is stored.       *)
(***************************************************************************)
TextTells(i) ==
    /\ wire[i].phase \in {"request", "reply"} => wire[i].rid = ed[i].rid
    /\ wire[i].phase = "request" => wire[i].text = ed[i].content
    /\ wire[i].phase = "reply" /\ wire[i].op = "ok" => memos[wire[i].rid].text = ed[i].content
    /\ wire[i].phase = "reply" /\ wire[i].op = "memo" => memos[wire[i].rid].text = wire[i].text

TextInv == late = {} /\ \A i \in Editors : TextTells(i)

LEMMA NothingLate ==
    ASSUME MaxLate = 0, late = {}, NEW w
    PROVE  Abandoned(w) = {}
  <1>1. Cardinality(late) = 0
    BY FS_EmptySet
  <1> QED
    BY <1>1 DEF Abandoned

\* A step of the page leaves the table.
LEMMA TextStep ==
    ASSUME OneEditor, TextInv, UNCHANGED memos, late' = {}, NEW i \in Editors,
           \/ wire'[i] = Quiet
           \/ wire'[i] = wire[i] /\ (wire[i] # Quiet => ed'[i].rid = ed[i].rid /\ ed'[i].content = ed[i].content)
           \/ wire'[i].phase = "request" /\ wire'[i].rid = ed'[i].rid /\ wire'[i].text = ed'[i].content
    PROVE  TextInv'
  <1>1. \A j \in Editors : j = i
    BY DEF OneEditor
  <1>2. TextTells(i)'
    <2>1. CASE wire'[i] = Quiet
      BY <2>1 DEF TextTells, Quiet
    <2>2. CASE wire'[i] = wire[i] /\ wire[i] # Quiet /\ ed'[i].rid = ed[i].rid /\ ed'[i].content = ed[i].content
      BY <2>2 DEF TextInv, TextTells
    <2>3. CASE wire'[i].phase = "request" /\ wire'[i].rid = ed'[i].rid /\ wire'[i].text = ed'[i].content
      BY <2>3 DEF TextTells
    <2> QED
      BY <2>1, <2>2, <2>3
  <1> QED
    BY <1>1, <1>2 DEF TextInv

\* The handler of a call stores its text, or answers with the stored one.
LEMMA HandleTells ==
    ASSUME MemoTypeOK, NEW q \in Request, NEW outcome \in Outcomes, Handle(q, outcome)
    PROVE  /\ outcome = "ok" => memos'[q.rid].text = q.text
           /\ outcome = "memo" => memos' = memos
  <1>1. q.rid \in RequestIds
    BY DEF Request
  <1>2. ASSUME NEW linked, memos' = [memos EXCEPT ![q.rid] = [text |-> q.text, note |-> q.note, linked |-> linked]]
        PROVE  memos'[q.rid].text = q.text
    BY <1>1, <1>2 DEF MemoTypeOK
  <1>3. ASSUME Exists(q.rid), memos' = [memos EXCEPT ![q.rid].text = q.text]
        PROVE  memos'[q.rid].text = q.text
    BY <1>1, <1>3 DEF MemoTypeOK, Exists, Memo
  <1> QED
    BY <1>2, <1>3 DEF Handle, CreateMemo, CreateMemoComment, UpdateMemo, GetMemo

LEMMA ServeText ==
    ASSUME OneEditor, EInv, TextInv, NEW i \in Editors, NEW outcome \in Outcomes, Serve(i, outcome)
    PROVE  TextInv'
  <1>1. /\ wire[i].phase = "request" /\ Handle(wire[i], outcome)
        /\ wire' = [wire EXCEPT ![i] = ReplyTo(wire[i], outcome)] /\ UNCHANGED <<ed, late>>
    BY DEF Serve
  <1>2. wire[i] \in Request
    BY <1>1 DEF EInv, TypeOK, Reply, Quiet
  <1>3. PICK w : w = ReplyTo(wire[i], outcome)
    OBVIOUS
  <1>4. /\ w.phase = "reply" /\ w.op = outcome /\ w.rid = wire[i].rid
        /\ outcome = "memo" => w.text = memos[wire[i].rid].text
    BY <1>3 DEF ReplyTo
  <1>5. wire'[i] = w
    BY <1>1, <1>3 DEF EInv, TypeOK
  <1>6. wire[i].rid = ed[i].rid /\ wire[i].text = ed[i].content
    BY <1>1 DEF TextInv, TextTells
  <1>7. TextTells(i)'
    BY <1>1, <1>2, <1>4, <1>5, <1>6, HandleTells DEF TextTells, EInv, TypeOK
  <1> QED
    BY <1>1, <1>7 DEF TextInv, OneEditor

LEMMA NextText == OneEditor /\ MaxLate = 0 /\ EInv /\ TextInv /\ [Next]_vars => TextInv'
  <1> SUFFICES ASSUME OneEditor, MaxLate = 0, EInv, TextInv, [Next]_vars PROVE TextInv'
    OBVIOUS
  <1>1. late = {} /\ \A w : Abandoned(w) = {}
    BY NothingLate DEF TextInv
  <1>2. ASSUME NEW i \in Editors,
               \/ Mount(i) \/ \E t \in Texts \cup {Blank} : Type(i, t)
               \/ PageHidden(i) \/ Unmount(i) \/ FinishSave(i)
        PROVE  TextInv'
    <2>1. UNCHANGED <<memos, wire, late>>
      BY <1>2 DEF Mount, Type, PageHidden, Unmount, FinishSave
    <2>2. wire[i] = Quiet \/ (ed'[i].rid = ed[i].rid /\ ed'[i].content = ed[i].content)
      <3>1. CASE Mount(i)
        BY <3>1 DEF Mount, EInv, SavePhases, Phase, NoEditor, Calling
      <3>2. CASE \E t \in Texts \cup {Blank} : Type(i, t)
        BY <3>2 DEF Type, EInv, SavePhases, Phase, Calling
      <3>3. CASE PageHidden(i)
        BY <3>3 DEF PageHidden
      <3>4. CASE Unmount(i)
        <4>1. wire[i] = Quiet \/ ed[i].saving # "no"
          BY DEF EInv, SavePhases, Phase, Calling
        <4>2. ed'[i] = Settle([ed[i] EXCEPT !.mounted = FALSE]) /\ ed[i] \in Editor
          BY <3>4, LiveEditor DEF Unmount, EInv, TypeOK
        <4> QED
          BY <4>1, <4>2 DEF Settle, Editor
      <3>5. CASE FinishSave(i)
        BY <3>5 DEF FinishSave, EInv, SavePhases, Phase, Calling
      <3> QED
        BY <1>2, <3>1, <3>2, <3>3, <3>4, <3>5
    <2> QED
      BY <1>1, <2>1, <2>2, TextStep
  <1>3. ASSUME NEW i \in Editors, StartSave(i) \/ OnExists(i) \/ OnMemo(i)
        PROVE  TextInv'
    <2>1. UNCHANGED <<memos, late>>
      BY <1>3 DEF StartSave, OnExists, OnMemo
    <2>2. wire' = [wire EXCEPT ![i] = Quiet]
            \/ \E op, e : wire' = [wire EXCEPT ![i] = Call(op, e)] /\ ed'[i].rid = e.rid /\ ed'[i].content = e.content
      <3>1. CASE StartSave(i)
        <4>1. PICK e : ed' = [ed EXCEPT ![i] = e]
                         /\ wire' = [wire EXCEPT ![i] = Call(IF kind = "comment" THEN "comment" ELSE "create", e)]
          BY <3>1 DEF StartSave
        <4>2. ed'[i] = e
          BY <4>1 DEF EInv, TypeOK
        <4> QED
          BY <4>1, <4>2
      <3>2. ASSUME NEW phase \in Calling, ed' = [ed EXCEPT ![i].saving = phase], ed[i].saving \in Calling
            PROVE  ed'[i].rid = ed[i].rid /\ ed'[i].content = ed[i].content
        BY <3>2, CallerFacts DEF EInv, TypeOK, Editor
      <3>3. CASE OnExists(i) \/ OnMemo(i)
        <4>1. ed[i].saving \in Calling
          BY <3>3, AnsweredNotQuiet, CallerFacts DEF OnExists, OnMemo
        <4>2. "getting" \in Calling /\ "updating" \in Calling
          BY DEF Calling
        <4> QED
          BY <3>2, <3>3, <4>1, <4>2 DEF OnExists, OnMemo
      <3> QED
        BY <1>3, <3>1, <3>3
    <2>3. CASE wire' = [wire EXCEPT ![i] = Quiet]
      <3>1. wire'[i] = Quiet
        BY <2>3 DEF EInv, TypeOK
      <3> QED
        BY <1>1, <2>1, <3>1, TextStep
    <2>4. ASSUME NEW op, NEW e, wire' = [wire EXCEPT ![i] = Call(op, e)], ed'[i].rid = e.rid, ed'[i].content = e.content
          PROVE  TextInv'
      <3>1. wire'[i] = Call(op, e)
        BY <2>4 DEF EInv, TypeOK
      <3>2. wire'[i].phase = "request" /\ wire'[i].rid = e.rid /\ wire'[i].text = e.content
        BY <3>1 DEF Call
      <3> QED
        BY <1>1, <2>1, <2>4, <3>2, TextStep
    <2> QED
      BY <2>2, <2>3, <2>4
  <1>4. ASSUME NEW i \in Editors, OnSaved(i) \/ OnRejected(i) \/ OnNetworkError(i)
        PROVE  TextInv'
    <2>1. UNCHANGED memos /\ late' = {} /\ wire' = [wire EXCEPT ![i] = Quiet]
      BY <1>1, <1>4 DEF OnSaved, OnRejected, OnNetworkError
    <2>2. wire'[i] = Quiet
      BY <2>1 DEF EInv, TypeOK
    <2> QED
      BY <2>1, <2>2, TextStep
  <1>5. CASE \E i \in Editors, outcome \in Outcomes : Serve(i, outcome)
    BY <1>5, ServeText
  <1>6. CASE TimerFires \/ UNCHANGED vars
    <2>1. memos' = memos /\ late' = late /\ ed' = ed /\ wire' = wire
      BY <1>6 DEF TimerFires, vars
    <2> QED
      BY <2>1 DEF TextInv, TextTells
  <1>7. CASE PageLost
    <2>1. wire' = [i \in Editors |-> Quiet] /\ late' = late \cup UNION {Abandoned(wire[i]) : i \in Editors}
      BY <1>7 DEF PageLost
    <2>2. late' = {}
      BY <1>1, <2>1
    <2> QED
      BY <2>1, <2>2 DEF TextInv, TextTells, Quiet
  <1> QED
    BY <1>1, <1>2, <1>3, <1>4, <1>5, <1>6, <1>7 DEF Next

\* What the confirmation of a save says of the text on the server.
ConfirmsStoredText ==
    \A i \in Editors :
        ed[i].saving \in Calling /\ ed'[i].saving = "refreshing" =>
            memos[ed[i].rid].text = ed[i].content

LEMMA ConfirmsText == EInv /\ TextInv /\ [Next]_vars => ConfirmsStoredText
  <1> SUFFICES ASSUME EInv, TextInv, [Next]_vars, NEW i \in Editors,
                      ed[i].saving \in Calling, ed'[i].saving = "refreshing"
               PROVE  memos[ed[i].rid].text = ed[i].content
    BY DEF ConfirmsStoredText
  <1>1. ed[i] \in Editor /\ ed[i].saving # "refreshing" /\ ed[i].saving # "no"
    BY CallerFacts DEF Calling
  <1>2. ASSUME NEW j \in Editors, j # i, \A k \in Editors \ {j} : ed'[k] = ed[k] PROVE FALSE
    BY <1>1, <1>2
  <1>3. CASE OnSaved(i) \/ OnMemo(i)
    <2>1. wire[i].phase = "reply" /\ (wire[i].op = "ok" \/ (wire[i].op = "memo" /\ wire[i].text = ed[i].content))
      <3>1. CASE OnSaved(i)
        BY <3>1 DEF OnSaved, Answered
      <3>2. CASE OnMemo(i) /\ wire[i].text = ed[i].content
        BY <3>2 DEF OnMemo, Answered
      <3>3. CASE OnMemo(i) /\ wire[i].text # ed[i].content
        <4>1. ed'[i].saving = "updating"
          BY <1>1, <3>3 DEF OnMemo, EInv, TypeOK, Editor
        <4> QED
          BY <4>1
      <3> QED
        BY <1>3, <3>1, <3>2, <3>3
    <2> QED
      BY <2>1 DEF TextInv, TextTells
  <1>4. ASSUME NEW j \in Editors,
               \/ Mount(j) \/ \E t \in Texts \cup {Blank} : Type(j, t)
               \/ PageHidden(j) \/ Unmount(j) \/ StartSave(j) \/ FinishSave(j)
        PROVE  FALSE
    <2>1. \A k \in Editors \ {j} : ed'[k] = ed[k]
      BY <1>4 DEF Mount, Type, PageHidden, Unmount, StartSave, FinishSave, EInv, TypeOK
    <2>2. j = i
      BY <1>2, <2>1
    <2>3. PageHidden(i) \/ Unmount(i)
      <3>1. ~Mount(i)
        BY <1>1 DEF Mount, NoEditor
      <3>2. ~StartSave(i) /\ ~FinishSave(i) /\ \A t \in Texts \cup {Blank} : ~Type(i, t)
        BY <1>1 DEF StartSave, FinishSave, Type
      <3> QED
        BY <1>4, <2>2, <3>1, <3>2
    <2>4. ed'[i] \in {ed[i], NoEditor, [ed[i] EXCEPT !.mounted = FALSE]}
      BY <2>3 DEF PageHidden, Unmount, Settle, EInv, TypeOK
    <2> QED
      BY <1>1, <2>4 DEF NoEditor, Editor
  <1>5. ASSUME NEW j \in Editors,
               \/ OnSaved(j) \/ OnExists(j) \/ OnMemo(j) \/ OnRejected(j) \/ OnNetworkError(j)
        PROVE  j = i /\ (OnSaved(i) \/ OnMemo(i))
    <2>1. \A k \in Editors \ {j} : ed'[k] = ed[k]
      BY <1>5 DEF OnSaved, OnMemo, ConfirmSave, OnExists, OnRejected, OnNetworkError, CatchError, EInv, TypeOK
    <2>2. j = i
      BY <1>2, <2>1
    <2>3. CASE OnExists(i)
      <3>1. ed'[i].saving = "getting"
        BY <1>1, <2>3 DEF OnExists, EInv, TypeOK, Editor
      <3> QED
        BY <3>1
    <2>4. CASE OnRejected(i) \/ OnNetworkError(i)
      <3>1. PICK e : /\ e = [ed[i] EXCEPT !.delivery = "unsent", !.saving = "no"] \/ e = [ed[i] EXCEPT !.delivery = "idle", !.saving = "no"]
                     /\ ed' = [ed EXCEPT ![i] = Settle(e)]
        BY <2>4 DEF CatchError, OnRejected, OnNetworkError
      <3>2. ed'[i] \in {e, NoEditor} /\ e.saving = "no"
        BY <1>1, <3>1 DEF Settle, EInv, TypeOK, Editor
      <3> QED
        BY <3>2 DEF NoEditor
    <2> QED
      BY <1>5, <2>2, <2>3, <2>4
  <1>6. CASE TimerFires \/ UNCHANGED vars \/ PageLost \/ (\E q \in late : ServeLate(q))
                \/ (\E j \in Editors, outcome \in Outcomes : Serve(j, outcome))
    <2>1. ed' = ed \/ ed' = [k \in Editors |-> NoEditor]
      BY <1>6 DEF TimerFires, vars, PageLost, ServeLate, Serve
    <2> QED
      BY <1>1, <2>1 DEF NoEditor
  <1> QED
    BY <1>3, <1>4, <1>5, <1>6 DEF Next

(***************************************************************************)
(* With one mount and no request that outlives its caller, the user is     *)
(* told "saved" only when the server holds the text in the editor,         *)
(* whichever way handleSave got there: created, reconciled after           *)
(* AlreadyExists, or found stored.  A second writer of the same id can     *)
(* change the row after the answer (UpdateMemo: the last writer wins).     *)
(***************************************************************************)
THEOREM ConfirmedTextIsStored ==
    ASSUME OneEditor, MaxLate = 0 PROVE Spec => ConfirmedTextStored
  <1>1. Init => TextInv
    BY DEF Init, TextInv, TextTells, Quiet
  <1>2. EInv /\ TextInv /\ [Next]_vars => TextInv'
    BY NextText
  <1>3. EInv /\ TextInv /\ [Next]_vars => [ConfirmsStoredText]_vars
    BY ConfirmsText
  <1>4. Spec => [][ConfirmsStoredText]_vars
    BY <1>1, <1>2, <1>3, EditorInvariance, PTL DEF Spec
  <1> QED
    BY <1>4 DEF ConfirmedTextStored, ConfirmsStoredText

=============================================================================
